----------------------------- MODULE TopicModel -----------------------------
(***************************************************************************)
(* The topic model (Data/TopicModel.hpp): one of four models of the        *)
(* tomoto library, with or without a fixed number of topics (LDA, HDP) and *)
(* with one of two term weightings, behind one class.  The class creates   *)
(* the model when it is first needed, keeps the settings it was created    *)
(* from, and finds out by trial which kind of model a file holds.          *)
(***************************************************************************)
EXTENDS Integers, Sequences, SequencesExt, FiniteSetsExt, TLC

CONSTANTS
  Documents,   \* names of documents
  MaxSteps,    \* bound on the iterations of a model
  Numbers      \* numbers of topics, of tokens removed, and seeds

VARIABLES
  model,       \* the model of the library: see Created
  settings,    \* the members of the class
  labels,      \* the labeler: NoLabels, or the iterations the model then had
  file,        \* what has been saved: see NoFile
  loaded       \* history: the file the model comes from, or NoFile

vars == <<model, settings, labels, file, loaded>>

NoLabels == -1
Kinds == {"hdp", "lda"}
InitialTopics == 2
Version == "current"
Versions == {"", Version, "older"}
NoModel == [kind |-> "none"]
NoFile == [kind |-> "none"]
Broken == [kind |-> "broken"]

Defaults ==
  [hasDocs |-> FALSE, isPrepared |-> FALSE, fixedNumberOfTopics |-> 0, numberOfInitialTopics |-> InitialTopics,
   seed |-> 0, remove |-> 0, version |-> ""]

-----------------------------------------------------------------------------
(* The library.                                                             *)

\* A new model: topics 1 .. k, of which all are alive in a model of fixed size.
Created(kind, idf, k) ==
  [kind |-> kind, idf |-> idf, k |-> k, live |-> 1 .. k, docs |-> <<>>, steps |-> 0, prepared |-> 0, removed |-> 0]

\* Iterations may create topics and kill some of them if their number is not fixed.
Trained(m, iterations) ==
  IF m.kind = "lda" \/ iterations = 0 THEN {[m EXCEPT !.steps = @ + iterations]}
  ELSE UNION {{[m EXCEPT !.steps = @ + iterations, !.k = k, !.live = live] :
                 live \in (SUBSET (1 .. k)) \ {{}}} : k \in m.k .. InitialTopics}

Prepared(m) == [m EXCEPT !.prepared = @ + 1, !.removed = @ + settings.remove]

\* Documents are part of a file only if it is saved in full.
Contents(m, full) ==
  [m EXCEPT !.docs = IF full THEN @ ELSE <<>>]

-----------------------------------------------------------------------------
(* Checks.                                                                  *)

checkModel == settings.hasDocs /\ model # NoModel
checkNoModel == model = NoModel
checkTrained == settings.isPrepared
checkNotTrained == ~settings.isPrepared

initModel(given) ==
  IF model # NoModel THEN model
  ELSE IF given.fixedNumberOfTopics = 0
  THEN Created("hdp", given.isUseIdf, given.numberOfInitialTopics)
  ELSE Created("lda", given.isUseIdf, given.fixedNumberOfTopics)

Throw == UNCHANGED vars

-----------------------------------------------------------------------------
(* Settings.  Most of them are refused once there is a model.               *)

setFixedNumberOfTopics(k) ==
  /\ checkNoModel
  /\ settings' = [settings EXCEPT !.fixedNumberOfTopics = k]
  /\ UNCHANGED <<model, labels, file, loaded>>

setUseIdf(idf) ==
  /\ checkNoModel
  /\ settings' = [settings EXCEPT !.isUseIdf = idf]
  /\ UNCHANGED <<model, labels, file, loaded>>

setInitialParameters(topics) ==
  /\ checkNoModel
  /\ settings' = [settings EXCEPT !.numberOfInitialTopics = topics]
  /\ UNCHANGED <<model, labels, file, loaded>>

setRandomNumberGenerationSeed(seed) ==
  /\ checkNoModel
  /\ settings' = [settings EXCEPT !.seed = seed]
  /\ UNCHANGED <<model, labels, file, loaded>>

setTokenRemoval(n) ==
  /\ checkNotTrained
  /\ settings' = [settings EXCEPT !.remove = n]
  /\ UNCHANGED <<model, labels, file, loaded>>

\* It creates the model, whose other settings are then fixed.
setBurnInIteration ==
  /\ checkNotTrained
  /\ model' = initModel(settings)
  /\ UNCHANGED <<settings, labels, file, loaded>>

NewLabels(active) == IF active THEN model.steps ELSE NoLabels

\* Topics that have been labeled are labeled anew, or lose their labels.
setLabelingOptions(active) ==
  /\ settings' = [settings EXCEPT !.isLabeling = active]
  /\ labels' = IF labels = NoLabels THEN labels ELSE NewLabels(active)
  /\ UNCHANGED <<model, file, loaded>>

-----------------------------------------------------------------------------
(* Training.                                                                *)

addDocument(name, tokens) ==
  /\ checkNotTrained
  /\ model' = [initModel(settings) EXCEPT !.docs = Append(@, name)]
  /\ settings' = [settings EXCEPT !.hasDocs = @ \/ tokens > 0]
  /\ UNCHANGED <<labels, file, loaded>>

\* The first training prepares the model, which fixes the words to be removed.  A
\* bound: no model is prepared more than twice.
prepareModel == IF settings.isPrepared THEN model ELSE Prepared(model)
FewPreparations == settings.isPrepared \/ model.prepared < 2

startTraining ==
  /\ checkModel /\ FewPreparations
  /\ model' = prepareModel
  /\ settings' = [settings EXCEPT !.isPrepared = TRUE, !.version = Version]
  /\ UNCHANGED <<labels, file, loaded>>

train(iterations) ==
  /\ checkModel /\ FewPreparations /\ model.steps + iterations <= MaxSteps
  /\ model' \in Trained(prepareModel, iterations)
  /\ settings' = [settings EXCEPT !.isPrepared = TRUE]
  /\ UNCHANGED <<labels, file, loaded>>

label ==
  /\ IF settings.isLabeling
     THEN checkModel /\ checkTrained /\ labels' = model.steps
     ELSE labels' = NoLabels
  /\ UNCHANGED <<model, settings, file, loaded>>

-----------------------------------------------------------------------------
(* Files.                                                                   *)

\* The information added to a model: the number of topics under one of two keys.
writeModelInformation ==
  [initial_k |-> IF model.kind = "hdp" THEN settings.numberOfInitialTopics ELSE 0,
   k |-> IF model.kind = "lda" THEN settings.fixedNumberOfTopics ELSE 0,
   seed |-> settings.seed, remove |-> settings.remove, version |-> settings.version]

save(full) ==
  /\ checkModel /\ checkTrained
  /\ file' = [kind |-> model.kind, idf |-> model.idf, model |-> Contents(model, full),
              information |-> writeModelInformation]
  /\ UNCHANGED <<model, settings, labels, loaded>>

\* What clear() leaves: the term weighting, and the options for labels if wanted.
Cleared(labelingOptions) ==
  [Defaults EXCEPT !.seed = CHOOSE n \in Numbers : TRUE] @@
  [isUseIdf |-> settings.isUseIdf, isLabeling |-> ~labelingOptions /\ settings.isLabeling]

clear(labelingOptions) ==
  /\ model' = NoModel /\ labels' = NoLabels /\ loaded' = NoFile
  /\ settings' = Cleared(labelingOptions)
  /\ UNCHANGED file

\* Mutant: the information of the file is not read.
LoadModelOnly(cleared, from) == [cleared EXCEPT !.hasDocs = TRUE, !.isPrepared = TRUE]

\* The settings after the information has been read: a number that is missing is 0.
loadModelInformation(cleared, from) ==
  LET read == [cleared EXCEPT !.numberOfInitialTopics = from.information.initial_k,
                              !.fixedNumberOfTopics = from.information.k,
                              !.seed = from.information.seed,
                              !.remove = from.information.remove,
                              !.version = from.information.version,
                              !.hasDocs = TRUE]
  IN IF from.model.steps > 0 THEN [read EXCEPT !.isPrepared = TRUE, !.version = Version] ELSE read

\* First a model of unknown size is tried, then one of fixed size; if neither can
\* be loaded, the second one stays, without documents.
load ==
  LET cleared == [Cleared(FALSE) EXCEPT !.isUseIdf = file.idf]
      fixed == [cleared EXCEPT !.fixedNumberOfTopics = InitialTopics]
  IN /\ labels' = NoLabels
     /\ IF file = NoFile THEN model' = NoModel /\ settings' = Cleared(FALSE) /\ loaded' = NoFile
        ELSE IF file.kind = "broken"
        THEN /\ model' = Created("lda", file.idf, InitialTopics)
             /\ settings' = fixed
             /\ loaded' = NoFile
        ELSE /\ model' = file.model
             /\ settings' = loadModelInformation(IF file.kind = "hdp" THEN cleared ELSE fixed, file)
             /\ loaded' = file
     /\ UNCHANGED file

\* The file is replaced by another one, which has the head of a model.
Break ==
  /\ file # NoFile /\ file' = Broken @@ [idf |-> file.idf]
  /\ UNCHANGED <<model, settings, labels, loaded>>

\* The file has been saved with another version of the library.
Age ==
  /\ file.kind \in Kinds
  /\ file' = [file EXCEPT !.information.version = "older"]
  /\ UNCHANGED <<model, settings, labels, loaded>>

-----------------------------------------------------------------------------
(* Results, which are available once the model has been trained.            *)

getNumberOfTopics ==
  IF model.kind = "hdp" THEN Cardinality(model.live) ELSE settings.fixedNumberOfTopics

getTopics == IF model.kind = "hdp" THEN model.live ELSE 1 .. settings.fixedNumberOfTopics

\* From the counts of the model itself.
getTopicsSorted == {k \in 1 .. model.k : model.kind = "hdp" => k \in model.live}

\* The topics for which a document has a probability.
getInferredTopics == IF model.kind = "hdp" THEN model.live ELSE 1 .. model.k

\* The documents of the model, each once and none of those done.
getDocumentsTopics(done) == {model.docs[i] : i \in DOMAIN model.docs} \ done

\* The number of words the class takes for removed.
getRemovedTokens == settings.remove

-----------------------------------------------------------------------------
Init ==
  /\ model = NoModel /\ labels = NoLabels /\ file = NoFile /\ loaded = NoFile
  /\ settings = Defaults @@ [isUseIdf |-> FALSE, isLabeling |-> FALSE]

\* A bound: most settings are changed only as long as nothing has been saved.
Set ==
  \/ /\ file = NoFile
     /\ \/ \E k \in Numbers :
             \/ setFixedNumberOfTopics(k) \/ setTokenRemoval(k)
             \/ (k > 0 /\ (setInitialParameters(k) \/ setRandomNumberGenerationSeed(k)))
        \/ \E b \in BOOLEAN : setUseIdf(b)
  \/ \E b \in BOOLEAN : setLabelingOptions(b)
  \/ setBurnInIteration

Work ==
  \/ \E d \in Documents, tokens \in 0 .. 1 :
       d \notin (IF model = NoModel THEN {} ELSE Range(model.docs)) /\ addDocument(d, tokens)
  \/ startTraining \/ (\E n \in 0 .. 1 : train(n)) \/ label

\* A bound: one file is saved.
Store ==
  \/ \E full \in BOOLEAN : (file = NoFile /\ save(full)) \/ clear(full)
  \/ load \/ Break \/ Age

Next == Set \/ Work \/ Store

Spec == Init /\ [][Next]_vars

-----------------------------------------------------------------------------
(* Properties.                                                              *)

Usable == checkModel /\ checkTrained

\* What has been trained is a model, prepared before its first iteration.
TypeOK ==
  /\ settings.version \in Versions
  /\ model # NoModel =>
       /\ model.kind \in Kinds /\ model.live \subseteq 1 .. model.k
       /\ model.steps > 0 => model.prepared > 0
  /\ settings.isPrepared => model # NoModel /\ settings.hasDocs

\* The settings that are reported are those the model has, also one from a file
\* whose kind had to be guessed: the term weighting, and the number of topics if
\* and only if that is fixed.
SettingsAreThoseOfModel ==
  model # NoModel =>
    /\ settings.isUseIdf = model.idf
    /\ model.kind = (IF settings.fixedNumberOfTopics = 0 THEN "hdp" ELSE "lda")
    /\ model.kind = "lda" => settings.fixedNumberOfTopics = model.k

\* All ways to ask for the topics give the same ones, so that probabilities,
\* counts, labels and the columns of tables belong together.
TopicsAgree ==
  Usable =>
    /\ getTopics = getTopicsSorted /\ getTopics = getInferredTopics
    /\ getNumberOfTopics = Cardinality(getTopics)

\* The words reported as removed are those the model has been prepared without,
\* unless it has been prepared twice: a file saved before the first iteration is
\* prepared again.
RemovedWordsAreReported ==
  Usable /\ model.prepared = 1 => getRemovedTokens = model.removed

\* Labels are only there for a model that has been trained, if they are wanted,
\* and never from more iterations than the model has.
LabelsAreOfTheModel ==
  labels # NoLabels => Usable /\ settings.isLabeling /\ labels <= model.steps

\* A model that comes from a file is the one saved, with what was known about it,
\* as long as it is not trained; its version is that of the library, if it had been
\* trained.
LoadedIsSaved ==
  loaded # NoFile /\ model # NoModel /\ model.steps = loaded.model.steps =>
    /\ model.kind = loaded.kind /\ model.idf = loaded.idf /\ model.k = loaded.model.k
    /\ writeModelInformation.k = loaded.information.k
    /\ writeModelInformation.initial_k = loaded.information.initial_k
    /\ settings.seed = loaded.information.seed
=============================================================================
