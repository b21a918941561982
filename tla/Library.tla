------------------------------ MODULE Library -------------------------------
(***************************************************************************)
(* Parts that no thread of its own drives, each checked by itself: a       *)
(* behaviour is one of the part that is chosen at its beginning.           *)
(*                                                                         *)
(* The configuration keeps the variables of its module; the other parts    *)
(* share eight slots for theirs.  What the part does not use stays unused. *)
(***************************************************************************)
EXTENDS ModuleConfig, TLC

CONSTANTS
  Parts,                                    \* the parts that are run
  Uses, MaxPacket,                          \* of CustomData
  Threads, TableInstances, MaxEntries,      \* of TargetTables
  Documents, MaxSteps, Numbers,             \* of TopicModel
  Crawlers, Paths, MaxId,                   \* of UrlList
  Urls, MaxUpdates                          \* of WebsiteMove

VARIABLES part, s1, s2, s3, s4, s5, s6, s7, s8

slots == <<s1, s2, s3, s4, s5, s6, s7, s8>>
allVars == <<part, vars, slots>>

Custom == INSTANCE CustomData
  WITH Instances <- Uses, table <- s1, rows <- s2, meant <- s3, result <- s4
Targeting == INSTANCE TargetTables
  WITH Instances <- TableInstances, wanted <- s1, tables <- s2, entries <- s3, nextId <- s4,
       thread <- s5, deletion <- s6, history <- s7
Topics == INSTANCE TopicModel
  WITH model <- s1, settings <- s2, labels <- s3, file <- s4, loaded <- s5
Lists == INSTANCE UrlList
  WITH domain <- s1, caseSensitive <- s2, rows <- s3, nextId <- s4, crawler <- s5, worker <- s6,
       update <- s7, history <- s8
Moves == INSTANCE WebsiteMove
  WITH website <- s1, tables <- s2, todo <- s3, wanted <- s4, session <- s5, meant <- s6,
       history <- s7

-----------------------------------------------------------------------------

Free8 == s8 = "unused"
Free6 == s6 = "unused" /\ s7 = "unused" /\ Free8
Free5 == s5 = "unused" /\ Free6
FreeSlots == s1 = "unused" /\ s2 = "unused" /\ s3 = "unused" /\ s4 = "unused" /\ Free5
FreeVars ==
  given = "unused" /\ options = "unused" /\ item = "unused" /\ status = "unused" /\ history = "unused"

LibraryInit ==
  /\ part \in Parts
  /\ \/ part = "config"  /\ Init /\ FreeSlots
     \/ part = "values"  /\ Custom!Init    /\ Free5 /\ FreeVars
     \/ part = "targets" /\ Targeting!Init /\ Free8 /\ FreeVars
     \/ part = "topics"  /\ Topics!Init    /\ Free6 /\ FreeVars
     \/ part = "lists"   /\ Lists!Init     /\ FreeVars
     \/ part = "moves"   /\ Moves!Init     /\ Free8 /\ FreeVars

Config == part = "config" /\ UNCHANGED <<part, slots>>
Values4 == part = "values" /\ UNCHANGED <<part, vars, s5, s6, s7, s8>>
Targets7 == part = "targets" /\ UNCHANGED <<part, vars, s8>>
Topics5 == part = "topics" /\ UNCHANGED <<part, vars, s6, s7, s8>>
Lists8 == part = "lists" /\ UNCHANGED <<part, vars>>
Moves7 == part = "moves" /\ UNCHANGED <<part, vars, s8>>

LibraryNext ==
  \/ Config /\ LoadEntry
  \/ Config /\ LoadNoObject
  \/ Config /\ CheckOptions
  \/ Values4 /\ Custom!Write
  \/ Values4 /\ Custom!Read
  \/ Values4 /\ Custom!Upload
  \/ \E t \in Threads : Targets7 /\ Targeting!ThreadStep(t)
  \/ Targets7 /\ Targeting!DeletionStep
  \/ Topics5 /\ Topics!Set
  \/ Topics5 /\ Topics!Work
  \/ Topics5 /\ Topics!Store
  \/ \E c \in Crawlers : Lists8 /\ Lists!CrawlerStep(c)
  \/ Lists8 /\ Lists!WorkerStep
  \/ Lists8 /\ Lists!UpdateStep
  \/ Moves7 /\ Moves!Next

LibrarySpec == LibraryInit /\ [][LibraryNext]_allVars

-----------------------------------------------------------------------------
(* What the runs check of the parts, for their modules say it in detail.    *)

\* Values of the expected types.
EveryPartIsTyped ==
  CASE part = "config"  -> TypeOK
    [] part = "values"  -> Custom!TypeOK
    [] part = "targets" -> Targeting!TypeOK
    [] part = "topics"  -> Topics!TypeOK
    [] part = "lists"   -> Lists!TypeOK
    [] part = "moves"   -> Moves!TypeOK

\* A step disturbs nothing but what it is about: an entry of a configuration changes the
\* option it names, no column of a target table gets another type, and URLs vanish from a
\* list only when they are deleted, do not belong to the website or exist twice.
NothingElseIsDisturbed ==
  [][/\ part = "config" => EntryIsIndependent
     /\ part = "targets" => Targeting!TypesAreKept
     /\ part = "lists" => Lists!RowsVanishForAReason]_allVars

\* Options that belong together have arrays of the same lengths in the end, in which
\* values have the positions of their entries (Module::Config and the modules' own).
OptionsFit ==
  part = "config" => ArraysAreParallel /\ PositionsAreKept /\ CountersEnd

\* What is read from, or uploaded of, a table of results is what has been written to it
\* (custom data of Main::Database, upload of Module::Analyzer).
ResultsAreExact ==
  part = "values" =>
    /\ Custom!ReadsWhatWasWritten /\ Custom!UploadIsExact
    /\ Custom!ColumnsAreParallel /\ Custom!NullsAreMeant

\* Threads share target tables: a thread that is ready has the tables it wants, under IDs
\* that are its own, and what is registered exists (Main::Database).
ThreadsHaveTheirTables ==
  part = "targets" =>
    /\ Targeting!InitialisedTablesFit /\ Targeting!IdsAreOwn
    /\ Targeting!EntriesHaveTables /\ Targeting!DeletionIsComplete

\* The members of a topic model describe the library's model, after it has been loaded
\* or cleared, too (Data::TopicModel).
MembersDescribeTheModel ==
  part = "topics" =>
    /\ Topics!SettingsAreThoseOfModel /\ Topics!TopicsAgree /\ Topics!LoadedIsSaved
    /\ Topics!RemovedWordsAreReported /\ Topics!LabelsAreOfTheModel

\* The URLs of a list are unique, and found by their hashes (Module::Crawler and
\* Main::Database).
UrlsAreFound ==
  part = "lists" =>
    Lists!HashesFit /\ Lists!UrlsAreUnique /\ Lists!UrlsHaveTheirForm /\ Lists!LossIsAnnounced

\* A website that moves keeps its URLs and what belongs to them (Main::Database).
WebsitesKeepTheirRows ==
  part = "moves" =>
    /\ Moves!NothingIsRefused /\ Moves!RowsSurvive
    /\ Moves!RowsHaveTheirUrls /\ Moves!UpdatesAreComplete
=============================================================================
