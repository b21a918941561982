----------------------------- MODULE MCCrawler ------------------------------
(* A crawler for TLC: a custom page (1), the start page (2), a URL found (3). *)
EXTENDS Crawler
OneCustomPage == <<1>>
Plain == [archives |-> FALSE, archivesOnly |-> FALSE, retryArchive |-> FALSE,
          reTries |-> 1, recrawl |-> FALSE, customReCrawl |-> FALSE,
          reCrawlStart |-> FALSE, startIgnore |-> FALSE, restart |-> FALSE,
          others |-> {}, large |-> {}, upsets |-> 1]
Shared == [Plain EXCEPT !.others = {3}, !.large = {2, 3}, !.upsets = 0]
Restarting == [Plain EXCEPT !.restart = TRUE, !.customReCrawl = TRUE, !.startIgnore = TRUE]
Recrawling == [Plain EXCEPT !.recrawl = TRUE, !.reCrawlStart = TRUE, !.reTries = -1,
                                 !.large = {3}]
Archiving == [Plain EXCEPT !.archives = TRUE, !.reTries = 0, !.startIgnore = TRUE]
Contested == [Archiving EXCEPT !.others = {1}, !.upsets = 0]
Retrying == [Archiving EXCEPT !.retryArchive = TRUE, !.upsets = 0, !.reTries = 1,
                                !.startIgnore = FALSE]
OnlyArchives == [Retrying EXCEPT !.archivesOnly = TRUE]
AllConfigs == {Shared, Restarting, Recrawling, Archiving, Contested, Retrying, OnlyArchives}
RetryingOnly == {Retrying}
=============================================================================
