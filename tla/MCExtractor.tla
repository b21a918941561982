---------------------------- MODULE MCExtractor -----------------------------
(* Configurations for TLC: each of them has some of the options.            *)
EXTENDS Extractor

CONSTANTS id1, token1

Plain ==
  [listed |-> 1, removeDuplicates |-> FALSE, numberFrom |-> FALSE, isNextFrom |-> FALSE, nextFrom |-> "none",
   expectedFrom |-> FALSE, errorIfSmaller |-> FALSE, errorIfLarger |-> FALSE,
   retries |-> 0, linkedField |-> 0, pagingVariable |-> FALSE, pagedTokens |-> {},
   pagedHeaders |-> FALSE, dbFails |-> FALSE]

Two == [Plain EXCEPT !.listed = 2, !.removeDuplicates = TRUE]
Paged == [Plain EXCEPT !.nextFrom = "multi", !.pagingVariable = TRUE, !.retries = MaxPages,
                       !.removeDuplicates = TRUE, !.pagedTokens = {token1}]
Numbered == [Plain EXCEPT !.nextFrom = "single", !.pagingVariable = TRUE, !.retries = Unlimited,
                          !.numberFrom = TRUE, !.pagedHeaders = TRUE]
Expecting == [Plain EXCEPT !.isNextFrom = TRUE, !.removeDuplicates = TRUE,
                           !.expectedFrom = TRUE, !.errorIfSmaller = TRUE, !.errorIfLarger = TRUE]
Failing == [Plain EXCEPT !.linkedField = 1, !.retries = 1, !.dbFails = TRUE]

SomeConfigurations == {Two, Paged, Numbered, Expecting, Failing}
=============================================================================
