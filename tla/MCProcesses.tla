---------------------------- MODULE MCProcesses -----------------------------
(* Small instances of the parts of Processes for TLC: one name for each way *)
(* of using a lock, and four workers.                                       *)
EXTENDS Processes, TLC

CONSTANTS t1, t2, urlList, urlListCheck, parsingTable, targetTable

BothParts == {"locks", "workers"}

TwoThreads == {t1, t2}
AllNames == {urlList, urlListCheck, parsingTable, targetTable}
AllUses == urlList :> "scoped" @@ urlListCheck :> "try"
             @@ parsingTable :> "temporary" @@ targetTable :> "insistent"
=============================================================================
