------------------------- MODULE QueryReloadProofs -------------------------
(***************************************************************************)
(* Nobody goes on working with a configuration or with queries that have   *)
(* been changed (QueryReload), for any threads, configurations, queries    *)
(* and numbers of changes.                                                 *)
(***************************************************************************)
EXTENDS QueryReload, SequenceTheorems, TLAPS

\* Between the loading of its configuration and its next reset, a thread has lists.
HasLists(t) == pc[t] \in {"read", "compile", "register", "loop", "tick"}

Control(t) ==
  /\ pc[t] \in {"compile", "register"} =>
       todo[t] # <<>> /\ row[t] \in Row /\ Head(todo[t]).id = row[t].id
  /\ pc[t] \in {"loop", "tick"} => todo[t] = <<>>
  /\ pc[t] \in {"none", "config", "ended"} => queries[t] = <<>>
  /\ ~Alive(t) => lists[t] = NoLists
  /\ pc[t] = "config" => \A r \in Cleared(kind[t]) : lists[t][r] = <<>>

TypeInv == TypeOK /\ \A t \in Threads : Control(t)

-----------------------------------------------------------------------------
(* What has been changed.                                                   *)

\* Every query in the container is registered, or will be.
Registered(t) ==
  \A i \in DOMAIN queries[t] : queries[t][i].id \in queriesId[t] \/ Loading(t, queries[t][i].id)

\* The row that is being loaded is the one in the table, or the change is recorded.
Current(r, t) == query[r.id] \in {0, r.version} \/ r.id \in missed[t]

Loads(t) == pc[t] \in {"compile", "register"} => Current(row[t], t)

ConfigComes(t) == loaded[t].stamp # config[ConfigOf[t]].stamp => ResetComes(t)
QueriesCome(t) == \A i \in DOMAIN queries[t] : Current(queries[t][i], t) \/ ResetComes(t)

ResetInv ==
  \A t \in Threads : /\ Registered(t) /\ Loads(t)
                     /\ Alive(t) => ConfigComes(t) /\ QueriesCome(t)

-----------------------------------------------------------------------------
(* Lists.                                                                   *)

Size(t, r) == Len(loaded[t].lists[r])
Sizes(t) == Size(t, "list") + Size(t, "ignore")

\* The n-th query of the configuration, in the order of loading
Item(t, n) ==
  IF n <= Size(t, "list") THEN [role |-> "list", id |-> loaded[t].lists["list"][n]]
  ELSE [role |-> "ignore", id |-> loaded[t].lists["ignore"][n - Size(t, "list")]]

\* How many queries have been loaded; how many of them are in the lists
Done(t) == Sizes(t) - Len(todo[t])
Listed(t) == IF pc[t] = "register" THEN Done(t) + 1 ELSE Done(t)
ListedOf(t, r) ==
  IF r = "list" THEN IF Listed(t) <= Size(t, r) THEN Listed(t) ELSE Size(t, r)
  ELSE IF Listed(t) <= Size(t, "list") THEN 0 ELSE Listed(t) - Size(t, "list")

TodoIsLeft(t) ==
  /\ Len(todo[t]) <= Sizes(t)
  /\ \A i \in DOMAIN todo[t] : todo[t][i] = Item(t, Done(t) + i)

Names(t, r) ==
  \A i \in DOMAIN lists[t][r] : lists[t][r][i] # 0 =>
    /\ lists[t][r][i] \in DOMAIN queries[t]
    /\ queries[t][lists[t][r][i]].id = loaded[t].lists[r][i]

ListInv ==
  \A t \in Threads : HasLists(t) =>
    /\ TodoIsLeft(t)
    /\ \A r \in Cleared(kind[t]) : Len(lists[t][r]) = ListedOf(t, r) /\ Names(t, r)

-----------------------------------------------------------------------------
(* Type correctness.                                                        *)

ThreadStep(t) ==
  Visit(t) \/ Start(t) \/ SetPaused(t) \/ Step(t) \/ CompileFails(t) \/ Restart(t) \/ Stop(t)

LEMMA TypeInit == Init => TypeInv
<1> SUFFICES ASSUME Init PROVE TypeInv
  OBVIOUS
<1> USE ConfigOfAssumption, ContentsAssumption, BoundsAssumption
<1>1. NoLists \in [Roles -> Seq(Nat)] /\ \A S : <<>> \in Seq(S)
  BY EmptySeq DEF NoLists
<1>2. TypeOK
  BY <1>1 DEF Init, TypeOK, Idle, Kinds
<1>3. ASSUME NEW t \in Threads PROVE Control(t)
  BY DEF Init, Control, Alive
<1> QED
  BY <1>2, <1>3 DEF TypeInv

LEMMA TodoFacts ==
  ASSUME TypeOK, NEW t \in Threads
  PROVE  /\ todo[t] \in Seq(Entry) /\ Len(todo[t]) \in Nat /\ DOMAIN todo[t] = 1 .. Len(todo[t])
         /\ todo[t] # <<>> =>
              /\ Len(todo[t]) >= 1 /\ Head(todo[t]) = todo[t][1] /\ Head(todo[t]) \in Entry
              /\ Tail(todo[t]) \in Seq(Entry) /\ Len(Tail(todo[t])) = Len(todo[t]) - 1
              /\ DOMAIN Tail(todo[t]) = 1 .. Len(todo[t]) - 1
              /\ \A i \in 1 .. Len(todo[t]) - 1 : Tail(todo[t])[i] = todo[t][i + 1]
<1>1. todo[t] \in Seq(Entry)
  BY DEF TypeOK
<1>2. Len(todo[t]) \in Nat /\ DOMAIN todo[t] = 1 .. Len(todo[t])
  BY <1>1, LenProperties
<1>3. CASE todo[t] # <<>>
  <2>1. Len(todo[t]) >= 1 /\ Head(todo[t]) \in Entry
    BY <1>1, <1>2, <1>3, EmptySeq, HeadTailProperties
  <2>2. Head(todo[t]) = todo[t][1] /\ Tail(todo[t]) \in Seq(Entry)
        /\ Len(Tail(todo[t])) = Len(todo[t]) - 1
        /\ \A i \in 1 .. Len(Tail(todo[t])) : Tail(todo[t])[i] = todo[t][i + 1]
    BY <1>1, <1>3, HeadTailProperties
  <2>3. DOMAIN Tail(todo[t]) = 1 .. Len(todo[t]) - 1
    BY <2>2, LenProperties
  <2> QED
    BY <1>1, <1>2, <2>1, <2>2, <2>3
<1> QED
  BY <1>1, <1>2, <1>3

\* The lists of a configuration, in the order of loading.
LEMMA ContentFacts ==
  ASSUME NEW l \in Contents, NEW r \in Roles
  PROVE  LET named == [i \in DOMAIN l[r] |-> [role |-> r, id |-> l[r][i]]] IN
           /\ l[r] \in Seq(QueryIds) /\ Len(l[r]) \in Nat
           /\ named \in Seq(Entry) /\ Len(named) = Len(l[r]) /\ DOMAIN l[r] = 1 .. Len(l[r])
           /\ \A i \in 1 .. Len(l[r]) : named[i] = [role |-> r, id |-> l[r][i]]
<1> DEFINE named == [i \in DOMAIN l[r] |-> [role |-> r, id |-> l[r][i]]]
<1>1. l[r] \in Seq(QueryIds)
  BY ContentsAssumption
<1>2. Len(l[r]) \in Nat /\ DOMAIN l[r] = 1 .. Len(l[r]) /\ \A i \in 1 .. Len(l[r]) : l[r][i] \in QueryIds
  BY <1>1, LenProperties, ElementOfSeq
<1>3. named \in [1 .. Len(l[r]) -> Entry]
  BY <1>2 DEF Entry
<1>4. named \in Seq(Entry) /\ Len(named) = Len(l[r])
  BY <1>2, <1>3, SeqDef, LenProperties
<1> QED
  BY <1>1, <1>2, <1>4

LEMMA ThreadTypes ==
  ASSUME TypeInv, NEW t \in Threads, ThreadStep(t)
  PROVE  TypeOK'
<1> USE DEF server, thread
<1> TypeOK /\ Control(t)
  BY DEF TypeInv
<1>1. CASE Visit(t)
  <2>1. toReset' \in [Threads -> BOOLEAN]
    BY <1>1 DEF Visit, TypeOK, Alive, NeedsReset
  <2>2. srv' \in [cmd : {"idle"}, id : {0}, left : {{}}] \cup
                 [cmd : {"query"}, id : QueryIds, left : SUBSET Threads] \cup
                 [cmd : {"config"}, id : Configs, left : SUBSET Threads]
    BY <1>1 DEF Visit, TypeOK, Idle
  <2> QED
    BY <1>1, <2>1, <2>2 DEF Visit, TypeOK
<1>2. CASE Start(t)
  BY <1>2 DEF Start, TypeOK
<1>3. CASE SetPaused(t)
  BY <1>3 DEF SetPaused, TypeOK
<1>4. CASE LoadConfig(t)
  <2> DEFINE c == config[ConfigOf[t]]
             named(r) == [i \in DOMAIN c.lists[r] |-> [role |-> r, id |-> c.lists[r][i]]]
  <2>1. c \in [stamp : 0 .. MaxStamp, lists : Contents]
    BY ConfigOfAssumption DEF TypeOK
  <2>2. named("list") \in Seq(Entry) /\ named("ignore") \in Seq(Entry)
    BY <2>1, ContentFacts DEF Roles
  <2>3. loaded' = [loaded EXCEPT ![t] = c] /\ todo' = [todo EXCEPT ![t] = named("list") \o named("ignore")]
    BY <1>4 DEF LoadConfig
  <2> HIDE DEF c, named
  <2>4. named("list") \o named("ignore") \in Seq(Entry)
    BY <2>2, ConcatProperties
  <2>5. loaded' \in [Threads -> [stamp : 0 .. MaxStamp, lists : Contents \cup {NoLists}]]
        /\ todo' \in [Threads -> Seq(Entry)]
    BY <2>1, <2>3, <2>4 DEF TypeOK
  <2> QED
    BY <1>4, <2>5 DEF LoadConfig, Goto, TypeOK
<1>5. CASE ReadRow(t)
  <2>1. Head(todo[t]).id \in QueryIds
    BY <1>5, TodoFacts DEF ReadRow, Entry
  <2> QED
    BY <1>5, <2>1 DEF ReadRow, Goto, TypeOK, Row
<1>6. CASE Compile(t)
  <2> DEFINE new == IF row[t].version = 0 THEN <<>> ELSE <<row[t]>>
             index == IF new = <<>> THEN 0 ELSE Len(queries[t]) + 1
             role == Head(todo[t]).role
  <2>1. queries[t] \in Seq(Row) /\ row[t] \in Row /\ role \in Roles /\ lists[t][role] \in Seq(Nat)
    <3>1. todo[t] # <<>> /\ row[t] \in Row
      BY <1>6 DEF Compile, Control
    <3>2. role \in Roles
      BY <3>1, TodoFacts DEF Entry
    <3> QED
      BY <3>1, <3>2 DEF TypeOK
  <2>2. new \in Seq(Row) /\ index \in Nat
    BY <2>1, EmptySeq, LenProperties
  <2>3. queries' = [queries EXCEPT ![t] = @ \o new] /\ lists' = [lists EXCEPT ![t][role] = Append(@, index)]
    BY <1>6 DEF Compile
  <2> HIDE DEF new, index, role
  <2>4. queries[t] \o new \in Seq(Row)
    BY <2>1, <2>2, ConcatProperties
  <2>5. Append(lists[t][role], index) \in Seq(Nat)
    BY <2>1, <2>2, AppendProperties
  <2>6. queries' \in [Threads -> Seq(Row)]
    BY <2>3, <2>4 DEF TypeOK
  <2>7. lists' \in [Threads -> [Roles -> Seq(Nat)]]
    BY <2>1, <2>3, <2>5 DEF TypeOK
  <2> QED
    BY <1>6, <2>6, <2>7 DEF Compile, Goto, TypeOK
<1>7. CASE Register(t)
  <2>1. Tail(todo[t]) \in Seq(Entry) /\ row[t].id \in QueryIds
    BY <1>7, TodoFacts DEF Register, Control, Row
  <2> QED
    BY <1>7, <2>1 DEF Register, Goto, TypeOK
<1>8. CASE Initialized(t)
  BY <1>8 DEF Initialized, Goto, TypeOK
<1>9. CASE TakeReset(t)
  BY <1>9 DEF TakeReset, Goto, TypeOK
<1>10. CASE NoReset(t)
  BY <1>10 DEF NoReset, Goto, TypeOK
<1>11. CASE Tick(t)
  BY <1>11 DEF Tick, Goto, TypeOK
<1>12. CASE Clear(t)
  <2>1. \A S : <<>> \in Seq(S)
    BY EmptySeq
  <2>2. lists' \in [Threads -> [Roles -> Seq(Nat)]]
    BY <1>12, <2>1 DEF Clear, TypeOK
  <2> QED
    BY <1>12, <2>1, <2>2 DEF Clear, Goto, TypeOK
<1>13. CASE CompileFails(t)
  <2>1. NoLists \in [Roles -> Seq(Nat)] /\ \A S : <<>> \in Seq(S)
    BY EmptySeq DEF NoLists
  <2> QED
    BY <1>13, <2>1 DEF CompileFails, End, Goto, TypeOK
<1>14. CASE Restart(t)
  BY <1>14 DEF Restart, Goto, TypeOK
<1>15. CASE Stop(t)
  <2>1. NoLists \in [Roles -> Seq(Nat)] /\ \A S : <<>> \in Seq(S)
    BY EmptySeq DEF NoLists
  <2> QED
    BY <1>15, <2>1 DEF Stop, End, Goto, TypeOK
<1> QED
  BY <1>1, <1>2, <1>3, <1>4, <1>5, <1>6, <1>7, <1>8, <1>9, <1>10, <1>11, <1>12, <1>13, <1>14, <1>15
  DEF ThreadStep, Step

LEMMA TypeStep ==
  ASSUME TypeInv, [Next]_vars
  PROVE  TypeOK'
<1> TypeOK
  BY DEF TypeInv
<1> USE DEF server, thread
<1>1. ASSUME NEW q \in QueryIds, MayChange, query' = [query EXCEPT ![q] = stamp'], stamp' = stamp + 1
      PROVE  stamp' \in 0 .. MaxStamp /\ query' \in [QueryIds -> 0 .. MaxStamp]
  BY <1>1, BoundsAssumption DEF TypeOK, MayChange
<1>2. ASSUME NEW q \in QueryIds, Changed(q) PROVE missed' \in [Threads -> SUBSET QueryIds]
  BY <1>2 DEF TypeOK, Changed
<1>3. CASE AddQuery
  <2>1. PICK q \in NewIds : /\ MayChange /\ stamp' = stamp + 1 /\ query' = [query EXCEPT ![q] = stamp']
                            /\ missed' = [t \in Threads |-> IF q \in queriesId[t] \/ Loading(t, q)
                                                            THEN missed[t] \cup {q} ELSE missed[t]]
    BY <1>3 DEF AddQuery
  <2>2. q \in QueryIds /\ missed' \in [Threads -> SUBSET QueryIds]
    BY <2>1 DEF NewIds, TypeOK
  <2> QED
    BY <1>1, <1>3, <2>1, <2>2 DEF AddQuery, TypeOK
<1>4. CASE DeleteQuery
  BY <1>4, BoundsAssumption DEF DeleteQuery, Rows, TypeOK
<1>5. ASSUME NEW q \in Rows, UpdateQuery(q) PROVE TypeOK'
  BY <1>1, <1>2, <1>5 DEF UpdateQuery, Rows, TypeOK
<1>6. ASSUME NEW c \in Configs, UpdateConfig(c) PROVE TypeOK'
  <2>1. stamp' \in 0 .. MaxStamp
    BY <1>6, BoundsAssumption DEF UpdateConfig, MayChange, TypeOK
  <2>2. config' \in [Configs -> [stamp : 0 .. MaxStamp, lists : Contents]]
    BY <1>6, <2>1 DEF UpdateConfig, TypeOK
  <2> QED
    BY <1>6, <2>1, <2>2 DEF UpdateConfig, TypeOK
<1>7. CASE \E t \in Threads : ThreadStep(t)
  BY <1>7, ThreadTypes
<1>8. CASE UNCHANGED vars
  BY <1>8 DEF vars, TypeOK
<1> QED
  BY <1>3, <1>4, <1>5, <1>6, <1>7, <1>8 DEF Next, ThreadStep

-----------------------------------------------------------------------------
(* Control.                                                                 *)

\* Nothing that thread u has is changed.
Same(u) ==
  /\ toReset'[u] = toReset[u] /\ pc'[u] = pc[u] /\ loaded'[u] = loaded[u] /\ todo'[u] = todo[u]
  /\ row'[u] = row[u] /\ queries'[u] = queries[u] /\ queriesId'[u] = queriesId[u]
  /\ lists'[u] = lists[u] /\ missed'[u] = missed[u]

LEMMA OthersStay ==
  ASSUME TypeOK, NEW t \in Threads, ThreadStep(t)
  PROVE  kind' = kind /\ config' = config /\ query' = query /\ \A u \in Threads \ {t} : Same(u)
<1> USE DEF server, thread
<1>1. CASE Visit(t)
  BY <1>1 DEF Visit, TypeOK, Same
<1>2. CASE Start(t)
  BY <1>2 DEF Start, TypeOK, Same
<1>3. CASE SetPaused(t)
  BY <1>3 DEF SetPaused, TypeOK, Same
<1>4. CASE LoadConfig(t)
  BY <1>4 DEF LoadConfig, Goto, TypeOK, Same
<1>5. CASE ReadRow(t)
  BY <1>5 DEF ReadRow, Goto, TypeOK, Same
<1>6. CASE Compile(t)
  BY <1>6 DEF Compile, Goto, TypeOK, Same
<1>7. CASE Register(t)
  BY <1>7 DEF Register, Goto, TypeOK, Same
<1>8. CASE Initialized(t)
  BY <1>8 DEF Initialized, Goto, TypeOK, Same
<1>9. CASE TakeReset(t)
  BY <1>9 DEF TakeReset, Goto, TypeOK, Same
<1>10. CASE NoReset(t)
  BY <1>10 DEF NoReset, Goto, TypeOK, Same
<1>11. CASE Tick(t)
  BY <1>11 DEF Tick, Goto, TypeOK, Same
<1>12. CASE Clear(t)
  BY <1>12 DEF Clear, Goto, TypeOK, Same
<1>13. CASE CompileFails(t)
  BY <1>13 DEF CompileFails, End, Goto, TypeOK, Same
<1>14. CASE Restart(t)
  BY <1>14 DEF Restart, Goto, TypeOK, Same
<1>15. CASE Stop(t)
  BY <1>15 DEF Stop, End, Goto, TypeOK, Same
<1> QED
  BY <1>1, <1>2, <1>3, <1>4, <1>5, <1>6, <1>7, <1>8, <1>9, <1>10, <1>11, <1>12, <1>13, <1>14, <1>15
  DEF ThreadStep, Step

LEMMA ControlStep ==
  ASSUME TypeInv, NEW t \in Threads, ThreadStep(t)
  PROVE  Control(t)'
<1> USE DEF server, thread
<1> TypeOK /\ Control(t)
  BY DEF TypeInv
<1>1. CASE Visit(t)
  BY <1>1 DEF Visit, TypeOK, Control, Alive, Cleared
<1>2. CASE Start(t)
  <2>1. pc'[t] = "config" /\ queries' = queries /\ lists' = lists /\ kind' = kind
    BY <1>2 DEF Start, TypeOK
  <2>2. queries[t] = <<>> /\ lists[t] = NoLists
    BY <1>2 DEF Start, Alive, Control
  <2> QED
    BY <2>1, <2>2 DEF Control, Alive, NoLists, Cleared
<1>3. CASE SetPaused(t)
  BY <1>3 DEF SetPaused, TypeOK, Control, Alive, Cleared
<1>4. CASE LoadConfig(t)
  <2>1. pc'[t] = "read"
    BY <1>4 DEF LoadConfig, Goto, TypeOK
  <2> QED
    BY <2>1 DEF Control, Alive
<1>5. CASE ReadRow(t)
  <2>1. /\ pc[t] = "read" /\ pc'[t] = "compile" /\ queries' = queries /\ lists' = lists /\ todo' = todo
        /\ todo[t] # <<>> /\ row'[t] = [id |-> Head(todo[t]).id, version |-> query[Head(todo[t]).id]]
    BY <1>5 DEF ReadRow, Goto, TypeOK
  <2>2. Head(todo[t]).id \in QueryIds
    BY <2>1, TodoFacts DEF Entry
  <2>3. row'[t] \in Row
    BY <2>1, <2>2 DEF Row, TypeOK
  <2> QED
    BY <2>1, <2>2, <2>3 DEF Control, Alive
<1>6. CASE Compile(t)
  <2>1. pc[t] = "compile" /\ pc'[t] = "register" /\ todo' = todo /\ row' = row
    BY <1>6 DEF Compile, Goto, TypeOK
  <2> QED
    BY <2>1 DEF Control, Alive
<1>7. CASE Register(t)
  <2>1. pc'[t] = "read" /\ queries' = queries /\ lists' = lists
    BY <1>7 DEF Register, Goto, TypeOK
  <2> QED
    BY <1>7, <2>1 DEF Register, Control, Alive
<1>8. CASE Initialized(t)
  BY <1>8 DEF Initialized, Goto, TypeOK, Control, Alive, Cleared
<1>9. CASE TakeReset(t)
  BY <1>9 DEF TakeReset, Goto, TypeOK, Control, Alive, Cleared
<1>10. CASE NoReset(t)
  BY <1>10 DEF NoReset, Goto, TypeOK, Control, Alive, Cleared
<1>11. CASE Tick(t)
  BY <1>11 DEF Tick, Goto, TypeOK, Control, Alive, Cleared
<1>12. CASE Clear(t)
  <2>1. pc'[t] = "config" /\ queries'[t] = <<>> /\ kind' = kind
        /\ \A r \in Cleared(kind[t]) : lists'[t][r] = <<>>
    BY <1>12 DEF Clear, Goto, TypeOK, Cleared
  <2> QED
    BY <2>1 DEF Control, Alive
<1>13. CASE CompileFails(t)
  <2>1. pc'[t] = "ended" /\ queries'[t] = <<>> /\ lists'[t] = NoLists
    BY <1>13 DEF CompileFails, End, Goto, TypeOK
  <2> QED
    BY <2>1 DEF Control, Alive
<1>14. CASE Restart(t)
  BY <1>14 DEF Restart, Goto, TypeOK, Control, Alive, Cleared
<1>15. CASE Stop(t)
  <2>1. pc'[t] = "ended" /\ queries'[t] = <<>> /\ lists'[t] = NoLists
    BY <1>15 DEF Stop, End, Goto, TypeOK
  <2> QED
    BY <2>1 DEF Control, Alive
<1> QED
  BY <1>1, <1>2, <1>3, <1>4, <1>5, <1>6, <1>7, <1>8, <1>9, <1>10, <1>11, <1>12, <1>13, <1>14, <1>15
  DEF ThreadStep, Step

LEMMA TypeInvStep ==
  ASSUME TypeInv, [Next]_vars
  PROVE  TypeInv'
<1> TypeOK
  BY DEF TypeInv
<1> SUFFICES ASSUME NEW u \in Threads PROVE Control(u)'
  BY TypeStep DEF TypeInv
<1>1. CASE \E t \in Threads : ThreadStep(t)
  <2>1. PICK t \in Threads : ThreadStep(t)
    BY <1>1
  <2>2. CASE u # t
    BY <2>1, <2>2, OthersStay DEF TypeInv, Same, Control, Alive
  <2> QED
    BY <2>1, <2>2, ControlStep
<1>2. CASE UNCHANGED <<kind, thread>>
  BY <1>2 DEF TypeInv, Control, Alive, thread
<1> QED
  BY <1>1, <1>2 DEF Next, ThreadStep, AddQuery, DeleteQuery, UpdateQuery, UpdateConfig, vars

\* Every variable keeps its type, a thread that loads a row has it to load, and the
\* container is empty whenever a configuration is loaded (onReset(), addQuery()).
THEOREM TypeCorrect == Spec => []TypeInv
BY TypeInit, TypeInvStep, PTL DEF Spec

-----------------------------------------------------------------------------
(* Whatever has been changed will be loaded again.                          *)

LEMMA CompileFacts ==
  ASSUME TypeInv, NEW t \in Threads, Compile(t)
  PROVE  /\ pc[t] = "compile" /\ pc'[t] = "register" /\ row' = row /\ todo' = todo
         /\ \A i \in DOMAIN queries[t] : i \in DOMAIN queries'[t] /\ queries'[t][i] = queries[t][i]
         /\ \A i \in DOMAIN queries'[t] : \/ i \in DOMAIN queries[t] /\ queries'[t][i] = queries[t][i]
                                          \/ queries'[t][i] = row[t]
         /\ \E index \in Nat :
              /\ lists' = [lists EXCEPT ![t][Head(todo[t]).role] = Append(@, index)]
              /\ index # 0 => index \in DOMAIN queries'[t] /\ queries'[t][index] = row[t]
<1> DEFINE new == IF row[t].version = 0 THEN <<>> ELSE <<row[t]>>
           index == IF new = <<>> THEN 0 ELSE Len(queries[t]) + 1
<1> TypeOK /\ Control(t)
  BY DEF TypeInv
<1>1. queries[t] \in Seq(Row) /\ row[t] \in Row
  BY DEF Compile, TypeOK, Control
<1>2. queries'[t] = queries[t] \o new /\ lists' = [lists EXCEPT ![t][Head(todo[t]).role] = Append(@, index)]
  BY DEF Compile, TypeOK
<1>3. /\ Len(queries[t]) \in Nat /\ DOMAIN queries[t] = 1 .. Len(queries[t])
  BY <1>1, LenProperties
<1>4. CASE row[t].version = 0
  <2>1. new = <<>> /\ index = 0
    BY <1>4
  <2>2. queries'[t] = queries[t]
    BY <1>1, <1>2, <2>1, ConcatEmptySeq
  <2> QED
    BY <1>2, <2>1, <2>2 DEF Compile, Goto, TypeOK
<1>5. CASE row[t].version # 0
  <2>1. new = <<row[t]>> /\ new \in Seq(Row) /\ Len(new) = 1 /\ new[1] = row[t] /\ index = Len(queries[t]) + 1
    BY <1>1, <1>5
  <2> HIDE DEF new, index
  <2>2. queries'[t] \in Seq(Row) /\ Len(queries'[t]) = Len(queries[t]) + 1
        /\ \A i \in 1 .. Len(queries[t]) + 1 :
             queries'[t][i] = IF i <= Len(queries[t]) THEN queries[t][i] ELSE new[i - Len(queries[t])]
    BY <1>1, <1>2, <2>1, ConcatProperties
  <2>3. DOMAIN queries'[t] = 1 .. Len(queries[t]) + 1
    BY <2>2, LenProperties
  <2>4. queries'[t][Len(queries[t]) + 1] = row[t]
    BY <1>3, <2>1, <2>2
  <2>5. \A i \in DOMAIN queries'[t] : i \in DOMAIN queries[t] \/ i = Len(queries[t]) + 1
    BY <1>3, <2>3
  <2>6. \A i \in DOMAIN queries[t] : i \in DOMAIN queries'[t] /\ queries'[t][i] = queries[t][i]
    BY <1>3, <2>2, <2>3
  <2>7. index \in Nat /\ index \in DOMAIN queries'[t] /\ queries'[t][index] = row[t]
    BY <1>3, <2>1, <2>3, <2>4
  <2>8. pc[t] = "compile" /\ pc'[t] = "register" /\ row' = row /\ todo' = todo
    BY DEF Compile, Goto, TypeOK
  <2>9. lists' = [lists EXCEPT ![t][Head(todo[t]).role] = Append(@, index)]
    BY <1>2
  <2> QED
    BY <2>4, <2>5, <2>6, <2>7, <2>8, <2>9
<1> QED
  BY <1>4, <1>5

LEMMA ThreadResets ==
  ASSUME TypeInv, NEW t \in Threads, ThreadStep(t),
         Registered(t), Loads(t), Alive(t) => ConfigComes(t) /\ QueriesCome(t)
  PROVE  Registered(t)' /\ Loads(t)' /\ (Alive(t)' => ConfigComes(t)' /\ QueriesCome(t)')
<1> USE DEF server, thread
<1> TypeOK /\ Control(t)
  BY DEF TypeInv
<1>1. CASE Visit(t)
  <2>1. /\ toReset'[t] = (toReset[t] \/ (Alive(t) /\ NeedsReset(t))) /\ pc' = pc /\ loaded' = loaded
        /\ config' = config /\ query' = query /\ queries' = queries /\ queriesId' = queriesId
        /\ row' = row /\ missed' = missed
    BY <1>1 DEF Visit, TypeOK
  <2>2. Registered(t)' /\ Loads(t)'
    BY <2>1 DEF Registered, Loads, Loading, Current
  <2>3. Alive(t) /\ ResetComes(t) => ResetComes(t)'
    BY <2>1 DEF ResetComes
  <2> QED
    BY <2>1, <2>2, <2>3 DEF ConfigComes, QueriesCome, Current, Alive
<1>2. CASE Start(t)
  <2>1. pc'[t] = "config" /\ queries' = queries /\ queries[t] = <<>>
    BY <1>2 DEF Start, TypeOK, Control, Alive
  <2> QED
    BY <2>1 DEF Registered, Loads, Current, ConfigComes, QueriesCome, ResetComes, NeedsReset, Loading, Alive
<1>3. CASE SetPaused(t)
  BY <1>3 DEF SetPaused, TypeOK, Registered, Loads, Current, ConfigComes, QueriesCome, ResetComes, NeedsReset, Loading, Alive
<1>4. CASE LoadConfig(t)
  <2>1. pc[t] = "config" /\ pc'[t] = "read" /\ queries' = queries /\ queries[t] = <<>>
        /\ loaded'[t] = config[ConfigOf[t]] /\ config' = config
    BY <1>4 DEF LoadConfig, Goto, TypeOK, Control
  <2> QED
    BY <2>1 DEF Registered, Loads, Current, ConfigComes, QueriesCome, ResetComes, NeedsReset, Loading, Alive
<1>5. CASE ReadRow(t)
  <2>1. /\ pc[t] = "read" /\ pc'[t] = "compile" /\ row'[t].id \in QueryIds
        /\ row'[t].version = query[row'[t].id]
        /\ UNCHANGED <<toReset, loaded, config, query, queries, queriesId, missed, srv>>
    BY <1>5, TodoFacts DEF ReadRow, Goto, TypeOK, Entry
  <2> QED
    BY <2>1 DEF Registered, Loads, Current, ConfigComes, QueriesCome, ResetComes, NeedsReset, Loading, Alive
<1>6. CASE Compile(t)
  <2>1. /\ UNCHANGED <<toReset, loaded, config, query, queriesId, missed, srv>>
    BY <1>6 DEF Compile
  <2>2. row' = row /\ pc[t] = "compile" /\ pc'[t] = "register"
    BY <1>6, CompileFacts
  <2>3. Loads(t)' /\ Current(row[t], t) /\ Loading(t, row[t].id)'
    BY <2>1, <2>2 DEF Loads, Current, Loading
  <2>4. \A q \in QueryIds : Loading(t, q) => Loading(t, q)'
    BY <2>2 DEF Loading
  <2>5. ResetComes(t) => ResetComes(t)'
    BY <2>1, <2>2 DEF ResetComes, NeedsReset
  <2>6. ConfigComes(t)'
    BY <2>1, <2>2, <2>5 DEF ConfigComes, Alive
  <2>7. ASSUME NEW i \in DOMAIN queries'[t]
        PROVE  /\ Current(queries'[t][i], t) \/ ResetComes(t)'
               /\ queries'[t][i].id \in queriesId[t] \/ row[t].id = queries'[t][i].id
    <3>1. CASE i \in DOMAIN queries[t] /\ queries'[t][i] = queries[t][i]
      BY <2>2, <2>5, <3>1 DEF QueriesCome, Registered, Loading, Alive
    <3>2. CASE queries'[t][i] = row[t]
      BY <2>3, <3>2
    <3> QED
      BY <1>6, <3>1, <3>2, CompileFacts
  <2> QED
    BY <2>1, <2>2, <2>3, <2>6, <2>7 DEF Registered, QueriesCome, Current, Loading
<1>7. CASE Register(t)
  <2>1. /\ pc[t] = "register" /\ pc'[t] = "read" /\ queriesId'[t] = queriesId[t] \cup {row[t].id}
        /\ UNCHANGED <<toReset, loaded, config, query, queries, missed, srv>>
    BY <1>7 DEF Register, Goto, TypeOK
  <2> QED
    BY <2>1 DEF Registered, Loads, Current, ConfigComes, QueriesCome, ResetComes, NeedsReset, Loading, Alive
<1>8. CASE Initialized(t)
  BY <1>8 DEF Initialized, Goto, TypeOK, Registered, Loads, Current, ConfigComes, QueriesCome, ResetComes, NeedsReset, Loading, Alive
<1>9. CASE TakeReset(t)
  BY <1>9 DEF TakeReset, Goto, TypeOK, Registered, Loads, Current, ConfigComes, QueriesCome, ResetComes, NeedsReset, Loading, Alive
<1>10. CASE NoReset(t)
  BY <1>10 DEF NoReset, Goto, TypeOK, Registered, Loads, Current, ConfigComes, QueriesCome, ResetComes, NeedsReset, Loading, Alive
<1>11. CASE Tick(t)
  BY <1>11 DEF Tick, Goto, TypeOK, Registered, Loads, Current, ConfigComes, QueriesCome, ResetComes, NeedsReset, Loading, Alive
<1>12. CASE Clear(t)
  <2>1. pc'[t] = "config" /\ queries'[t] = <<>>
    BY <1>12 DEF Clear, Goto, TypeOK
  <2> QED
    BY <2>1 DEF Registered, Loads, Current, ConfigComes, QueriesCome, ResetComes, NeedsReset, Loading, Alive
<1>13. CASE CompileFails(t)
  <2>1. pc'[t] = "ended" /\ queries'[t] = <<>>
    BY <1>13 DEF CompileFails, End, Goto, TypeOK
  <2> QED
    BY <2>1 DEF Registered, Loads, Alive
<1>14. CASE Restart(t)
  BY <1>14 DEF Restart, Goto, TypeOK, Registered, Loads, Current, ConfigComes, QueriesCome, ResetComes, NeedsReset, Loading, Alive
<1>15. CASE Stop(t)
  <2>1. pc'[t] = "ended" /\ queries'[t] = <<>>
    BY <1>15 DEF Stop, End, Goto, TypeOK
  <2> QED
    BY <2>1 DEF Registered, Loads, Alive
<1> QED
  BY <1>1, <1>2, <1>3, <1>4, <1>5, <1>6, <1>7, <1>8, <1>9, <1>10, <1>11, <1>12, <1>13, <1>14, <1>15
  DEF ThreadStep, Step

LEMMA OthersResets ==
  ASSUME TypeInv, NEW t \in Threads, ThreadStep(t), NEW u \in Threads \ {t}, Registered(u), Loads(u),
         Alive(u) => ConfigComes(u) /\ QueriesCome(u)
  PROVE  Registered(u)' /\ Loads(u)' /\ (Alive(u)' => ConfigComes(u)' /\ QueriesCome(u)')
<1>1. config' = config /\ query' = query /\ Same(u)
  BY OthersStay DEF TypeInv
<1>2. u \in srv.left => u \in srv'.left /\ srv'.cmd = srv.cmd /\ srv'.id = srv.id
  <2>1. CASE Visit(t)
    BY <2>1 DEF Visit, TypeInv, TypeOK
  <2>2. CASE srv' = srv
    BY <2>2
  <2> QED
    BY <2>1, <2>2 DEF ThreadStep, Step, server, Start, SetPaused, LoadConfig, ReadRow, Compile, Register,
       Initialized, TakeReset, NoReset, Tick, Clear, CompileFails, Restart, Stop, End
<1>3. ResetComes(u) => ResetComes(u)'
  BY <1>1, <1>2 DEF ResetComes, NeedsReset, Same
<1>4. Registered(u)' /\ Loads(u)'
  BY <1>1 DEF Registered, Loads, Loading, Current, Same
<1> QED
  BY <1>1, <1>3, <1>4 DEF ConfigComes, QueriesCome, Current, Alive, Same

\* The server writes a row when it is idle; then a thread that is to be reset knows it.
LEMMA ServerResets ==
  ASSUME TypeInv, NEW u \in Threads, Registered(u), Loads(u),
         Alive(u) => ConfigComes(u) /\ QueriesCome(u),
         AddQuery \/ DeleteQuery \/ (\E q \in Rows : UpdateQuery(q)) \/ (\E c \in Configs : UpdateConfig(c))
  PROVE  Registered(u)' /\ Loads(u)' /\ (Alive(u)' => ConfigComes(u)' /\ QueriesCome(u)')
<1> TypeOK /\ Control(u)
  BY DEF TypeInv
<1>1. /\ srv.cmd = "idle" /\ UNCHANGED <<toReset, pc, loaded, row, queries, queriesId>>
  BY DEF AddQuery, DeleteQuery, UpdateQuery, UpdateConfig, MayChange, thread
<1>2. ResetComes(u) => toReset[u] \/ pc[u] \in {"clear", "config"}
  BY <1>1 DEF TypeOK, ResetComes
<1>3. ResetComes(u) => ResetComes(u)'
  BY <1>1, <1>2 DEF ResetComes
<1>4. /\ \A i \in DOMAIN queries[u] : queries[u][i] \in Row /\ queries[u][i].id \in QueryIds
      /\ (Loads(u) /\ pc[u] \in {"compile", "register"}) => row[u] \in Row /\ row[u].id \in QueryIds
  <2>1. \A i \in DOMAIN queries[u] : queries[u][i] \in Row
    BY LenProperties, ElementOfSeq DEF TypeOK
  <2> QED
    BY <2>1 DEF Control, Row
<1>5. Registered(u)'
  BY <1>1 DEF Registered, Loading
\* A row that the thread holds stays current, or a reset comes
<1>6. ASSUME NEW r \in Row, r.id \in queriesId[u] \/ Loading(u, r.id), Current(r, u) \/ ResetComes(u)
      PROVE  /\ Current(r, u)' \/ ResetComes(u)'
             /\ Current(r, u) /\ Loading(u, r.id) => Current(r, u)'
  <2>1. CASE AddQuery
    <3>1. PICK q \in QueryIds : /\ query' = [query EXCEPT ![q] = stamp']
                                /\ missed' = [v \in Threads |-> IF q \in queriesId[v] \/ Loading(v, q)
                                                                THEN missed[v] \cup {q} ELSE missed[v]]
      BY <2>1 DEF AddQuery, NewIds
    <3> QED
      BY <1>3, <1>6, <3>1 DEF TypeOK, Row, Current
  <2>2. CASE DeleteQuery
    BY <1>3, <1>6, <2>2 DEF DeleteQuery, TypeOK, Row, Rows, Current
  <2>3. CASE \E q \in Rows : UpdateQuery(q)
    <3>1. PICK q \in QueryIds : /\ query' = [query EXCEPT ![q] = stamp'] /\ Changed(q)
                                /\ srv' = [cmd |-> "query", id |-> q, left |-> Threads]
      BY <2>3 DEF UpdateQuery, Rows
    <3>2. CASE r.id = q
      <4>1. Loading(u, q) => Current(r, u)'
        BY <3>1, <3>2 DEF Changed, Current
      <4>2. r.id \in queriesId[u] => ResetComes(u)'
        BY <1>1, <3>1, <3>2 DEF ResetComes, NeedsReset
      <4> QED
        BY <1>6, <3>2, <4>1, <4>2
    <3>3. CASE r.id # q
      BY <1>3, <1>6, <3>1, <3>3 DEF TypeOK, Row, Changed, Current
    <3> QED
      BY <3>2, <3>3
  <2>4. CASE \E c \in Configs : UpdateConfig(c)
    BY <1>3, <1>6, <2>4 DEF UpdateConfig, Current
  <2> QED
    BY <2>1, <2>2, <2>3, <2>4
<1>7. Loads(u)'
  BY <1>1, <1>4, <1>6 DEF Loads, Loading, Current
<1>8. Alive(u) => QueriesCome(u)'
  BY <1>1, <1>3, <1>4, <1>6 DEF QueriesCome, Registered, Loading, Current
<1>9. Alive(u) => ConfigComes(u)'
  <2>1. CASE \E c \in Configs : UpdateConfig(c)
    <3>1. PICK c \in Configs : /\ \E l \in Contents : config' = [config EXCEPT ![c] = [stamp |-> stamp', lists |-> l]]
                               /\ srv' = [cmd |-> "config", id |-> c, left |-> Threads]
      BY <2>1 DEF UpdateConfig
    <3>2. CASE ConfigOf[u] = c
      BY <3>1, <3>2 DEF ConfigComes, ResetComes, NeedsReset
    <3>3. CASE ConfigOf[u] # c
      <4>1. config'[ConfigOf[u]] = config[ConfigOf[u]]
        BY <3>1, <3>3, ConfigOfAssumption DEF TypeOK
      <4> QED
        BY <1>1, <1>3, <4>1 DEF ConfigComes
    <3> QED
      BY <3>2, <3>3
  <2>2. CASE config' = config
    BY <1>1, <1>3, <2>2 DEF ConfigComes
  <2> QED
    BY <2>1, <2>2 DEF AddQuery, DeleteQuery, UpdateQuery
<1> QED
  BY <1>1, <1>5, <1>7, <1>8, <1>9 DEF Alive

LEMMA ResetInvStep ==
  ASSUME TypeInv, ResetInv, [Next]_vars
  PROVE  ResetInv'
<1> SUFFICES ASSUME NEW u \in Threads
             PROVE  Registered(u)' /\ Loads(u)' /\ (Alive(u)' => ConfigComes(u)' /\ QueriesCome(u)')
  BY DEF ResetInv
<1>1. Registered(u) /\ Loads(u) /\ (Alive(u) => ConfigComes(u) /\ QueriesCome(u))
  BY DEF ResetInv
<1>2. CASE \E t \in Threads : ThreadStep(t)
  <2>1. PICK t \in Threads : ThreadStep(t)
    BY <1>2
  <2>2. CASE u = t
    BY <1>1, <2>1, <2>2, ThreadResets
  <2>3. CASE u # t
    BY <1>1, <2>1, <2>3, OthersResets
  <2> QED
    BY <2>2, <2>3
<1>3. CASE AddQuery \/ DeleteQuery \/ (\E q \in Rows : UpdateQuery(q)) \/ (\E c \in Configs : UpdateConfig(c))
  BY <1>1, <1>3, ServerResets
<1>4. CASE UNCHANGED vars
  BY <1>1, <1>4 DEF vars, server, thread, Registered, Loads, Loading, Current, ConfigComes, QueriesCome, ResetComes, NeedsReset, Alive
<1> QED
  BY <1>2, <1>3, <1>4 DEF Next, ThreadStep

\* Nobody goes on working with what has been changed: cmdUpdateConfig() and
\* cmdUpdateQuery() write the row before they look for the threads to reset, so that
\* each of them has either loaded the new row, or is found, or is just loading the
\* row and not yet registered (the changes in missed).
THEOREM ChangesLeadToResets == Spec => []OutdatedDataIsReset
<1>1. ASSUME Init PROVE ResetInv
  <2>1. ASSUME NEW t \in Threads PROVE Registered(t) /\ Loads(t) /\ ~Alive(t)
    <3>1. pc[t] = "none" /\ queries[t] = <<>>
      BY <1>1 DEF Init
    <3> QED
      BY <3>1 DEF Registered, Loads, Alive
  <2> QED
    BY <2>1 DEF ResetInv
<1>2. TypeInv /\ ResetInv => OutdatedDataIsReset
  <2> SUFFICES ASSUME TypeInv, ResetInv PROVE OutdatedDataIsReset
    OBVIOUS
  <2>1. OutdatedConfigsAreReset
    BY DEF ResetInv, ConfigComes, OutdatedConfigsAreReset
  <2>2. OutdatedQueriesAreReset
    BY DEF ResetInv, QueriesCome, Current, Outdated, OutdatedQueriesAreReset
  <2> QED
    BY <2>1, <2>2 DEF OutdatedDataIsReset
<1> QED
  BY <1>1, <1>2, TypeCorrect, ResetInvStep, PTL DEF Spec

-----------------------------------------------------------------------------
(* Lists name the queries of the configuration.                             *)

Listing(t) ==
  HasLists(t) =>
    TodoIsLeft(t) /\ \A r \in Cleared(kind[t]) : Len(lists[t][r]) = ListedOf(t, r) /\ Names(t, r)

LEMMA SizeFacts ==
  ASSUME TypeOK, NEW t \in Threads
  PROVE  /\ \A r \in Roles : Size(t, r) \in Nat /\ lists[t][r] \in Seq(Nat)
         /\ Len(todo[t]) \in Nat /\ DOMAIN todo[t] = 1 .. Len(todo[t]) /\ Done(t) \in Int
         /\ Cleared(kind[t]) \subseteq Roles
         /\ \A r \in Roles : Len(lists[t][r]) \in Nat /\ DOMAIN lists[t][r] = 1 .. Len(lists[t][r])
<1>1. loaded[t].lists \in Contents \cup {NoLists}
  BY DEF TypeOK
<1>2. \A r \in Roles : Size(t, r) \in Nat
  <2>1. CASE loaded[t].lists \in Contents
    BY <2>1, ContentFacts DEF Size
  <2>2. CASE loaded[t].lists = NoLists
    <3>1. ASSUME NEW r \in Roles PROVE Len(loaded[t].lists[r]) = 0
      BY <2>2, EmptySeq DEF NoLists
    <3> QED
      BY <3>1 DEF Size
  <2> QED
    BY <1>1, <2>1, <2>2
<1>3. \A r \in Roles : lists[t][r] \in Seq(Nat)
  BY DEF TypeOK
<1>4. \A r \in Roles : Len(lists[t][r]) \in Nat /\ DOMAIN lists[t][r] = 1 .. Len(lists[t][r])
  BY <1>3, LenProperties
<1>5. Done(t) \in Int
  BY <1>2, TodoFacts DEF Done, Sizes, Roles
<1> QED
  BY <1>2, <1>3, <1>4, <1>5, TodoFacts DEF Cleared

LEMMA ThreadLists ==
  ASSUME TypeInv, NEW t \in Threads, ThreadStep(t), Listing(t)
  PROVE  Listing(t)'
<1> USE DEF server, thread
<1> TypeOK /\ Control(t)
  BY DEF TypeInv
<1>1. CASE Visit(t)
  <2>1. pc'[t] = pc[t] /\ UNCHANGED <<lists, queries, loaded, kind, todo>>
    BY <1>1 DEF Visit, TypeOK
  <2> QED
    BY <2>1 DEF Listing, HasLists, TodoIsLeft, Names, ListedOf, Listed, Done, Sizes, Size, Item
<1>2. CASE Start(t)
  <2>1. pc'[t] \in {"clear", "config", "ended"}
    BY <1>2 DEF Start, TypeOK
  <2> QED
    BY <2>1 DEF Listing, HasLists
<1>3. CASE SetPaused(t)
  <2>1. pc'[t] = pc[t] /\ UNCHANGED <<lists, queries, loaded, kind, todo>>
    BY <1>3 DEF SetPaused, TypeOK
  <2> QED
    BY <2>1 DEF Listing, HasLists, TodoIsLeft, Names, ListedOf, Listed, Done, Sizes, Size, Item
<1>4. CASE LoadConfig(t)
  <2> DEFINE c == config[ConfigOf[t]]
             named(r) == [i \in DOMAIN c.lists[r] |-> [role |-> r, id |-> c.lists[r][i]]]
  <2>1. /\ pc[t] = "config" /\ pc'[t] = "read" /\ loaded'[t] = c /\ kind'[t] = kind[t]
        /\ todo'[t] = named("list") \o named("ignore") /\ lists'[t] = lists[t]
    BY <1>4 DEF LoadConfig, Goto, TypeOK
  <2>2. c.lists \in Contents
    BY ConfigOfAssumption DEF TypeOK
  <2>3. \A r \in Roles : /\ named(r) \in Seq(Entry) /\ Len(named(r)) = Size(t, r)' /\ Size(t, r)' \in Nat
                         /\ \A i \in 1 .. Size(t, r)' : named(r)[i] = [role |-> r, id |-> loaded'[t].lists[r][i]]
    BY <2>1, <2>2, ContentFacts DEF Size
  <2> HIDE DEF c, named
  <2> DEFINE l == Size(t, "list")'
             m == Size(t, "ignore")'
  <2>4. /\ l \in Nat /\ m \in Nat /\ todo'[t] \in Seq(Entry) /\ Len(todo'[t]) = l + m
        /\ \A i \in 1 .. l + m : todo'[t][i] = IF i <= l THEN named("list")[i] ELSE named("ignore")[i - l]
    BY <2>1, <2>3, ConcatProperties DEF Roles
  <2>5. DOMAIN todo'[t] = 1 .. l + m
    BY <2>4, LenProperties
  <2> HIDE DEF l, m
  <2>6. Sizes(t)' = l + m /\ Done(t)' = 0 /\ Listed(t)' = 0
    BY <2>1, <2>4 DEF Sizes, Done, Listed, l, m
  <2>7. \A i \in 1 .. l + m : todo'[t][i] = Item(t, i)'
    <3>1. ASSUME NEW i \in 1 .. l + m, i <= l
          PROVE  todo'[t][i] = [role |-> "list", id |-> loaded'[t].lists["list"][i]]
      BY <2>3, <2>4, <3>1 DEF Roles, l
    <3>2. ASSUME NEW i \in 1 .. l + m, ~(i <= l)
          PROVE  todo'[t][i] = [role |-> "ignore", id |-> loaded'[t].lists["ignore"][i - l]]
      BY <2>3, <2>4, <3>2 DEF Roles, m
    <3> QED
      BY <3>1, <3>2 DEF Item, l
  <2>8. TodoIsLeft(t)'
    BY <2>4, <2>5, <2>6, <2>7 DEF TodoIsLeft
  <2>9. \A r \in Cleared(kind[t]) : lists[t][r] = <<>>
    BY <2>1 DEF Control
  <2>10. ASSUME NEW r \in Cleared(kind[t]) PROVE Len(lists'[t][r]) = 0 /\ ListedOf(t, r)' = 0 /\ Names(t, r)'
    BY <2>1, <2>3, <2>6, <2>9, EmptySeq DEF ListedOf, Names, Roles, Cleared
  <2> QED
    BY <2>1, <2>8, <2>10 DEF Listing
<1>5. CASE ReadRow(t)
  <2>1. pc[t] = "read" /\ pc'[t] = "compile" /\ UNCHANGED <<lists, queries, loaded, kind, todo>>
    BY <1>5 DEF ReadRow, Goto, TypeOK
  <2> QED
    BY <2>1 DEF Listing, HasLists, TodoIsLeft, Names, ListedOf, Listed, Done, Sizes, Size, Item
<1>6. CASE Compile(t)
  <2> DEFINE role == Head(todo[t]).role
             d == Done(t)
             l == Size(t, "list")
  <2>1. /\ loaded' = loaded /\ kind' = kind
    BY <1>6 DEF Compile
  <2>2. /\ pc[t] = "compile" /\ pc'[t] = "register" /\ row' = row /\ todo' = todo
        /\ \A i \in DOMAIN queries[t] : i \in DOMAIN queries'[t] /\ queries'[t][i] = queries[t][i]
    BY <1>6, CompileFacts
  <2>3. PICK index \in Nat : /\ lists' = [lists EXCEPT ![t][role] = Append(@, index)]
                             /\ index # 0 => index \in DOMAIN queries'[t] /\ queries'[t][index] = row[t]
    BY <1>6, CompileFacts
  <2>4. /\ todo[t] # <<>> /\ Head(todo[t]).id = row[t].id /\ Head(todo[t]) = todo[t][1] /\ 1 \in DOMAIN todo[t]
        /\ role \in Roles
    BY <2>2, TodoFacts DEF Control, Entry
  <2>5. TodoIsLeft(t) /\ \A r \in Cleared(kind[t]) : Len(lists[t][r]) = ListedOf(t, r) /\ Names(t, r)
    BY <2>2 DEF Listing, HasLists
  <2>6. Head(todo[t]) = Item(t, d + 1) /\ d \in Nat /\ l \in Nat
    BY <2>4, <2>5, SizeFacts DEF TodoIsLeft, Done, Sizes, Roles
  <2>7. Listed(t) = d /\ Listed(t)' = d + 1 /\ \A r : Size(t, r)' = Size(t, r)
    BY <2>1, <2>2 DEF Listed, Done, Sizes, Size
  <2>8. TodoIsLeft(t)'
    BY <2>1, <2>2, <2>5 DEF TodoIsLeft, Done, Sizes, Size, Item
  <2>9. /\ role = (IF d + 1 <= l THEN "list" ELSE "ignore")
        /\ row[t].id = loaded[t].lists[role][IF d + 1 <= l THEN d + 1 ELSE d + 1 - l]
    BY <2>4, <2>6 DEF Item
  <2>10. /\ lists'[t][role] = Append(lists[t][role], index)
         /\ \A r \in Roles \ {role} : lists'[t][r] = lists[t][r]
    BY <2>3, <2>4 DEF TypeOK
  <2> HIDE DEF role, d, l
  <2>11. ASSUME NEW r \in Cleared(kind[t]) PROVE Len(lists'[t][r]) = ListedOf(t, r)' /\ Names(t, r)'
    <3>1. /\ r \in Roles /\ Len(lists[t][r]) = ListedOf(t, r) /\ Names(t, r) /\ Size(t, r) \in Nat
          /\ DOMAIN lists[t][r] = 1 .. Len(lists[t][r]) /\ lists[t][r] \in Seq(Nat)
      BY <2>5, SizeFacts
    <3>2. \A i \in DOMAIN lists[t][r] : lists[t][r][i] # 0 =>
            /\ lists[t][r][i] \in DOMAIN queries'[t]
            /\ queries'[t][lists[t][r][i]].id = loaded'[t].lists[r][i]
      BY <2>1, <2>2, <3>1 DEF Names
    <3>3. CASE r = role
      <4>1. /\ Len(lists'[t][r]) = Len(lists[t][r]) + 1 /\ lists'[t][r] \in Seq(Nat)
            /\ lists'[t][r][Len(lists[t][r]) + 1] = index
            /\ \A i \in 1 .. Len(lists[t][r]) : lists'[t][r][i] = lists[t][r][i]
        <5>1. lists'[t][r] = Append(lists[t][r], index) /\ lists[t][r] \in Seq(Nat) /\ index \in Nat
          BY <2>3, <2>10, <3>1, <3>3
        <5> QED
          BY <5>1, AppendProperties
      <4>2. DOMAIN lists'[t][r] = 1 .. Len(lists[t][r]) + 1
        BY <4>1, LenProperties
      <4>3. Len(lists[t][r]) + 1 = (IF d + 1 <= l THEN d + 1 ELSE d + 1 - l)
            /\ ListedOf(t, r)' = Len(lists[t][r]) + 1
        <5>1. CASE d + 1 <= l
          BY <2>6, <2>7, <2>9, <3>1, <3>3, <5>1 DEF ListedOf, l
        <5>2. CASE ~(d + 1 <= l)
          BY <2>6, <2>7, <2>9, <3>1, <3>3, <5>2 DEF ListedOf, l
        <5> QED
          BY <5>1, <5>2
      <4>4. index # 0 => queries'[t][index].id = loaded'[t].lists[r][Len(lists[t][r]) + 1]
        BY <2>1, <2>3, <2>9, <3>3, <4>3
      <4>5. \A i \in DOMAIN lists'[t][r] : i \in DOMAIN lists[t][r] \/ i = Len(lists[t][r]) + 1
        BY <3>1, <4>2
      <4>6. Names(t, r)'
        BY <2>3, <3>1, <3>2, <4>1, <4>4, <4>5 DEF Names
      <4> QED
        BY <4>1, <4>3, <4>6
    <3>4. CASE r # role
      <4>1. lists'[t][r] = lists[t][r]
        BY <2>10, <3>1, <3>4
      <4>2. ListedOf(t, r)' = ListedOf(t, r)
        <5>1. CASE d + 1 <= l
          BY <2>6, <2>7, <2>9, <3>1, <3>4, <5>1 DEF ListedOf, Roles, l
        <5>2. CASE ~(d + 1 <= l)
          BY <2>6, <2>7, <2>9, <3>1, <3>4, <5>2 DEF ListedOf, Roles, l
        <5> QED
          BY <5>1, <5>2
      <4> QED
        BY <3>1, <3>2, <4>1, <4>2 DEF Names
    <3> QED
      BY <3>3, <3>4
  <2> QED
    BY <2>1, <2>8, <2>11 DEF Listing
<1>7. CASE Register(t)
  <2>1. /\ pc[t] = "register" /\ pc'[t] = "read" /\ todo'[t] = Tail(todo[t]) /\ todo[t] # <<>>
        /\ lists'[t] = lists[t] /\ queries'[t] = queries[t] /\ loaded'[t] = loaded[t] /\ kind'[t] = kind[t]
    BY <1>7 DEF Register, Goto, TypeOK, Control
  <2>2. /\ Len(todo[t]) \in Nat /\ Len(todo[t]) >= 1 /\ Len(todo'[t]) = Len(todo[t]) - 1
        /\ DOMAIN todo[t] = 1 .. Len(todo[t]) /\ DOMAIN todo'[t] = 1 .. Len(todo[t]) - 1
        /\ \A i \in DOMAIN todo'[t] : todo'[t][i] = todo[t][i + 1]
    BY <2>1, TodoFacts
  <2>3. Listing(t) /\ HasLists(t)
    BY <2>1 DEF HasLists
  <2>4. Sizes(t) \in Nat /\ Sizes(t)' = Sizes(t) /\ \A n : Item(t, n)' = Item(t, n)
    <3>1. Sizes(t) \in Nat
      BY SizeFacts DEF Sizes, Roles
    <3> QED
      BY <2>1, <3>1 DEF Sizes, Size, Item
  <2>5. Done(t)' = Done(t) + 1 /\ Listed(t)' = Listed(t) /\ Done(t) \in Int
    BY <2>1, <2>2, <2>4, SizeFacts DEF Done, Listed
  <2>6. TodoIsLeft(t)'
    <3>1. ASSUME NEW i \in DOMAIN todo'[t] PROVE todo'[t][i] = Item(t, Done(t) + 1 + i)
      <4>1. i + 1 \in DOMAIN todo[t] /\ i \in Nat /\ todo'[t][i] = todo[t][i + 1]
        BY <2>2
      <4>2. todo[t][i + 1] = Item(t, Done(t) + (i + 1))
        BY <2>3, <4>1 DEF Listing, TodoIsLeft
      <4>3. Done(t) + (i + 1) = Done(t) + 1 + i
        BY <2>5, <4>1
      <4> QED
        BY <4>1, <4>2, <4>3
    <3>2. Len(todo'[t]) <= Sizes(t)
      BY <2>2, <2>3, <2>4 DEF Listing, TodoIsLeft
    <3> QED
      BY <2>4, <2>5, <3>1, <3>2 DEF TodoIsLeft
  <2>7. \A r : ListedOf(t, r)' = ListedOf(t, r) /\ (Names(t, r) => Names(t, r)')
    BY <2>1, <2>5 DEF ListedOf, Names, Size
  <2> QED
    BY <2>1, <2>3, <2>6, <2>7 DEF Listing
<1>8. CASE Initialized(t)
  <2>1. pc[t] = "read" /\ pc'[t] = "loop" /\ UNCHANGED <<lists, queries, loaded, kind, todo>>
    BY <1>8 DEF Initialized, Goto, TypeOK
  <2> QED
    BY <2>1 DEF Listing, HasLists, TodoIsLeft, Names, ListedOf, Listed, Done, Sizes, Size, Item
<1>9. CASE TakeReset(t)
  <2>1. pc'[t] \in {"clear", "config", "ended"}
    BY <1>9 DEF TakeReset, Goto, TypeOK
  <2> QED
    BY <2>1 DEF Listing, HasLists
<1>10. CASE NoReset(t)
  <2>1. pc[t] = "loop" /\ pc'[t] = "tick" /\ UNCHANGED <<lists, queries, loaded, kind, todo>>
    BY <1>10 DEF NoReset, Goto, TypeOK
  <2> QED
    BY <2>1 DEF Listing, HasLists, TodoIsLeft, Names, ListedOf, Listed, Done, Sizes, Size, Item
<1>11. CASE Tick(t)
  <2>1. pc[t] = "tick" /\ pc'[t] = "loop" /\ UNCHANGED <<lists, queries, loaded, kind, todo>>
    BY <1>11 DEF Tick, Goto, TypeOK
  <2> QED
    BY <2>1 DEF Listing, HasLists, TodoIsLeft, Names, ListedOf, Listed, Done, Sizes, Size, Item
<1>12. CASE Clear(t)
  <2>1. pc'[t] \in {"clear", "config", "ended"}
    BY <1>12 DEF Clear, Goto, TypeOK
  <2> QED
    BY <2>1 DEF Listing, HasLists
<1>13. CASE CompileFails(t)
  <2>1. pc'[t] \in {"clear", "config", "ended"}
    BY <1>13 DEF CompileFails, End, Goto, TypeOK
  <2> QED
    BY <2>1 DEF Listing, HasLists
<1>14. CASE Restart(t)
  <2>1. pc'[t] \in {"clear", "config", "ended"}
    BY <1>14 DEF Restart, Goto, TypeOK
  <2> QED
    BY <2>1 DEF Listing, HasLists
<1>15. CASE Stop(t)
  <2>1. pc'[t] \in {"clear", "config", "ended"}
    BY <1>15 DEF Stop, End, Goto, TypeOK
  <2> QED
    BY <2>1 DEF Listing, HasLists
<1> QED
  BY <1>1, <1>2, <1>3, <1>4, <1>5, <1>6, <1>7, <1>8, <1>9, <1>10, <1>11, <1>12, <1>13, <1>14, <1>15
  DEF ThreadStep, Step

LEMMA ListInvStep ==
  ASSUME TypeInv, ListInv, [Next]_vars
  PROVE  ListInv'
<1> SUFFICES ASSUME NEW u \in Threads PROVE Listing(u)'
  BY DEF ListInv, Listing
<1>1. Listing(u)
  BY DEF ListInv, Listing
<1>2. CASE \E t \in Threads : ThreadStep(t)
  <2>1. PICK t \in Threads : ThreadStep(t)
    BY <1>2
  <2>2. CASE u = t
    BY <1>1, <2>1, <2>2, ThreadLists
  <2>3. CASE u # t
    <3>1. Same(u) /\ kind' = kind
      BY <2>1, <2>3, OthersStay DEF TypeInv
    <3>2. /\ HasLists(u)' = HasLists(u) /\ todo'[u] = todo[u] /\ Sizes(u)' = Sizes(u) /\ Done(u)' = Done(u)
          /\ \A n : Item(u, n)' = Item(u, n)
      BY <3>1 DEF Same, HasLists, Done, Sizes, Size, Item
    <3>3. TodoIsLeft(u)' = TodoIsLeft(u)
      BY <3>2 DEF TodoIsLeft
    <3>4. \A r : ListedOf(u, r)' = ListedOf(u, r) /\ Names(u, r)' = Names(u, r)
      BY <3>1, <3>2 DEF Same, ListedOf, Listed, Names, Size
    <3> QED
      BY <1>1, <3>1, <3>2, <3>3, <3>4 DEF Same, Listing
  <2> QED
    BY <2>2, <2>3
<1>3. CASE UNCHANGED <<kind, thread>>
  BY <1>1, <1>3 DEF thread, Listing, HasLists, TodoIsLeft, Names, ListedOf, Listed, Done, Sizes, Size, Item
<1> QED
  BY <1>2, <1>3 DEF Next, ThreadStep, AddQuery, DeleteQuery, UpdateQuery, UpdateConfig, vars

\* A thread that ticks works through lists which name the queries of the configuration
\* it has loaded, in their order, whatever has been reset in between: every list that
\* onClear() empties is filled again, once, by initQueries().
THEOREM ListsAlwaysMatch == Spec => []ListsMatch
<1>1. ASSUME Init PROVE ListInv
  BY <1>1 DEF Init, ListInv, HasLists
<1>2. ASSUME TypeInv, ListInv PROVE ListsMatch
  <2> SUFFICES ASSUME NEW t \in Threads, pc[t] \in {"loop", "tick"}, NEW r \in Cleared(kind[t])
               PROVE  ListsAreThoseOfTheConfig(t, r)
    BY DEF ListsMatch
  <2>1. Len(lists[t][r]) = ListedOf(t, r) /\ Names(t, r) /\ r \in Roles
    BY <1>2 DEF ListInv, HasLists, Cleared
  <2>2. /\ Len(todo[t]) = 0
        /\ Size(t, "list") \in Nat /\ Size(t, "ignore") \in Nat
    BY <1>2, EmptySeq, SizeFacts DEF TypeInv, Control, Roles
  <2>3. Listed(t) = Size(t, "list") + Size(t, "ignore")
    BY <2>2 DEF Listed, Done, Sizes
  <2>4. ListedOf(t, r) = Size(t, r)
    <3>1. CASE r = "list"
      BY <2>2, <2>3, <3>1 DEF ListedOf
    <3>2. CASE r = "ignore"
      BY <2>2, <2>3, <3>2 DEF ListedOf
    <3> QED
      BY <2>1, <3>1, <3>2 DEF Roles
  <2> QED
    BY <2>1, <2>4 DEF ListsAreThoseOfTheConfig, Names, Named, Size
<1> QED
  BY <1>1, <1>2, TypeCorrect, ListInvStep, PTL DEF Spec

=============================================================================
