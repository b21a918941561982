------------------------ MODULE QueryContainerProofs ------------------------
(***************************************************************************)
(* Theorems about QueryContainer, for every set of targets and any bounds  *)
(* on the subsets.                                                         *)
(***************************************************************************)
EXTENDS Representations, SequenceTheorems, TLAPS

-----------------------------------------------------------------------------
(* The inductive invariant.  The two representations of the subsets, their  *)
(* number and the cursor are related to the order in which the queries have *)
(* found the subsets; what is left of the parsing state belongs to subsets  *)
(* that have been reached.                                                  *)

\* A subset that has been reached, or what has been freed.
Reached(s, o) == {0, Lost} \cup {o[i] : i \in 1 .. s.current}

\* No more subsets are counted than have been found (the results of a query on a JSON that
\* an XPath query has found are not), and the cursor is on one that was counted.
Bounded(s, o) == s.current <= s.number /\ s.number <= Len(o)

\* The documents and the strings of the subsets, by position.
Lengths(s, o) ==
  /\ \A t \in DocumentTypes : Len(s.docs[t]) = IF t = s.type THEN Len(o) ELSE 0
  /\ Len(s.strings) \in {0, Len(o)}
  /\ s.type \notin DocumentTypes => Len(s.strings) = Len(o)

Places(s, o) ==
  /\ \A t \in DocumentTypes : \A i \in DOMAIN s.docs[t] :
       /\ s.docs[t][i] \in {o[i], Lost}
       /\ i >= s.current => s.docs[t][i] = o[i]
  /\ \A i \in DOMAIN s.strings : s.strings[i] \in {o[i], Lost}

ParsedAreReached(s, o) == \A p \in Parsers : s.parsed[p] \in Reached(s, o)

Kept(s, o) == Bounded(s, o) /\ Lengths(s, o) /\ Places(s, o) /\ ParsedAreReached(s, o)

\* Without a target nothing has been found.
NothingWithoutTarget == target = 0 => order = <<>> /\ seen = <<0, 0>>

ContainerInv ==
  /\ TypeOK
  /\ ParsedContentIsTheTarget
  /\ NothingWithoutTarget
  /\ QueriesUseVisitedSubSets
  /\ Bounded(subSet, order) /\ ParsedAreReached(subSet, order)
  /\ SubSetsAreCounted
  /\ thrown = "none" => Lengths(subSet, order) /\ Places(subSet, order)

-----------------------------------------------------------------------------
(* Sequences: inserting behind a position.                                  *)

\* Helper::Container::moveInto() keeps the elements up to the position, then come the new
\* ones, then those that were behind the position.
LEMMA MovedInto ==
  ASSUME NEW S, NEW to \in Seq(S), NEW from \in Seq(S), NEW at \in 0 .. Len(to)
  PROVE /\ MoveInto(to, from, at) \in Seq(S)
        /\ Len(MoveInto(to, from, at)) = Len(to) + Len(from)
        /\ \A i \in 1 .. Len(to) + Len(from) :
             MoveInto(to, from, at)[i] = IF i <= at THEN to[i]
                                         ELSE IF i <= at + Len(from) THEN from[i - at]
                                         ELSE to[i - Len(from)]
<1> DEFINE a == SubSeq(to, 1, at)  b == SubSeq(to, at + 1, Len(to))
<1>1. Len(to) \in Nat /\ Len(from) \in Nat /\ \A i \in 1 .. Len(to) : to[i] \in S
  BY LenProperties, ElementOfSeq
<1>2. a \in Seq(S) /\ Len(a) = at /\ \A i \in 1 .. at : a[i] = to[i]
  BY <1>1, SubSeqProperties
<1>3. /\ b \in Seq(S) /\ Len(b) = Len(to) - at
      /\ \A i \in 1 .. Len(to) - at : b[i] = to[at + i]
  <2>1. \A i \in at + 1 .. Len(to) : to[i] \in S
    BY <1>1
  <2>2. at + 1 \in Int /\ Len(to) \in Int
    BY <1>1
  <2>3. /\ b \in Seq(S)
        /\ Len(b) = IF at + 1 <= Len(to) THEN Len(to) - (at + 1) + 1 ELSE 0
        /\ \A i \in 1 .. Len(to) - (at + 1) + 1 : b[i] = to[(at + 1) + i - 1]
    BY <2>1, <2>2, SubSeqProperties
  <2> HIDE DEF b
  <2>4. QED BY <1>1, <2>3
<1> HIDE DEF a, b
<1>4. /\ a \o from \in Seq(S) /\ Len(a \o from) = at + Len(from)
      /\ \A i \in 1 .. at + Len(from) : (a \o from)[i] = IF i <= at THEN a[i] ELSE from[i - at]
  BY <1>2, ConcatProperties
<1> DEFINE c == a \o from
<1>5. /\ c \o b \in Seq(S) /\ Len(c \o b) = Len(c) + Len(b)
      /\ \A i \in 1 .. Len(c) + Len(b) :
           (c \o b)[i] = IF i <= Len(c) THEN c[i] ELSE b[i - Len(c)]
  BY <1>3, <1>4, ConcatProperties
<1>6. MoveInto(to, from, at) = c \o b
  BY DEF MoveInto, a, b
<1> HIDE DEF c
<1>7. Len(c) = at + Len(from) /\ \A i \in 1 .. Len(c) : c[i] = IF i <= at THEN a[i] ELSE from[i - at]
  BY <1>4 DEF c
<1>8. Len(c) + Len(b) = Len(to) + Len(from)
  BY <1>1, <1>3, <1>7
<1>9. ASSUME NEW i \in 1 .. Len(to) + Len(from)
      PROVE (c \o b)[i] = IF i <= at THEN to[i]
                          ELSE IF i <= at + Len(from) THEN from[i - at] ELSE to[i - Len(from)]
  <2>1. (c \o b)[i] = IF i <= Len(c) THEN c[i] ELSE b[i - Len(c)]
    BY <1>5, <1>8
  <2>2. CASE i <= at
    BY <1>1, <1>2, <1>7, <2>1, <2>2
  <2>3. CASE at < i /\ i <= at + Len(from)
    BY <1>1, <1>7, <2>1, <2>3
  <2>4. CASE at + Len(from) < i
    <3>1. i - Len(c) \in 1 .. Len(to) - at /\ at + (i - Len(c)) = i - Len(from)
      BY <1>1, <1>7, <2>4
    <3>2. b[i - Len(c)] = to[i - Len(from)]
      BY <1>3, <3>1
    <3>3. ~(i <= at) /\ ~(i <= at + Len(from)) /\ ~(i <= Len(c))
      BY <1>1, <1>7, <2>4
    <3> QED BY <2>1, <3>2, <3>3
  <2>5. i <= at \/ (at < i /\ i <= at + Len(from)) \/ at + Len(from) < i
    BY <1>1
  <2> QED BY <2>2, <2>3, <2>4, <2>5
<1> QED BY <1>5, <1>6, <1>8, <1>9

\* A sequence given by its elements.
LEMMA Listed ==
  ASSUME NEW S, NEW n \in Nat, NEW f \in [1 .. n -> S]
  PROVE f \in Seq(S) /\ Len(f) = n /\ DOMAIN f = 1 .. n
<1>1. f \in Seq(S) BY SeqDef
<1> QED BY <1>1, LenProperties

\* The numbers of new subsets, and the order they are found in.
LEMMA NewOnes ==
  ASSUME order \in Seq(1 .. MaxSubSets), NEW n \in Nat, Len(order) + n <= MaxSubSets
  PROVE New(n) \in Seq(1 .. MaxSubSets) /\ Len(New(n)) = n
<1>1. New(n) \in [1 .. n -> 1 .. MaxSubSets]
  BY BoundsAssumption, LenProperties DEF New
<1> QED BY <1>1, Listed

LEMMA BehindIs ==
  ASSUME order \in Seq(1 .. MaxSubSets), NEW at \in 0 .. Len(order),
         NEW new \in Seq(1 .. MaxSubSets)
  PROVE /\ Behind(at, new) \in Seq(1 .. MaxSubSets)
        /\ Len(Behind(at, new)) = Len(order) + Len(new)
        /\ \A i \in 1 .. Len(order) + Len(new) :
             Behind(at, new)[i] = IF i <= at THEN order[i]
                                  ELSE IF i <= at + Len(new) THEN new[i - at]
                                  ELSE order[i - Len(new)]
<1>1. /\ Len(order) \in Nat /\ Len(new) \in Nat
      /\ \A i \in 1 .. Len(order) : order[i] \in 1 .. MaxSubSets
      /\ \A i \in 1 .. Len(new) : new[i] \in 1 .. MaxSubSets
  BY LenProperties, ElementOfSeq
<1>2. Behind(at, new) \in [1 .. Len(order) + Len(new) -> 1 .. MaxSubSets]
  BY <1>1 DEF Behind
<1>3. \A i \in 1 .. Len(order) + Len(new) :
        Behind(at, new)[i] = IF i <= at THEN order[i]
                             ELSE IF i <= at + Len(new) THEN new[i - at]
                             ELSE order[i - Len(new)]
  BY DEF Behind
<1>4. Len(order) + Len(new) \in Nat
  BY <1>1
<1> HIDE DEF Behind
<1>5. /\ Behind(at, new) \in Seq(1 .. MaxSubSets)
      /\ Len(Behind(at, new)) = Len(order) + Len(new)
  BY <1>2, <1>4, Listed
<1> QED BY <1>3, <1>5

\* Nothing new: the order stays.
LEMMA NothingBehind ==
  ASSUME order \in Seq(1 .. MaxSubSets), NEW at \in 0 .. Len(order)
  PROVE Behind(at, New(0)) = order
<1>1. New(0) \in Seq(1 .. MaxSubSets) /\ Len(New(0)) = 0
  <2>1. New(0) \in [1 .. 0 -> 1 .. MaxSubSets] BY DEF New
  <2> QED BY <2>1, Listed
<1>2. Len(order) \in Nat BY LenProperties
<1> DEFINE new == New(0)
<1>3. /\ Behind(at, new) \in Seq(1 .. MaxSubSets)
      /\ Len(Behind(at, new)) = Len(order) + Len(new)
      /\ \A i \in 1 .. Len(order) + Len(new) :
           Behind(at, new)[i] = IF i <= at THEN order[i]
                                ELSE IF i <= at + Len(new) THEN new[i - at]
                                ELSE order[i - Len(new)]
  <2>1. new \in Seq(1 .. MaxSubSets) BY <1>1
  <2> HIDE DEF new
  <2> QED BY <2>1, BehindIs
<1>4. \A i \in 1 .. Len(order) : Behind(at, new)[i] = order[i]
  <2>1. Len(new) = 0 BY <1>1
  <2> HIDE DEF new
  <2> QED BY <1>2, <1>3, <2>1
<1>5. Len(Behind(at, new)) = Len(order)
  <2>1. Len(new) = 0 BY <1>1
  <2> HIDE DEF new
  <2> QED BY <1>2, <1>3, <2>1
<1> QED BY <1>2, <1>3, <1>4, <1>5, SeqEqual
-----------------------------------------------------------------------------
(* The functions of the subsets.                                            *)

Orders == Seq(1 .. MaxSubSets)

\* The fields of the subsets, and what the bounds say about them.
LEMMA Fields ==
  ASSUME NEW s \in SubSets
  PROVE /\ s.type \in {"none", "regex"} \cup DocumentTypes
        /\ s.number \in 0 .. MaxSubSets /\ s.current \in 0 .. MaxSubSets
        /\ s.docs \in [DocumentTypes -> Seq(Numbers)] /\ s.strings \in Seq(Numbers)
        /\ s.parsed \in [Parsers -> Numbers] /\ s.error \in [Errors -> BOOLEAN]
BY DEF SubSets

LEMMA Bounds == MaxSubSets \in Nat /\ Lost \in Numbers /\ 0 \in Numbers
BY BoundsAssumption DEF Lost, Numbers

\* Updates keep the types.
LEMMA StringsUpdated ==
  ASSUME NEW s \in SubSets, NEW x \in Seq(Numbers)
  PROVE /\ [s EXCEPT !.strings = x] \in SubSets
        /\ [s EXCEPT !.strings = x].strings = x
        /\ \A f \in {"type", "number", "current", "docs", "parsed", "error"} :
             [s EXCEPT !.strings = x][f] = s[f]
BY DEF SubSets

LEMMA ParsedUpdated ==
  ASSUME NEW s \in SubSets, NEW p \in Parsers, NEW x \in Numbers
  PROVE /\ [s EXCEPT !.parsed[p] = x] \in SubSets
        /\ [s EXCEPT !.parsed[p] = x].parsed = [s.parsed EXCEPT ![p] = x]
        /\ \A f \in {"type", "number", "current", "docs", "strings", "error"} :
             [s EXCEPT !.parsed[p] = x][f] = s[f]
BY DEF SubSets

LEMMA ErrorUpdated ==
  ASSUME NEW s \in SubSets, NEW e \in Errors
  PROVE /\ [s EXCEPT !.error[e] = TRUE] \in SubSets
        /\ \A f \in {"type", "number", "current", "docs", "strings", "parsed"} :
             [s EXCEPT !.error[e] = TRUE][f] = s[f]
BY DEF SubSets

\* stringifySubSets() completes the strings from the documents, or fails and leaves
\* everything as it is.
LEMMA Stringified ==
  ASSUME NEW s \in SubSets, NEW o \in Orders, Kept(s, o)
  PROVE LET e == Stringify(s) IN
          /\ e.added = 0 /\ e.failed \in {"none", "xml"}
          /\ e.subSet \in SubSets /\ Kept(e.subSet, o)
          /\ \A f \in {"type", "number", "current", "docs", "parsed"} : e.subSet[f] = s[f]
          /\ e.failed = "none" => Len(e.subSet.strings) = Len(o)
<1> DEFINE e == Stringify(s)
<1>1. Len(o) \in Nat /\ Len(s.strings) \in Nat
  BY LenProperties, Fields DEF Orders
<1>2. CASE s.strings # <<>> \/ s.type \notin DocumentTypes
  <2>1. e = Fine(s) BY <1>2 DEF Stringify
  <2>2. s.strings # <<>> => Len(s.strings) # 0
    BY Fields, EmptySeq
  <2>3. Len(s.strings) = Len(o)
    BY <1>2, <2>2 DEF Kept, Lengths
  <2> QED BY <2>1, <2>3 DEF Fine
<1>3. CASE ~(s.strings # <<>> \/ s.type \notin DocumentTypes)
  <2>1. CASE s.type = "xpath" /\ \E i \in DOMAIN s.docs["xpath"] : s.docs["xpath"][i] = Lost
    BY <1>3, <2>1 DEF Stringify, Failed
  <2>2. CASE ~(s.type = "xpath" /\ \E i \in DOMAIN s.docs["xpath"] : s.docs["xpath"][i] = Lost)
    <3> DEFINE x == s.docs[s.type]
               r == [s EXCEPT !.strings = x]
    <3>1. e = Fine(r) BY <1>3, <2>2 DEF Stringify
    <3>2. x \in Seq(Numbers) /\ s.type \in DocumentTypes BY <1>3, Fields
    <3> HIDE DEF x
    <3>3. /\ r \in SubSets /\ r.strings = x
          /\ r.type = s.type /\ r.number = s.number /\ r.current = s.current
          /\ r.docs = s.docs /\ r.parsed = s.parsed
      BY <3>2, StringsUpdated
    <3> HIDE DEF r
    <3>4. Len(x) = Len(o) /\ \A i \in DOMAIN x : x[i] \in {o[i], Lost}
      BY <3>2 DEF Kept, Lengths, Places, x
    <3>5. Kept(r, o)
      BY <3>3, <3>4 DEF Kept, Bounded, Lengths, Places, ParsedAreReached, Reached
    <3> QED BY <3>1, <3>3, <3>4, <3>5 DEF Fine
  <2> QED BY <2>1, <2>2
<1> QED BY <1>2, <1>3

\* parseSubSetXml(), parseSubSetJsonRapid() and parseSubSetJsonCons() parse the current
\* subset, and never go past the strings.
LEMMA SubSetParsed ==
  ASSUME NEW s \in SubSets, NEW o \in Orders, Kept(s, o), s.current # 0,
         NEW p \in Parsers, NEW ok \in BOOLEAN
  PROVE LET e == ParseSubSet(s, p, ok) IN
          /\ e.added = 0 /\ e.failed \in {"none", "xml"}
          /\ e.subSet \in SubSets /\ Kept(e.subSet, o)
          /\ \A f \in {"type", "number", "current", "docs"} : e.subSet[f] = s[f]
<1> DEFINE e == ParseSubSet(s, p, ok)
<1>1. CASE OwnParser(s, p) \/ s.parsed[p] # 0 \/ s.error[ErrorOf(p)]
  <2>1. e = Fine(s) BY <1>1 DEF ParseSubSet
  <2> QED BY <2>1 DEF Fine
<1>2. CASE ~(OwnParser(s, p) \/ s.parsed[p] # 0 \/ s.error[ErrorOf(p)])
  <2> DEFINE d == Stringify(s)
  <2>1. /\ d.added = 0 /\ d.failed \in {"none", "xml"}
        /\ d.subSet \in SubSets /\ Kept(d.subSet, o)
        /\ \A f \in {"type", "number", "current", "docs", "parsed"} : d.subSet[f] = s[f]
        /\ d.failed = "none" => Len(d.subSet.strings) = Len(o)
    BY Stringified
  <2>2. e = IF d.failed # "none" THEN d
            ELSE IF Len(d.subSet.strings) < s.current THEN Failed(d.subSet, "range")
            ELSE IF ok THEN Fine([d.subSet EXCEPT !.parsed[p] = d.subSet.strings[s.current]])
            ELSE Fine([d.subSet EXCEPT !.error[ErrorOf(p)] = TRUE])
    BY <1>2 DEF ParseSubSet
  <2> HIDE DEF d, e
  <2>3. CASE d.failed # "none"
    BY <2>1, <2>2, <2>3 DEF e
  <2>4. CASE d.failed = "none"
    <3> DEFINE r == d.subSet
    <3>1. /\ r \in SubSets /\ Kept(r, o) /\ r.type = s.type /\ r.number = s.number
          /\ r.current = s.current /\ r.docs = s.docs /\ Len(r.strings) = Len(o)
      BY <2>1, <2>4
    <3>2. Len(o) \in Nat /\ s.current \in 1 .. Len(o) /\ s.number \in Nat
      BY <3>1, Fields, LenProperties, Bounds DEF Orders, Kept, Bounded
    <3>3. ~(Len(r.strings) < s.current)
      BY <3>1, <3>2
    <3> HIDE DEF r
    <3>4. CASE ok
      <4> DEFINE x == r.strings[s.current]
                 q == [r EXCEPT !.parsed[p] = x]
      <4>1. e = Fine(q) BY <2>2, <2>4, <3>3, <3>4 DEF r
      <4>2. DOMAIN r.strings = 1 .. Len(o) /\ x \in Numbers
        BY <3>1, <3>2, Fields, LenProperties, ElementOfSeq
      <4>3. x \in Reached(r, o)
        BY <3>1, <3>2, <4>2 DEF Kept, Places, Reached
      <4> HIDE DEF x
      <4>4. /\ q \in SubSets /\ q.parsed = [r.parsed EXCEPT ![p] = x] /\ q.strings = r.strings
            /\ q.type = r.type /\ q.number = r.number /\ q.current = r.current /\ q.docs = r.docs
        BY <3>1, <4>2, ParsedUpdated
      <4> HIDE DEF q
      <4>5. r.parsed \in [Parsers -> Numbers] BY <3>1, Fields
      <4>6. ParsedAreReached(q, o)
        BY <3>1, <4>3, <4>4, <4>5 DEF Kept, ParsedAreReached, Reached
      <4>7. Kept(q, o)
        BY <3>1, <4>4, <4>6 DEF Kept, Bounded, Lengths, Places
      <4> QED BY <3>1, <4>1, <4>4, <4>7 DEF Fine, e
    <3>5. CASE ~ok
      <4> DEFINE q == [r EXCEPT !.error[ErrorOf(p)] = TRUE]
      <4>1. e = Fine(q) BY <2>2, <2>4, <3>3, <3>5 DEF r
      <4>2. ErrorOf(p) \in Errors BY DEF ErrorOf, Errors
      <4>3. /\ q \in SubSets /\ q.parsed = r.parsed /\ q.strings = r.strings
            /\ q.type = r.type /\ q.number = r.number /\ q.current = r.current /\ q.docs = r.docs
        BY <3>1, <4>2, ErrorUpdated
      <4> HIDE DEF q
      <4>4. Kept(q, o)
        BY <3>1, <4>3 DEF Kept, Bounded, Lengths, Places, ParsedAreReached, Reached
      <4> QED BY <3>1, <4>1, <4>3, <4>4 DEF Fine, e
    <3> QED BY <3>4, <3>5
  <2> QED BY <2>3, <2>4
<1> QED BY <1>1, <1>2

\* What a query works on has been reached.
LEMMA DocumentIsReached ==
  ASSUME NEW s \in SubSets, NEW o \in Orders, Kept(s, o), s.current # 0, NEW p \in Parsers
  PROVE Document(s, p) \in Reached(s, o)
<1>1. Len(o) \in Nat /\ s.current \in 1 .. Len(o)
  BY Fields, LenProperties, Bounds DEF Orders, Kept, Bounded
<1>2. CASE ~OwnParser(s, p)
  BY <1>2 DEF Document, Kept, ParsedAreReached
<1>3. CASE OwnParser(s, p)
  <2>1. s.type \in DocumentTypes /\ DOMAIN s.docs[s.type] = 1 .. Len(o)
    <3>1. s.type \in DocumentTypes BY <1>3 DEF OwnParser
    <3>2. s.docs[s.type] \in Seq(Numbers) /\ Len(s.docs[s.type]) = Len(o)
      BY <3>1, Fields DEF Kept, Lengths
    <3> QED BY <3>1, <3>2, LenProperties
  <2>2. s.docs[s.type][s.current] \in Reached(s, o)
    BY <1>1, <2>1 DEF Kept, Places, Reached
  <2>3. Document(s, p) \in {0, s.docs[s.type][s.current]}
    BY <1>3 DEF Document
  <2> QED BY <2>2, <2>3 DEF Reached
<1> QED BY <1>2, <1>3
-----------------------------------------------------------------------------
(* Inserting subsets.                                                       *)

LEMMA NumberUpdated ==
  ASSUME NEW s \in SubSets, NEW k \in 0 .. MaxSubSets
  PROVE /\ [s EXCEPT !.number = k] \in SubSets
        /\ [s EXCEPT !.number = k].number = k
        /\ \A f \in {"type", "current", "docs", "strings", "parsed", "error"} :
             [s EXCEPT !.number = k][f] = s[f]
BY DEF SubSets

LEMMA DocsUpdated ==
  ASSUME NEW s \in SubSets, NEW t \in DocumentTypes, NEW x \in Seq(Numbers)
  PROVE /\ [s EXCEPT !.docs[t] = x] \in SubSets
        /\ [s EXCEPT !.docs[t] = x].docs = [s.docs EXCEPT ![t] = x]
        /\ \A f \in {"type", "number", "current", "strings", "parsed", "error"} :
             [s EXCEPT !.docs[t] = x][f] = s[f]
BY DEF SubSets

LEMMA NoDocs == NoSubSets.docs = [t \in DocumentTypes |-> <<>>]
BY DEF NoSubSets

LEMMA StringsOnly ==
  ASSUME NEW s \in SubSets, NEW x \in Seq(Numbers)
  PROVE LET r == [s EXCEPT !.strings = x, !.docs = NoSubSets.docs, !.type = "regex"] IN
          /\ r \in SubSets /\ r.strings = x /\ r.docs = NoSubSets.docs /\ r.type = "regex"
          /\ r.number = s.number /\ r.current = s.current /\ r.parsed = s.parsed
<1>1. <<>> \in Seq(Numbers) BY EmptySeq
<1>2. NoSubSets.docs \in [DocumentTypes -> Seq(Numbers)] BY <1>1, NoDocs
<1> QED BY <1>2 DEF SubSets

\* The new subsets and what stands for them are inserted at the same positions.
LEMMA InsertedInPlace ==
  ASSUME order \in Orders, NEW n \in Nat, Len(order) + n <= MaxSubSets,
         NEW at \in 1 .. Len(order),
         NEW x \in Seq(Numbers), Len(x) = Len(order), \A i \in DOMAIN x : x[i] \in {order[i], Lost},
         NEW y \in Seq(Numbers), Len(y) = n, \A i \in DOMAIN y : y[i] \in {New(n)[i], Lost}
  PROVE LET m == MoveInto(x, y, at)  o == Behind(at, New(n)) IN
          /\ m \in Seq(Numbers) /\ Len(m) = Len(o)
          /\ \A i \in DOMAIN m : m[i] \in {o[i], Lost}
          /\ (\A i \in DOMAIN x : i >= at => x[i] = order[i]) /\ y = New(n)
               => \A i \in DOMAIN m : i >= at => m[i] = o[i]
<1> DEFINE m == MoveInto(x, y, at)
           new == New(n)
           o == Behind(at, new)
<1>1. new \in Seq(1 .. MaxSubSets) /\ Len(new) = n
  BY NewOnes DEF Orders
<1>2. Len(order) \in Nat /\ DOMAIN x = 1 .. Len(order) /\ DOMAIN y = 1 .. n
  BY LenProperties DEF Orders
<1>3. /\ m \in Seq(Numbers) /\ Len(m) = Len(order) + n
      /\ \A i \in 1 .. Len(order) + n :
           m[i] = IF i <= at THEN x[i] ELSE IF i <= at + n THEN y[i - at] ELSE x[i - n]
  <2>1. at \in 0 .. Len(x) BY <1>2
  <2>2. /\ m \in Seq(Numbers) /\ Len(m) = Len(x) + Len(y)
        /\ \A i \in 1 .. Len(x) + Len(y) :
             m[i] = IF i <= at THEN x[i]
                    ELSE IF i <= at + Len(y) THEN y[i - at] ELSE x[i - Len(y)]
    <3>1. x \in Seq(Numbers) /\ y \in Seq(Numbers) OBVIOUS
    <3> QED BY ONLY <2>1, <3>1, MovedInto DEF m
  <2> HIDE DEF m
  <2> QED BY <2>2
<1> HIDE DEF m, new
<1>4. /\ Len(o) = Len(order) + n
      /\ \A i \in 1 .. Len(order) + n :
           o[i] = IF i <= at THEN order[i] ELSE IF i <= at + n THEN new[i - at] ELSE order[i - n]
  <2>1. at \in 0 .. Len(order) BY <1>2
  <2>2. /\ Len(o) = Len(order) + Len(new)
        /\ \A i \in 1 .. Len(order) + Len(new) :
             o[i] = IF i <= at THEN order[i]
                    ELSE IF i <= at + Len(new) THEN new[i - at] ELSE order[i - Len(new)]
    BY <1>1, <2>1, BehindIs DEF Orders
  <2> HIDE DEF o
  <2> QED BY <1>1, <2>2
<1> HIDE DEF o
<1>5. DOMAIN m = 1 .. Len(order) + n
  BY <1>3, LenProperties
<1>6. \A i \in DOMAIN y : y[i] \in {new[i], Lost}
  BY DEF new
<1>7. ASSUME NEW i \in 1 .. Len(order) + n
      PROVE /\ m[i] \in {o[i], Lost}
            /\ (\A j \in DOMAIN x : j >= at => x[j] = order[j]) /\ y = new /\ i >= at
                 => m[i] = o[i]
  <2>1. CASE i <= at
    BY <1>2, <1>3, <1>4, <2>1
  <2>2. CASE at < i /\ i <= at + n
    <3>1. i - at \in 1 .. n BY <1>2, <2>2
    <3>2. m[i] = y[i - at] /\ o[i] = new[i - at] BY <1>2, <1>3, <1>4, <2>2
    <3> QED BY <1>2, <1>6, <3>1, <3>2
  <2>3. CASE at + n < i
    <3>1. i - n \in 1 .. Len(order) /\ i - n >= at BY <1>2, <2>3
    <3>2. ~(i <= at) /\ ~(i <= at + n) BY <1>2, <2>3
    <3>3. m[i] = x[i - n] /\ o[i] = order[i - n] BY <1>3, <1>4, <3>2
    <3> QED BY <1>2, <3>1, <3>3
  <2>4. i <= at \/ (at < i /\ i <= at + n) \/ at + n < i
    BY <1>2
  <2> QED BY <2>1, <2>2, <2>3, <2>4
<1> QED BY <1>3, <1>4, <1>5, <1>7 DEF m, o, new

\* insertSubSets() counts the new subsets, and inserts them and their strings behind the
\* current one, or has failed.
LEMMA Inserted ==
  ASSUME NEW s \in SubSets, order \in Orders, Kept(s, order), s.current # 0,
         NEW n \in Nat, Len(order) + n <= MaxSubSets, NEW t \in {"regex"} \cup DocumentTypes
  PROVE LET e == InsertSubSets(s, t, New(n))  o == Behind(s.current, New(n)) IN
          /\ e.failed \in {"none", "xml", "undefined"}
          /\ e.subSet \in SubSets
          /\ e.subSet.current = s.current /\ e.subSet.number = s.number + n
          /\ Bounded(e.subSet, o) /\ ParsedAreReached(e.subSet, o)
          /\ e.failed = "none" => Lengths(e.subSet, o) /\ Places(e.subSet, o)
<1> DEFINE new == New(n)
           at == s.current
           o == Behind(at, new)
           c == [s EXCEPT !.number = @ + Len(new)]
           freed == [i \in DOMAIN new |-> Lost]
           e == InsertSubSets(s, t, new)
<1>1. new \in Seq(1 .. MaxSubSets) /\ Len(new) = n /\ DOMAIN new = 1 .. n
  BY NewOnes, LenProperties DEF Orders
<1>2. /\ Len(order) \in Nat /\ at \in 1 .. Len(order) /\ s.number \in Nat
      /\ s.number + n \in 0 .. MaxSubSets
  BY Fields, LenProperties, Bounds DEF Orders, Kept, Bounded
<1>3. /\ Len(o) = Len(order) + n
      /\ \A i \in 1 .. at : o[i] = order[i]
  <2>1. at \in 0 .. Len(order) BY <1>2
  <2> HIDE DEF new
  <2>2. /\ Len(o) = Len(order) + Len(new)
        /\ \A i \in 1 .. Len(order) + Len(new) :
             o[i] = IF i <= at THEN order[i]
                    ELSE IF i <= at + Len(new) THEN new[i - at] ELSE order[i - Len(new)]
    BY <1>1, <2>1, BehindIs DEF Orders
  <2> HIDE DEF o
  <2> QED BY <1>1, <1>2, <2>2
<1>4. /\ c \in SubSets /\ c.number = s.number + n
      /\ c.type = s.type /\ c.current = at /\ c.docs = s.docs /\ c.strings = s.strings
      /\ c.parsed = s.parsed
  <2> HIDE DEF new
  <2> QED BY <1>1, <1>2, NumberUpdated
<1>5. new \in Seq(Numbers)
  <2>1. \A i \in 1 .. n : new[i] \in Numbers
    BY <1>1, ElementOfSeq, Bounds DEF Numbers, Lost
  <2> HIDE DEF new
  <2>2. new \in [1 .. n -> Numbers] BY <1>1, <2>1, LenProperties
  <2> QED BY <2>2, Listed
<1>6. freed \in Seq(Numbers) /\ Len(freed) = n /\ \A i \in DOMAIN freed : freed[i] = Lost
  <2>1. freed \in [1 .. n -> Numbers] BY <1>1, Bounds
  <2>2. \A i \in DOMAIN freed : freed[i] = Lost OBVIOUS
  <2> HIDE DEF freed
  <2> QED BY <2>1, <2>2, Listed
<1> HIDE DEF o, c
\* The number and the parsing state do not depend on the kind of results.
<1>7. ASSUME NEW r \in SubSets, r.number = s.number + n, r.current = at, r.parsed = s.parsed
      PROVE Bounded(r, o) /\ ParsedAreReached(r, o)
  <2>1. Bounded(r, o)
    BY <1>2, <1>3, <1>7 DEF Kept, Bounded
  <2>2. Reached(r, o) = Reached(s, order)
    BY <1>2, <1>3, <1>7 DEF Reached
  <2> QED BY <1>7, <2>1, <2>2 DEF Kept, ParsedAreReached
<1>8. CASE t = s.type /\ t # "regex"
  <2> DEFINE x == MoveInto(s.docs[t], new, at)
             r == [c EXCEPT !.docs[t] = x]
  <2>1. t \in DocumentTypes /\ s.docs[t] \in Seq(Numbers) /\ Len(s.docs[t]) = Len(order)
    BY <1>8, Fields DEF Kept, Lengths
  <2>2. /\ x \in Seq(Numbers) /\ Len(x) = Len(o)
        /\ \A i \in DOMAIN x : x[i] \in {o[i], Lost}
        /\ \A i \in DOMAIN x : i >= at => x[i] = o[i]
    <3>1. \A i \in DOMAIN s.docs[t] : /\ s.docs[t][i] \in {order[i], Lost}
                                      /\ i >= at => s.docs[t][i] = order[i]
      BY <2>1 DEF Kept, Places
    <3> DEFINE w == s.docs[t]
    <3>2. \A i \in DOMAIN w : w[i] \in {order[i], Lost} BY <3>1
    <3>3. \A i \in DOMAIN w : i >= at => w[i] = order[i] BY <3>1
    <3>4. w \in Seq(Numbers) /\ Len(w) = Len(order) BY <2>1
    <3>5. x = MoveInto(w, New(n), at) OBVIOUS
    <3>6. \A i \in DOMAIN New(n) : New(n)[i] \in {New(n)[i], Lost} OBVIOUS
    <3> HIDE DEF w, x
    <3>7. /\ MoveInto(w, New(n), at) \in Seq(Numbers)
          /\ Len(MoveInto(w, New(n), at)) = Len(Behind(at, New(n)))
          /\ \A i \in DOMAIN MoveInto(w, New(n), at) :
               MoveInto(w, New(n), at)[i] \in {Behind(at, New(n))[i], Lost}
          /\ \A i \in DOMAIN MoveInto(w, New(n), at) :
               i >= at => MoveInto(w, New(n), at)[i] = Behind(at, New(n))[i]
      BY <1>1, <1>2, <1>5, <3>2, <3>3, <3>4, <3>6, InsertedInPlace
    <3> QED BY <3>5, <3>7 DEF o
  <2> HIDE DEF x
  <2>3. /\ r \in SubSets /\ r.docs = [s.docs EXCEPT ![t] = x]
        /\ r.type = s.type /\ r.number = s.number + n /\ r.current = at
        /\ r.strings = s.strings /\ r.parsed = s.parsed
    BY <1>4, <2>1, <2>2, DocsUpdated
  <2>4. e = IF s.strings = <<>> THEN Fine(r)
            ELSE IF t = "xpath" THEN Failed(r, "xml")
            ELSE Fine([r EXCEPT !.strings = MoveInto(s.strings, freed, at)])
    <3>1. r.strings = s.strings /\ r.current = s.current /\ c.docs = s.docs BY <1>4, <2>3
    <3>2. r = [c EXCEPT !.docs[t] = MoveInto(@, new, s.current)]
      BY <1>4, <2>1, Fields DEF x, SubSets
    <3> HIDE DEF r, freed
    <3> QED BY <1>8, <3>1, <3>2 DEF InsertSubSets, c, freed
  <2> HIDE DEF r, freed, e
  <2>5. /\ \A u \in DocumentTypes : Len(r.docs[u]) = IF u = r.type THEN Len(o) ELSE 0
        /\ \A u \in DocumentTypes : \A i \in DOMAIN r.docs[u] :
             r.docs[u][i] \in {o[i], Lost} /\ (i >= at => r.docs[u][i] = o[i])
    <3>1. ASSUME NEW u \in DocumentTypes, u # t
          PROVE r.docs[u] = s.docs[u] /\ Len(r.docs[u]) = 0 /\ DOMAIN r.docs[u] = {}
      <4>1. s.docs[u] \in Seq(Numbers) /\ r.docs[u] = s.docs[u] BY <2>3, <3>1, Fields
      <4>2. Len(s.docs[u]) = 0 BY <1>8, <3>1 DEF Kept, Lengths
      <4> QED BY <4>1, <4>2, LenProperties
    <3>2. r.docs[t] = x BY <2>1, <2>3, Fields
    <3> QED BY <1>8, <2>2, <2>3, <3>1, <3>2
  <2>6. CASE s.strings = <<>>
    <3>1. Len(r.strings) = 0 BY <2>3, <2>6, EmptySeq
    <3>2. DOMAIN r.strings = {} BY <2>3, <3>1, Fields, LenProperties
    <3>3. Lengths(r, o) /\ Places(r, o)
      BY <1>8, <2>1, <2>3, <2>5, <3>1, <3>2 DEF Lengths, Places
    <3> QED BY <1>7, <2>3, <2>4, <2>6, <3>3 DEF Fine, e, o
  <2>7. CASE s.strings # <<>> /\ t = "xpath"
    BY <1>7, <2>3, <2>4, <2>7 DEF Failed, e, o
  <2>8. CASE s.strings # <<>> /\ t # "xpath"
    <3> DEFINE z == MoveInto(s.strings, freed, at)
               q == [r EXCEPT !.strings = z]
    <3>1. s.strings \in Seq(Numbers) /\ Len(s.strings) = Len(order)
      <4>1. s.strings \in Seq(Numbers) /\ Len(s.strings) # 0 BY <2>8, Fields, EmptySeq
      <4> QED BY <4>1 DEF Kept, Lengths
    <3>2. /\ z \in Seq(Numbers) /\ Len(z) = Len(o)
          /\ \A i \in DOMAIN z : z[i] \in {o[i], Lost}
      <4>1. \A i \in DOMAIN s.strings : s.strings[i] \in {order[i], Lost}
        BY DEF Kept, Places
      <4>2. \A i \in DOMAIN freed : freed[i] \in {New(n)[i], Lost} BY <1>6
      <4> QED BY <1>2, <1>6, <3>1, <4>1, <4>2, InsertedInPlace DEF o
    <3> HIDE DEF z
    <3>3. /\ q \in SubSets /\ q.strings = z /\ q.docs = r.docs /\ q.type = r.type
          /\ q.number = s.number + n /\ q.current = at /\ q.parsed = s.parsed
      BY <2>3, <3>2, StringsUpdated
    <3>4. e = Fine(q) BY <2>4, <2>8 DEF z
    <3> HIDE DEF q
    <3>5. Lengths(q, o) /\ Places(q, o)
      BY <1>8, <2>1, <2>3, <2>5, <3>2, <3>3 DEF Lengths, Places
    <3> QED BY <1>7, <3>3, <3>4, <3>5 DEF Fine, e, o
  <2> QED BY <2>6, <2>7, <2>8
<1>9. CASE ~(t = s.type /\ t # "regex")
  <2>1. CASE Len(s.strings) < at
    <3>1. e = Failed(c, "undefined")
      BY <1>9, <2>1 DEF InsertSubSets, c
    <3> HIDE DEF e
    <3> QED BY <1>4, <1>7, <3>1 DEF Failed, e, o
  <2>2. CASE ~(Len(s.strings) < at)
    <3> DEFINE z == MoveInto(s.strings, new, at)
               q == [c EXCEPT !.strings = z, !.docs = NoSubSets.docs, !.type = "regex"]
    <3>1. s.strings \in Seq(Numbers) /\ Len(s.strings) = Len(order)
      BY <1>2, <2>2, Fields DEF Kept, Lengths
    <3>2. /\ z \in Seq(Numbers) /\ Len(z) = Len(o)
          /\ \A i \in DOMAIN z : z[i] \in {o[i], Lost}
      <4>1. \A i \in DOMAIN s.strings : s.strings[i] \in {order[i], Lost}
        BY DEF Kept, Places
      <4> QED BY <1>1, <1>2, <1>5, <3>1, <4>1, InsertedInPlace DEF o
    <3>3. e = Fine(q)
      <4>1. q = [c EXCEPT !.strings = MoveInto(@, new, s.current), !.docs = NoSubSets.docs,
                          !.type = "regex"]
        BY <1>4
      <4> HIDE DEF q, z
      <4> QED BY <1>9, <2>2, <4>1 DEF InsertSubSets, c
    <3> HIDE DEF z
    <3>4. /\ q \in SubSets /\ q.strings = z /\ q.docs = NoSubSets.docs /\ q.type = "regex"
          /\ q.number = s.number + n /\ q.current = at /\ q.parsed = s.parsed
      BY <1>4, <3>2, StringsOnly
    <3> HIDE DEF q
    <3>5. \A u \in DocumentTypes : Len(q.docs[u]) = 0 /\ DOMAIN q.docs[u] = {} /\ u # "regex"
      <4>1. \A u \in DocumentTypes : q.docs[u] = <<>> BY <3>4, NoDocs
      <4>2. Len(<<>>) = 0 /\ DOMAIN <<>> = {} BY EmptySeq
      <4> QED BY <4>1, <4>2 DEF DocumentTypes
    <3>6. Lengths(q, o) /\ Places(q, o)
      BY <3>2, <3>4, <3>5 DEF Lengths, Places
    <3> QED BY <1>7, <3>3, <3>4, <3>6 DEF Fine, e, o
  <2> QED BY <2>1, <2>2
<1> QED BY <1>8, <1>9
-----------------------------------------------------------------------------
(* Queries for more subsets on the current one.                             *)

\* The subsets while a query is executed on the current one: nothing has been added yet.
Untouched(d) ==
  /\ d.added = 0 /\ d.failed \in {"none", "xml", "range"}
  /\ d.subSet \in SubSets /\ Kept(d.subSet, order)
  /\ d.subSet.number = subSet.number /\ d.subSet.current = subSet.current

\* Afterwards: the new subsets are there and counted, behind the current one, or the query
\* has failed.
Grown(e) ==
  LET o == Behind(subSet.current, New(e.added)) IN
    /\ e.failed \in {"none", "range", "xml", "undefined"}
    /\ e.subSet \in SubSets /\ e.subSet.current = subSet.current
    /\ e.subSet.number = subSet.number + e.added
    /\ o \in Orders /\ Len(o) = Len(order) + e.added
    /\ \A i \in 1 .. subSet.current : o[i] = order[i]
    /\ Bounded(e.subSet, o) /\ ParsedAreReached(e.subSet, o)
    /\ e.failed = "none" => Lengths(e.subSet, o) /\ Places(e.subSet, o)

LEMMA ParsersOfQueries ==
  ASSUME NEW q \in Queries
  PROVE /\ q # "regex" => Parser[q] \in Parsers
        /\ ResultType[q] \in {"regex"} \cup DocumentTypes
        /\ q \in DocumentTypes => ResultType[q] = q
BY DEF Queries, DocumentTypes, Joined, Parser, Parsers, ResultType

LEMMA UntouchedHasNotGrown ==
  ASSUME subSet \in SubSets, order \in Orders, Kept(subSet, order), NEW d, Untouched(d)
  PROVE Grown(d)
<1>1. subSet.number \in Nat /\ Len(order) \in Nat /\ subSet.current \in 0 .. Len(order)
  BY Fields, LenProperties, Bounds DEF Orders, Kept, Bounded
<1>2. Behind(subSet.current, New(0)) = order
  BY <1>1, NothingBehind DEF Orders
<1> QED BY <1>1, <1>2 DEF Untouched, Grown, Kept

LEMMA SubSetsAdded ==
  ASSUME subSet \in SubSets, order \in Orders, Kept(subSet, order), subSet.current # 0,
         NEW q \in Queries, NEW ok \in BOOLEAN, NEW n \in 0 .. MaxResults,
         Len(order) + n <= MaxSubSets
  PROVE Grown(AddSubSets(q, ok, n))
<1> DEFINE p == IF q = "path" THEN "rapid" ELSE Parser[q]
           e == IF q = "regex" THEN Stringify(subSet) ELSE ParseSubSet(subSet, p, ok)
           range == q = "regex" /\ Len(e.subSet.strings) < subSet.current
           parsed == q = "regex" \/ Document(e.subSet, p) # 0
           found == parsed /\ (q = "path" => Document(e.subSet, "cons") # 0)
           f == IF q \in Joined /\ found /\ ok THEN Stringify(e.subSet) ELSE e
           t == ResultType[q]
           g == InsertSubSets(f.subSet, t, New(n))
           result == AddSubSets(q, ok, n)
<1>1. result = IF e.failed # "none" THEN e
               ELSE IF range THEN Failed(e.subSet, "range")
               ELSE IF f.failed # "none" THEN f
               ELSE IF ~found \/ n = 0 THEN f
               ELSE [g EXCEPT !.added = n]
  BY DEF AddSubSets
<1>2. Untouched(e)
  <2>1. CASE q = "regex"
    BY <2>1, Stringified DEF Untouched
  <2>2. CASE q # "regex"
    <3>1. p \in Parsers BY <2>2, ParsersOfQueries DEF Parsers
    <3> HIDE DEF p
    <3> QED BY <2>2, <3>1, SubSetParsed DEF Untouched
  <2> QED BY <2>1, <2>2
<1> HIDE DEF e
<1>3. Untouched(f)
  BY <1>2, Stringified DEF Untouched
<1>4. Untouched(Failed(e.subSet, "range"))
  BY <1>2 DEF Untouched, Failed
<1> HIDE DEF f, range, found
<1>5. CASE ~(result = [g EXCEPT !.added = n] /\ f.failed = "none")
  <2>1. result \in {e, f, Failed(e.subSet, "range")} BY <1>1, <1>5
  <2> HIDE DEF result
  <2> QED BY <1>2, <1>3, <1>4, <2>1, UntouchedHasNotGrown DEF result
<1>6. CASE result = [g EXCEPT !.added = n] /\ f.failed = "none"
  <2> DEFINE s == f.subSet
             o == Behind(subSet.current, New(n))
  <2>1. s \in SubSets /\ Kept(s, order) /\ s.current = subSet.current /\ s.number = subSet.number
    BY <1>3 DEF Untouched
  <2>2. n \in Nat /\ t \in {"regex"} \cup DocumentTypes
    BY BoundsAssumption, ParsersOfQueries
  <2> HIDE DEF s, t
  <2>3. /\ g.failed \in {"none", "xml", "undefined"}
        /\ g.subSet \in SubSets
        /\ g.subSet.current = subSet.current /\ g.subSet.number = subSet.number + n
        /\ Bounded(g.subSet, o) /\ ParsedAreReached(g.subSet, o)
        /\ g.failed = "none" => Lengths(g.subSet, o) /\ Places(g.subSet, o)
    <3>1. g = InsertSubSets(s, t, New(n)) BY DEF s
    <3> HIDE DEF g
    <3> QED BY <2>1, <2>2, <3>1, Inserted
  <2>4. \E x, y, z : g = [subSet |-> x, failed |-> y, added |-> z]
    BY DEF InsertSubSets, Fine, Failed
  <2> HIDE DEF g
  <2>5. result.subSet = g.subSet /\ result.failed = g.failed /\ result.added = n
    BY <1>6, <2>4
  <2>6. o \in Orders /\ Len(o) = Len(order) + n /\ \A i \in 1 .. subSet.current : o[i] = order[i]
    <3>1. New(n) \in Seq(1 .. MaxSubSets) /\ Len(New(n)) = n
      BY <2>2, NewOnes DEF Orders
    <3>2. Len(order) \in Nat /\ subSet.current \in 0 .. Len(order)
      BY Fields, LenProperties, Bounds DEF Orders, Kept, Bounded
    <3> DEFINE new == New(n)
    <3> HIDE DEF new
    <3>3. /\ Behind(subSet.current, new) \in Orders
          /\ Len(Behind(subSet.current, new)) = Len(order) + Len(new)
          /\ \A i \in 1 .. Len(order) + Len(new) :
               Behind(subSet.current, new)[i] =
                 IF i <= subSet.current THEN order[i]
                 ELSE IF i <= subSet.current + Len(new) THEN new[i - subSet.current]
                 ELSE order[i - Len(new)]
      BY <3>1, <3>2, BehindIs DEF Orders, new
    <3>4. o = Behind(subSet.current, new) /\ Len(new) = n BY <3>1 DEF new
    <3> HIDE DEF o
    <3> QED BY <2>2, <3>2, <3>3, <3>4
  <2> HIDE DEF result
  <2> QED BY <2>3, <2>5, <2>6 DEF Grown, result
<1> QED BY <1>5, <1>6
-----------------------------------------------------------------------------
(* The actions.                                                             *)

\* The part of the invariant that is about the content.
ContentInv ==
  /\ target \in Targets \cup {0}
  /\ doc \in [Parsers -> Targets \cup {0}] /\ docError \in [Errors -> BOOLEAN]
  /\ ParsedContentIsTheTarget

\* The part that is about the subsets.
SubSetInv ==
  /\ subSet \in SubSets /\ order \in Orders /\ made \in Queries
  /\ thrown \in {"none", "container", "range", "xml", "undefined"}
  /\ Bounded(subSet, order) /\ ParsedAreReached(subSet, order)
  /\ SubSetsAreCounted
  /\ thrown = "none" => Lengths(subSet, order) /\ Places(subSet, order)

\* The part that is about what a query has worked on.
SeenInv ==
  /\ seen \in Numbers \X Numbers
  /\ NothingWithoutTarget
  /\ QueriesUseVisitedSubSets

LEMMA InvParts == ContainerInv <=> ContentInv /\ SubSetInv /\ SeenInv
BY DEF ContainerInv, ContentInv, SubSetInv, SeenInv, TypeOK, Orders

LEMMA PartsNext == ContentInv' /\ SubSetInv' /\ SeenInv' => ContainerInv'
BY DEF ContainerInv, ContentInv, SubSetInv, SeenInv, TypeOK, Orders

LEMMA NothingKept ==
  /\ NoSubSets \in SubSets /\ <<>> \in Orders
  /\ Kept(NoSubSets, <<>>) /\ NoSubSets.number = 0 /\ Len(<<>>) = 0
<1>1. <<>> \in Seq(Numbers) /\ <<>> \in Orders /\ Len(<<>>) = 0
  BY EmptySeq DEF Orders
<1>2. NoSubSets \in SubSets
  BY <1>1, Bounds DEF NoSubSets, SubSets, Nothing, NoErrors
<1>3. \A i \in DOMAIN <<>> : FALSE
  BY <1>1, LenProperties
<1>4. Bounded(NoSubSets, <<>>)
  BY <1>1 DEF NoSubSets, Bounded
<1>5. Lengths(NoSubSets, <<>>) /\ Places(NoSubSets, <<>>)
  BY <1>1, <1>3 DEF NoSubSets, Lengths, Places, DocumentTypes
<1>6. ParsedAreReached(NoSubSets, <<>>)
  BY DEF NoSubSets, Nothing, ParsedAreReached, Reached
<1> QED BY <1>1, <1>2, <1>4, <1>5, <1>6 DEF Kept, NoSubSets

\* What a query for subsets has found, in the order it has found it.
LEMMA FilledKept ==
  ASSUME NEW q \in Queries, NEW found \in Orders, Len(found) <= MaxSubSets
  PROVE /\ Filled(q, found) \in SubSets /\ Kept(Filled(q, found), found)
        /\ q \notin Joined => Filled(q, found).number = Len(found)
<1> DEFINE r == Filled(q, found)
           t == ResultType[q]
           k == IF q \in Joined THEN 0 ELSE Len(found)
<1>1. /\ Len(found) \in 0 .. MaxSubSets /\ DOMAIN found = 1 .. Len(found)
      /\ \A i \in DOMAIN found : found[i] \in 1 .. MaxSubSets
  BY LenProperties, ElementOfSeq, Bounds DEF Orders
<1>2. found \in Seq(Numbers)
  <2>1. \A i \in 1 .. Len(found) : found[i] \in Numbers
    BY <1>1, Bounds DEF Numbers, Lost
  <2>2. found \in [1 .. Len(found) -> Numbers] BY <1>1, <2>1, LenProperties DEF Orders
  <2>3. Len(found) \in Nat BY <1>1
  <2> QED BY <2>2, <2>3, Listed
<1>3. k \in 0 .. MaxSubSets /\ k <= Len(found) /\ k \in Nat
  BY <1>1, Bounds
<1>4. /\ NoSubSets.parsed = Nothing /\ NoSubSets.current = 0 /\ NoSubSets.strings = <<>>
      /\ NoSubSets.type = "none" /\ \A u \in DocumentTypes : NoSubSets.docs[u] = <<>>
  BY DEF NoSubSets
<1>5. Len(<<>>) = 0 /\ DOMAIN <<>> = {}
  BY EmptySeq
<1>6. CASE q = "regex"
  <2>1. r = [[NoSubSets EXCEPT !.strings = found] EXCEPT !.number = Len(found)]
    BY <1>6 DEF Filled, NoSubSets
  <2>2. /\ r \in SubSets /\ r.strings = found /\ r.number = Len(found)
        /\ r.current = 0 /\ r.parsed = Nothing /\ r.type = "none" /\ r.docs = NoSubSets.docs
    <3> DEFINE a == [NoSubSets EXCEPT !.strings = found]
    <3>1. /\ a \in SubSets /\ a.strings = found /\ a.current = 0 /\ a.parsed = Nothing
          /\ a.type = "none" /\ a.docs = NoSubSets.docs
      BY <1>2, <1>4, NothingKept, StringsUpdated
    <3>2. r = [a EXCEPT !.number = Len(found)] BY <2>1
    <3> HIDE DEF a, r
    <3> QED BY <1>1, <3>1, <3>2, NumberUpdated
  <2> HIDE DEF r
  <2>3. Lengths(r, found) /\ Places(r, found)
    BY <1>4, <1>5, <2>2 DEF Lengths, Places, DocumentTypes
  <2>4. Bounded(r, found) /\ ParsedAreReached(r, found)
    BY <1>1, <2>2 DEF Bounded, ParsedAreReached, Reached, Nothing
  <2> QED BY <2>2, <2>3, <2>4 DEF Kept, r
<1>7. CASE q # "regex"
  <2>1. t \in DocumentTypes
    BY <1>7 DEF Queries, DocumentTypes, Joined, ResultType
  <2> DEFINE a == [NoSubSets EXCEPT !.docs[t] = found]
             b == [a EXCEPT !.number = k]
  <2>2. r = [b EXCEPT !.type = t]
    <3> HIDE DEF t, k
    <3>1. r = [NoSubSets EXCEPT !.type = t, !.docs[t] = found, !.number = k]
      BY <1>7 DEF Filled, t, k
    <3> HIDE DEF r
    <3> QED BY <3>1 DEF NoSubSets
  <2> HIDE DEF t, k
  <2>3. /\ a \in SubSets /\ a.docs = [NoSubSets.docs EXCEPT ![t] = found] /\ a.current = 0
        /\ a.parsed = Nothing /\ a.strings = <<>>
    BY <1>2, <1>4, <2>1, NothingKept, DocsUpdated
  <2> HIDE DEF a
  <2>4. /\ b \in SubSets /\ b.docs = a.docs /\ b.current = 0 /\ b.number = k
        /\ b.parsed = Nothing /\ b.strings = <<>>
    BY <1>3, <2>3, NumberUpdated
  <2> HIDE DEF b
  <2>5. /\ r \in SubSets /\ r.docs = a.docs /\ r.current = 0 /\ r.number = k /\ r.type = t
        /\ r.parsed = Nothing /\ r.strings = <<>>
    BY <2>1, <2>2, <2>4 DEF SubSets
  <2> HIDE DEF r
  <2>6. \A u \in DocumentTypes : r.docs[u] = IF u = t THEN found ELSE <<>>
    <3>1. NoSubSets.docs \in [DocumentTypes -> Seq(Numbers)] BY NothingKept, Fields
    <3> QED BY <1>4, <2>1, <2>3, <2>5, <3>1
  <2>7. Lengths(r, found)
    BY <1>5, <2>1, <2>5, <2>6 DEF Lengths
  <2>8. Places(r, found)
    BY <1>5, <2>5, <2>6 DEF Places
  <2>9. Bounded(r, found) /\ ParsedAreReached(r, found)
    BY <1>3, <2>5 DEF Bounded, ParsedAreReached, Reached, Nothing
  <2>10. q \notin Joined => r.number = Len(found)
    BY <2>5 DEF k
  <2> QED BY <2>5, <2>7, <2>8, <2>9, <2>10 DEF Kept, r
<1> QED BY <1>6, <1>7

\* A new target, or none: everything begins anew.
LEMMA TargetStep ==
  ASSUME ContainerInv, NEW t \in Targets \cup {0}, SetTarget(t)
  PROVE ContainerInv'
<1> USE DEF SetTarget
<1>1. ContentInv'
  BY DEF ContentInv, ParsedContentIsTheTarget, Nothing, NoErrors
<1>2. SubSetInv'
  <2>1. made' \in Queries /\ thrown' = "none" BY DEF Queries
  <2> QED BY <2>1, NothingKept DEF SubSetInv, Kept, SubSetsAreCounted
<1>3. SeenInv'
  BY Bounds DEF SeenInv, NothingWithoutTarget, QueriesUseVisitedSubSets
<1> QED BY <1>1, <1>2, <1>3, PartsNext

\* Parsing keeps what has been parsed, or parses the target.
LEMMA ContentParsed ==
  ASSUME ContentInv, NEW p \in Parsers, NEW ok \in BOOLEAN, ParseContent(p, ok), target' = target
  PROVE ContentInv'
<1>1. ErrorOf(p) \in Errors BY DEF ErrorOf, Errors
<1> QED BY <1>1 DEF ContentInv, ParseContent, ParsedContentIsTheTarget

\* A call that has thrown before it did anything.
LEMMA ThrowStep ==
  ASSUME ContainerInv, NEW what \in {"none", "container", "range", "xml", "undefined"},
         what # "none", Throw(what)
  PROVE ContainerInv'
<1> USE DEF Throw, content
<1>1. ContentInv' BY InvParts DEF ContentInv, ParsedContentIsTheTarget
<1>2. SubSetInv'
  BY InvParts DEF SubSetInv, SubSetsAreCounted, Bounded, ParsedAreReached, Reached
<1>3. SeenInv'
  BY InvParts DEF SeenInv, NothingWithoutTarget, QueriesUseVisitedSubSets
<1> QED BY <1>1, <1>2, <1>3, PartsNext

LEMMA QueryContentStep ==
  ASSUME ContainerInv, NEW q \in Queries, QueryContent(q)
  PROVE ContainerInv'
<1>1. CASE target = 0 /\ Throw("container")
  BY <1>1, ThrowStep
<1>2. CASE /\ q # "regex" /\ \E ok \in BOOLEAN : ParseContent(Parser[q], ok)
           /\ UNCHANGED <<target, subSet, thrown, order, made, seen>>
  <2>1. ContentInv' BY <1>2, InvParts, ParsersOfQueries, ContentParsed
  <2>2. SubSetInv'
    BY <1>2, InvParts
       DEF SubSetInv, SubSetsAreCounted, Bounded, ParsedAreReached, Reached, Lengths, Places
  <2>3. SeenInv'
    BY <1>2, InvParts DEF SeenInv, NothingWithoutTarget, QueriesUseVisitedSubSets
  <2> QED BY <2>1, <2>2, <2>3, PartsNext
<1> QED BY <1>1, <1>2 DEF QueryContent

LEMMA SetSubSetsStep ==
  ASSUME ContainerInv, NEW q \in Queries, SetSubSetsFromQuery(q)
  PROVE ContainerInv'
<1>1. CASE /\ target = 0 /\ thrown' = "container" /\ subSet' = Filled(q, <<>>)
           /\ UNCHANGED <<content, order, made, seen>>
  <2> USE <1>1 DEF content
  <2>1. ContentInv' BY InvParts DEF ContentInv, ParsedContentIsTheTarget
  <2>2. order = <<>> /\ seen = <<0, 0>> BY InvParts DEF SeenInv, NothingWithoutTarget
  <2>3. subSet' \in SubSets /\ Kept(subSet', <<>>)
    BY NothingKept, FilledKept, Bounds
  <2>4. SubSetInv'
    BY <2>2, <2>3, InvParts DEF SubSetInv, SubSetsAreCounted, Kept
  <2>5. SeenInv'
    BY <2>2, Bounds DEF SeenInv, NothingWithoutTarget, QueriesUseVisitedSubSets
  <2> QED BY <2>1, <2>4, <2>5, PartsNext
<1>2. ASSUME target # 0, NEW ok \in BOOLEAN, NEW n \in 0 .. MaxResults,
             IF q = "regex" THEN UNCHANGED <<doc, docError>> ELSE ParseContent(Parser[q], ok),
             NEW found \in {<<>>, [i \in 1 .. n |-> i]},
             subSet' = Filled(q, found), order' = found, made' = q, seen' = <<0, 0>>,
             UNCHANGED <<target, thrown>>
      PROVE ContainerInv'
  <2>1. ContentInv'
    <3>1. CASE q = "regex"
      BY <1>2, <3>1, InvParts DEF ContentInv, ParsedContentIsTheTarget
    <3>2. CASE q # "regex"
      BY <1>2, <3>2, InvParts, ParsersOfQueries, ContentParsed
    <3> QED BY <3>1, <3>2
  <2>2. found \in Orders /\ Len(found) <= MaxSubSets
    <3>1. n \in Nat /\ n <= MaxSubSets BY BoundsAssumption
    <3>2. [i \in 1 .. n |-> i] \in [1 .. n -> 1 .. MaxSubSets] BY <3>1, Bounds
    <3>3. [i \in 1 .. n |-> i] \in Orders /\ Len([i \in 1 .. n |-> i]) = n
      BY <3>1, <3>2, Listed DEF Orders
    <3> QED BY <3>1, <3>3, NothingKept, Bounds
  <2>3. /\ subSet' \in SubSets /\ Kept(subSet', order')
        /\ q \notin Joined => subSet'.number = Len(order')
    BY <1>2, <2>2, FilledKept
  <2>4. SubSetInv'
    BY <1>2, <2>2, <2>3, InvParts DEF SubSetInv, SubSetsAreCounted, Kept
  <2>5. SeenInv'
    BY <1>2, Bounds DEF SeenInv, NothingWithoutTarget, QueriesUseVisitedSubSets
  <2> QED BY <2>1, <2>4, <2>5, PartsNext
<1>3. CASE target # 0
  <2>1. PICK ok \in BOOLEAN, n \in 0 .. MaxResults :
          /\ IF q = "regex" THEN UNCHANGED <<doc, docError>> ELSE ParseContent(Parser[q], ok)
          /\ LET found == IF q = "regex" \/ doc'[Parser[q]] # 0
                          THEN [i \in 1 .. n |-> i] ELSE <<>>
             IN subSet' = Filled(q, found) /\ order' = found
    BY <1>3 DEF SetSubSetsFromQuery
  <2>2. PICK found \in {<<>>, [i \in 1 .. n |-> i]} : subSet' = Filled(q, found) /\ order' = found
    BY <2>1
  <2>3. made' = q /\ seen' = <<0, 0>> /\ UNCHANGED <<target, thrown>>
    BY <1>3 DEF SetSubSetsFromQuery
  <2> QED BY <1>2, <1>3, <2>1, <2>2, <2>3
<1> QED BY <1>1, <1>3 DEF SetSubSetsFromQuery
\* Going on frees the subset that has been visited, which no query will need again, and
\* keeps all others.
LEMMA Visited ==
  ASSUME NEW s \in SubSets, NEW o \in Orders, Kept(s, o), s.current < s.number
  PROVE LET r == [(IF s.current = 0 THEN s ELSE Free(s)) EXCEPT !.current = @ + 1] IN
          r \in SubSets /\ Kept(r, o) /\ r.number = s.number /\ r.current = s.current + 1
<1> DEFINE f == IF s.current = 0 THEN s ELSE Free(s)
           r == [f EXCEPT !.current = @ + 1]
<1>1. /\ s.number \in Nat /\ s.current \in Nat /\ s.current + 1 \in 0 .. MaxSubSets
      /\ Len(o) \in Nat
  BY Fields, LenProperties, Bounds DEF Orders
<1>2. /\ f \in SubSets /\ f.type = s.type /\ f.number = s.number /\ f.current = s.current
      /\ f.parsed = s.parsed
      /\ Len(f.strings) = Len(s.strings) /\ DOMAIN f.strings = DOMAIN s.strings
      /\ \A i \in DOMAIN s.strings : f.strings[i] \in {s.strings[i], Lost}
      /\ \A t \in DocumentTypes :
           /\ Len(f.docs[t]) = Len(s.docs[t]) /\ DOMAIN f.docs[t] = DOMAIN s.docs[t]
           /\ \A i \in DOMAIN s.docs[t] : f.docs[t][i] = IF i = s.current THEN Lost ELSE s.docs[t][i]
  <2>1. CASE s.current = 0
    <3>1. \A t \in DocumentTypes : \A i \in DOMAIN s.docs[t] : i # 0
      BY Fields, LenProperties
    <3> QED BY <2>1, <3>1
  <2>2. CASE s.current # 0
    <3> DEFINE x == [i \in DOMAIN s.strings |-> IF i = s.current THEN Lost ELSE s.strings[i]]
               y == [t \in DocumentTypes |-> [i \in DOMAIN s.docs[t] |->
                       IF i = s.current THEN Lost ELSE s.docs[t][i]]]
    <3>1. x \in Seq(Numbers) /\ Len(x) = Len(s.strings) /\ DOMAIN x = DOMAIN s.strings
      <4>1. s.strings \in Seq(Numbers) BY Fields
      <4>2. Len(s.strings) \in Nat /\ DOMAIN s.strings = 1 .. Len(s.strings)
        BY <4>1, LenProperties
      <4>3. \A i \in DOMAIN s.strings : s.strings[i] \in Numbers
        BY <4>1, <4>2, ElementOfSeq
      <4>4. x \in [1 .. Len(s.strings) -> Numbers]
        BY <4>2, <4>3, Bounds
      <4> HIDE DEF x
      <4> QED BY <4>2, <4>4, Listed
    <3>2. ASSUME NEW t \in DocumentTypes
          PROVE y[t] \in Seq(Numbers) /\ Len(y[t]) = Len(s.docs[t]) /\ DOMAIN y[t] = DOMAIN s.docs[t]
      <4> DEFINE d == s.docs[t]
                 z == [i \in DOMAIN d |-> IF i = s.current THEN Lost ELSE d[i]]
      <4>1. d \in Seq(Numbers) BY Fields
      <4>2. y[t] = z OBVIOUS
      <4> HIDE DEF d, y
      <4>3. Len(d) \in Nat /\ DOMAIN d = 1 .. Len(d)
        BY <4>1, LenProperties
      <4>4. \A i \in DOMAIN d : d[i] \in Numbers
        BY <4>1, <4>3, ElementOfSeq
      <4>5. z \in [1 .. Len(d) -> Numbers]
        BY <4>3, <4>4, Bounds
      <4> HIDE DEF z
      <4> QED BY <4>2, <4>3, <4>5, Listed DEF d
    <3>3. y \in [DocumentTypes -> Seq(Numbers)]
      <4>1. y = [t \in DocumentTypes |-> y[t]] OBVIOUS
      <4> HIDE DEF y
      <4> QED BY <3>2, <4>1
    <3>4. f = [s EXCEPT !.strings = x, !.docs = y]
      BY <2>2 DEF Free, SubSets
    <3>5. /\ \A i \in DOMAIN s.strings : x[i] \in {s.strings[i], Lost}
          /\ \A t \in DocumentTypes : \A i \in DOMAIN s.docs[t] :
               y[t][i] = IF i = s.current THEN Lost ELSE s.docs[t][i]
      OBVIOUS
    <3> HIDE DEF x, y, f
    <3>6. /\ f \in SubSets /\ f.strings = x /\ f.docs = y
          /\ f.type = s.type /\ f.number = s.number /\ f.current = s.current /\ f.parsed = s.parsed
      BY <3>1, <3>3, <3>4 DEF SubSets
    <3> QED BY <3>1, <3>2, <3>5, <3>6
  <2> QED BY <2>1, <2>2
<1> HIDE DEF f
<1>3. /\ r \in SubSets /\ r.type = s.type /\ r.number = s.number /\ r.current = s.current + 1
      /\ r.parsed = s.parsed /\ r.strings = f.strings /\ r.docs = f.docs
  BY <1>1, <1>2 DEF SubSets
<1> HIDE DEF r
<1>4. Bounded(r, o)
  BY <1>1, <1>3 DEF Kept, Bounded
<1>5. Lengths(r, o)
  BY <1>2, <1>3 DEF Kept, Lengths
<1>6. Places(r, o)
  <2>1. ASSUME NEW t \in DocumentTypes, NEW i \in DOMAIN r.docs[t]
        PROVE r.docs[t][i] \in {o[i], Lost} /\ (i >= r.current => r.docs[t][i] = o[i])
    <3>1. s.docs[t] \in Seq(Numbers) /\ DOMAIN s.docs[t] = DOMAIN r.docs[t]
      BY <1>2, <1>3, Fields
    <3>2. i \in Nat BY <3>1, LenProperties
    <3>3. s.docs[t][i] \in {o[i], Lost} /\ (i >= s.current => s.docs[t][i] = o[i])
      BY <3>1 DEF Kept, Places
    <3> QED BY <1>1, <1>2, <1>3, <3>1, <3>2, <3>3
  <2>2. \A i \in DOMAIN r.strings : r.strings[i] \in {o[i], Lost}
    BY <1>2, <1>3 DEF Kept, Places
  <2> QED BY <2>1, <2>2 DEF Places
<1>7. ParsedAreReached(r, o)
  BY <1>1, <1>3 DEF Kept, ParsedAreReached, Reached
<1> QED BY <1>3, <1>4, <1>5, <1>6, <1>7 DEF Kept, r, f

LEMMA NextSubSetStep ==
  ASSUME ContainerInv, NextSubSet
  PROVE ContainerInv'
<1>1. CASE Throw("container") \/ Throw("range")
  BY <1>1, ThrowStep
<1>2. CASE /\ subSet.current < subSet.number
           /\ subSet' = [(IF subSet.current = 0 THEN subSet ELSE Free(subSet))
                           EXCEPT !.current = @ + 1]
           /\ seen' = <<0, 0>> /\ UNCHANGED <<content, thrown, order, made>>
  <2>1. subSet \in SubSets /\ order \in Orders /\ Kept(subSet, order)
    BY InvParts DEF NextSubSet, MayCall, SubSetInv, Kept
  <2>2. subSet' \in SubSets /\ Kept(subSet', order) /\ subSet'.number = subSet.number
    BY <1>2, <2>1, Visited
  <2>3. ContentInv' BY <1>2, InvParts DEF ContentInv, ParsedContentIsTheTarget, content
  <2>4. SubSetInv'
    BY <1>2, <2>2, InvParts DEF SubSetInv, SubSetsAreCounted, Kept
  <2>5. SeenInv'
    BY <1>2, Bounds, InvParts DEF SeenInv, NothingWithoutTarget, QueriesUseVisitedSubSets, content
  <2> QED BY <2>3, <2>4, <2>5, PartsNext
<1> QED BY <1>1, <1>2 DEF NextSubSet

LEMMA GetStep ==
  ASSUME ContainerInv, NEW q \in Queries, GetFromQueryOnSubSet(q)
  PROVE ContainerInv'
<1>1. CASE Throw("container")
  BY <1>1, ThrowStep
<1>2. CASE ~Unselected
  <2> DEFINE At(ok) == IF q = "regex" THEN Stringify(subSet) ELSE ParseSubSet(subSet, Parser[q], ok)
             OutOf(e) == q = "regex" /\ Len(e.subSet.strings) < subSet.current
             Used(e) == IF q = "regex" THEN e.subSet.strings[subSet.current]
                        ELSE Document(e.subSet, Parser[q])
  <2>1. PICK ok \in BOOLEAN :
          /\ subSet' = At(ok).subSet
          /\ thrown' = IF At(ok).failed = "none" /\ OutOf(At(ok)) THEN "range" ELSE At(ok).failed
          /\ seen' = IF thrown' # "none" \/ Used(At(ok)) = 0 THEN seen
                     ELSE <<order[subSet.current], Used(At(ok))>>
    BY <1>2 DEF GetFromQueryOnSubSet, Unselected, Throw
  <2> DEFINE e == At(ok)
  <2>2. UNCHANGED <<content, order, made>> /\ thrown = "none"
    BY <1>2 DEF GetFromQueryOnSubSet, MayCall
  <2>3. /\ subSet \in SubSets /\ order \in Orders /\ Kept(subSet, order)
        /\ subSet.current # 0 /\ target # 0
    BY <1>2, <2>2, InvParts DEF SubSetInv, Kept, Unselected
  <2>4. Untouched(e)
    <3>1. CASE q = "regex"
      BY <2>3, <3>1, Stringified DEF Untouched
    <3>2. CASE q # "regex"
      BY <2>3, <3>2, ParsersOfQueries, SubSetParsed DEF Untouched
    <3> QED BY <3>1, <3>2
  <2>5. ContentInv' BY <2>2, InvParts DEF ContentInv, ParsedContentIsTheTarget, content
  <2> HIDE DEF At
  <2>6. SubSetInv'
    BY <2>1, <2>2, <2>3, <2>4, InvParts DEF SubSetInv, SubSetsAreCounted, Kept, Untouched
  <2>7. subSet'.current = subSet.current /\ order' = order /\ target' = target
    BY <2>1, <2>2, <2>4 DEF Untouched, content
  <2>8. ASSUME seen' = seen PROVE SeenInv'
    BY <2>7, <2>8, InvParts DEF SeenInv, NothingWithoutTarget, QueriesUseVisitedSubSets
  <2>9. ASSUME seen' # seen PROVE SeenInv'
    <3>1. /\ seen' = <<order[subSet.current], Used(e)>>
          /\ e.failed = "none" /\ ~OutOf(e)
      BY <2>1, <2>9
    <3>2. Len(order) \in Nat /\ subSet.current \in 1 .. Len(order)
      BY <2>3, Fields, LenProperties, Bounds DEF Orders, Kept, Bounded
    <3>3. \A i \in 1 .. Len(order) : order[i] \in Numbers
      BY <2>3, ElementOfSeq, Bounds DEF Orders, Numbers, Lost
    <3>4. Used(e) \in Reached(e.subSet, order)
      <4>1. e.subSet \in SubSets /\ Kept(e.subSet, order) /\ e.subSet.current = subSet.current
        BY <2>4 DEF Untouched
      <4> HIDE DEF e
      <4>2. CASE q = "regex"
        <5>1. e.subSet.strings \in Seq(Numbers) BY <4>1, Fields
        <5>2. Len(e.subSet.strings) \in Nat /\ ~(Len(e.subSet.strings) < subSet.current)
          BY <3>1, <4>2, <5>1, LenProperties
        <5>3. subSet.current \in DOMAIN e.subSet.strings
          BY <3>2, <5>1, <5>2, LenProperties
        <5>4. e.subSet.strings[subSet.current] \in {order[subSet.current], Lost}
          BY <4>1, <5>3 DEF Kept, Places
        <5> QED BY <3>2, <4>1, <4>2, <5>4 DEF Reached
      <4>3. CASE q # "regex"
        <5>1. Document(e.subSet, Parser[q]) \in Reached(e.subSet, order)
          BY <2>3, <4>1, <4>3, ParsersOfQueries, DocumentIsReached
        <5> QED BY <4>3, <5>1
      <4> QED BY <4>2, <4>3
    <3> HIDE DEF e, Used
    <3>5. e.subSet.current = subSet.current BY <2>4 DEF Untouched
    <3>6. seen' \in Numbers \X Numbers
      BY <3>1, <3>2, <3>3, <3>4, <3>5, Bounds DEF Reached
    <3>7. QueriesUseVisitedSubSets'
      <4>1. seen'[1] = order[subSet.current] /\ seen'[2] = Used(e) BY <3>1
      <4>2. Used(e) \in {0, Lost} \cup {order[i] : i \in 1 .. subSet.current}
        BY <3>4, <3>5 DEF Reached
      <4>3. Used(e) \in {0, Lost, order[subSet.current]} \cup {order[i] : i \in 1 .. subSet.current - 1}
        BY <3>2, <4>2
      <4> QED BY <2>7, <4>1, <4>3 DEF QueriesUseVisitedSubSets
    <3>8. NothingWithoutTarget' BY <2>3, <2>7 DEF NothingWithoutTarget
    <3> QED BY <3>6, <3>7, <3>8 DEF SeenInv
  <2>10. SeenInv' BY <2>8, <2>9
  <2> QED BY <2>5, <2>6, <2>10, PartsNext
<1> QED BY <1>1, <1>2 DEF GetFromQueryOnSubSet

LEMMA AddStep ==
  ASSUME ContainerInv, NEW q \in Queries, AddSubSetsFromQueryOnSubSet(q)
  PROVE ContainerInv'
<1>1. CASE Throw("container")
  BY <1>1, ThrowStep
<1>2. CASE ~Unselected
  <2>1. PICK ok \in BOOLEAN, n \in 0 .. MaxResults :
          /\ Len(order) + n <= MaxSubSets
          /\ subSet' = AddSubSets(q, ok, n).subSet /\ thrown' = AddSubSets(q, ok, n).failed
          /\ order' = Behind(subSet.current, New(AddSubSets(q, ok, n).added))
    BY <1>2 DEF AddSubSetsFromQueryOnSubSet
  <2> DEFINE e == AddSubSets(q, ok, n)
  <2>2. UNCHANGED <<content, made>> /\ seen' = <<0, 0>> /\ thrown = "none"
    BY <1>2 DEF AddSubSetsFromQueryOnSubSet, MayCall, Unselected
  <2>3. /\ subSet \in SubSets /\ order \in Orders /\ Kept(subSet, order)
        /\ subSet.current # 0 /\ target # 0
    BY <1>2, <2>2, InvParts DEF SubSetInv, Kept, Unselected
  <2>4. Grown(e) BY <2>1, <2>3, SubSetsAdded
  <2>5. ContentInv' BY <2>2, InvParts DEF ContentInv, ParsedContentIsTheTarget, content
  <2> HIDE DEF e
  <2>6. subSet' = e.subSet /\ thrown' = e.failed /\ order' = Behind(subSet.current, New(e.added))
    BY <2>1 DEF e
  <2>7. SubSetInv'
    <3>1. made \notin Joined => subSet'.number = Len(order')
      BY <2>2, <2>4, <2>6, InvParts DEF Grown, SubSetInv, SubSetsAreCounted
    <3> QED BY <2>2, <2>4, <2>6, <3>1, InvParts DEF Grown, SubSetInv, SubSetsAreCounted
  <2>8. SeenInv'
    BY <2>2, <2>3, Bounds DEF SeenInv, NothingWithoutTarget, QueriesUseVisitedSubSets, content
  <2> QED BY <2>5, <2>7, <2>8, PartsNext
<1> QED BY <1>1, <1>2 DEF AddSubSetsFromQueryOnSubSet

-----------------------------------------------------------------------------
(* The theorems.                                                            *)

\* ContainerInv is inductive.
THEOREM Invariance == Spec => []ContainerInv
<1>1. Init => ContainerInv
  <2> SUFFICES ASSUME Init PROVE ContainerInv OBVIOUS
  <2> USE DEF Init
  <2>1. ContentInv
    BY DEF ContentInv, ParsedContentIsTheTarget, Nothing, NoErrors
  <2>2. SubSetInv
    BY NothingKept DEF SubSetInv, SubSetsAreCounted, Kept, Queries
  <2>3. SeenInv
    BY Bounds DEF SeenInv, NothingWithoutTarget, QueriesUseVisitedSubSets
  <2> QED BY <2>1, <2>2, <2>3, InvParts
<1>2. ContainerInv /\ [Next]_vars => ContainerInv'
  <2> SUFFICES ASSUME ContainerInv, [Next]_vars PROVE ContainerInv' OBVIOUS
  <2>1. CASE SetQueryTarget
    BY <2>1, TargetStep DEF SetQueryTarget
  <2>2. CASE ClearQueryTarget
    BY <2>2, TargetStep DEF ClearQueryTarget
  <2>3. CASE NextSubSet
    BY <2>3, NextSubSetStep
  <2>4. ASSUME NEW q \in Queries, QueryContent(q) PROVE ContainerInv'
    BY <2>4, QueryContentStep
  <2>5. ASSUME NEW q \in Queries, SetSubSetsFromQuery(q) PROVE ContainerInv'
    BY <2>5, SetSubSetsStep
  <2>6. ASSUME NEW q \in Queries, GetFromQueryOnSubSet(q) PROVE ContainerInv'
    BY <2>6, GetStep
  <2>7. ASSUME NEW q \in Queries, AddSubSetsFromQueryOnSubSet(q) PROVE ContainerInv'
    BY <2>7, AddStep
  <2>8. CASE UNCHANGED vars
    <3> USE <2>8 DEF vars, content
    <3>1. ContentInv' BY InvParts DEF ContentInv, ParsedContentIsTheTarget
    <3>2. SubSetInv'
      BY InvParts
         DEF SubSetInv, SubSetsAreCounted, Bounded, ParsedAreReached, Reached, Lengths, Places
    <3>3. SeenInv' BY InvParts DEF SeenInv, NothingWithoutTarget, QueriesUseVisitedSubSets
    <3> QED BY <3>1, <3>2, <3>3, PartsNext
  <2> QED BY <2>1, <2>2, <2>3, <2>4, <2>5, <2>6, <2>7, <2>8 DEF Next
<1> QED BY <1>1, <1>2, PTL DEF Spec

\* Types of the container, for any targets and bounds.
THEOREM TypeCorrect == Spec => []TypeOK
<1>1. ContainerInv => TypeOK BY DEF ContainerInv
<1> QED BY <1>1, Invariance, PTL

\* What has been parsed is that of the target, and a query on a subset works on one that
\* has been reached.
THEOREM QueriesStayWithTheirTarget == Spec => []QueriesUseTheirTarget
<1>1. ContainerInv => QueriesUseTheirTarget BY DEF ContainerInv, QueriesUseTheirTarget
<1> QED BY <1>1, Invariance, PTL

\* No insertion and no visit loses a subset, or moves one to the position of another.
THEOREM NoSubSetIsLost == Spec => []SubSetsAreKept
<1>1. ContainerInv => SubSetsAreKept
  <2> SUFFICES ASSUME ContainerInv PROVE SubSetsAreKept OBVIOUS
  <2>1. CursorIsInRange /\ SubSetsAreCounted
    BY DEF ContainerInv, Bounded, CursorIsInRange
  <2>2. RepresentationsAreComplete
    BY DEF ContainerInv, Lengths, RepresentationsAreComplete
  <2>3. PositionsAgree /\ UnvisitedAreKept
    BY DEF ContainerInv, Places, PositionsAgree, UnvisitedAreKept
  <2> QED BY <2>1, <2>2, <2>3 DEF SubSetsAreKept
<1> QED BY <1>1, Invariance, PTL

-----------------------------------------------------------------------------
(* The container in the run of Representations.                             *)

\* A behaviour of the run is one of the container, which stays as it begins where the
\* run is about a corpus.
THEOREM RunImplementsContainer == RepresentationsSpec => Spec
<1>1. RepresentationsInit => Init
  BY DEF RepresentationsInit
<1>2. [RepresentationsNext]_allVars => [Next]_vars
  BY DEF RepresentationsNext, allVars
<1> QED
  BY <1>1, <1>2, PTL DEF RepresentationsSpec, Spec

\* What the run checks of the container: queries use their target, no subset is lost.
THEOREM ContainersInTheRun == RepresentationsSpec => [](QueriesUseTheirTarget /\ SubSetsAreKept)
BY RunImplementsContainer, QueriesStayWithTheirTarget, NoSubSetIsLost, PTL
=============================================================================
