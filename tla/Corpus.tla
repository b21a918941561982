------------------------------- MODULE Corpus -------------------------------
(***************************************************************************)
(* The text corpus of an analyzer (Data/Corpus.hpp): texts that are joined *)
(* to one continuous text, whose articles and dates are kept as positions  *)
(* and lengths in two maps; or the tokens of that text, with a third map   *)
(* for the sentences.  A corpus is stored in the database as chunks of a   *)
(* limited size, each with the parts of the maps that lie in it, and put   *)
(* together again from these.                                              *)
(*                                                                         *)
(* A text is a sequence of bytes: letters, spaces, points, and characters  *)
(* of two bytes, "L" followed by "T".  Positions start with 0, as in the   *)
(* code.  The variable expected is the reference: what the corpus should   *)
(* consist of, as a sequence of articles.                                  *)
(***************************************************************************)
EXTENDS Naturals, Sequences, SequencesExt, FiniteSetsExt

CONSTANTS
  Texts,        \* the texts the database may return, each with a word
  MaxArticles,  \* bound on their number
  MaxDate,      \* dates are 1 .. MaxDate, 0 is an article without date
  ChunkSizes,   \* sizes of chunks, not smaller than a character
  StopWords,    \* what a manipulator may remove: a set of sets of words
  FreeEvery     \* freeMemoryEvery, in bytes

VARIABLES
  corpus,    \* the members of the Corpus
  stored,    \* the chunks in the database, and their size
  status,    \* "new", "ok", "exception", "undefined"
  expected   \* history: the articles the corpus should consist of

corpusVars == <<corpus, stored, status, expected>>

Space == " "
Enders == {"."}
Separators == {Space}
Newline == "n"

End(e) == e.p + e.l
Slice(s, p, l) == SubSeq(s, p + 1, p + l)
Entry(p, l, v) == [p |-> p, l |-> l, v |-> v]
GrowLast(map, n) == [map EXCEPT ![Len(map)].l = @ + n]
Bytes(tokens) == Len(FlattenSeq(tokens))

EmptyCorpus ==
  [text |-> <<>>, tokens |-> <<>>, bytes |-> 0, tokenized |-> FALSE,
   articles |-> <<>>, dates |-> <<>>, sentences |-> <<>>]

NotStored == [chunks |-> <<>>, size |-> 0]

\* The result of an operation that throws, or whose behaviour is undefined.
Failure(how) == [failure |-> how]

\* The articles a database query returns, ordered by date.
Sources ==
  {s \in BoundedSeq([text : Texts, date : 0..MaxDate], MaxArticles) :
     /\ s # <<>>
     /\ \A i, j \in DOMAIN s : i < j => s[i].date <= s[j].date}

-----------------------------------------------------------------------------
(* Creating a continuous corpus.                                            *)

\* addArticle(), with the date that is still open as a sequence.
AddArticle(s, id, text, date) ==
  LET n == Len(text)
      new == Entry(Len(s.text), n, date)
  IN [text |-> s.text \o text \o <<Space>>,
      articles |-> Append(s.articles, Entry(Len(s.text), n, id)),
      dates |-> IF date # 0 /\ s.open # <<>> /\ s.open[1].v # date
                THEN s.dates \o s.open ELSE s.dates,
      open |-> IF date = 0 THEN s.open
               ELSE IF s.open # <<>> /\ s.open[1].v = date
                    THEN GrowLast(s.open, n + 1) ELSE <<new>>]

\* create(), with IDs and dates.
Compiled(source) ==
  LET s == FoldLeftDomain(LAMBDA t, i : AddArticle(t, i, source[i].text, source[i].date),
                          [text |-> <<>>, articles |-> <<>>, dates |-> <<>>, open |-> <<>>],
                          source)
  IN [EmptyCorpus EXCEPT !.text = Front(s.text), !.articles = s.articles,
                         !.dates = s.dates \o s.open]

\* create(), with texts only.
JoinedTexts(source) ==
  [EmptyCorpus EXCEPT !.text = Front(FoldLeft(LAMBDA t, a : t \o a.text \o <<Space>>,
                                              <<>>, source))]

-----------------------------------------------------------------------------
(* Chunks of a continuous corpus.                                           *)

\* Mutated getValidLengthOfChunk(): does not look at the bytes.
ValidLengthInBytes(s, pos, max) == max

\* getValidLengthOfChunk(): up to three bytes are cut off the end.
ValidLength(s, pos, max) ==
  Max({n \in {m \in 0..max : m + 3 >= max} : n = 0 \/ s[pos + n] # "L"})

\* The part of a date map that belongs to n bytes of the corpus at pos.
AddDate(map, at, date, pos, n) ==
  IF map # <<>> /\ Last(map).v = date.v THEN GrowLast(map, n + 1)
  ELSE IF pos >= date.p THEN Append(map, Entry(at, n, date.v)) ELSE map

\* The next chunk begins with the space that did not fit into the last one.
BeginChunk(s) ==
  [s EXCEPT !.chunk = IF s.noSpace THEN <<Space>> ELSE <<>>,
            !.pos = IF s.noSpace THEN @ + 1 ELSE @,
            !.noSpace = FALSE, !.full = FALSE, !.cA = <<>>, !.cD = <<>>]

\* One round of the loop over the articles inside one chunk.
AddPiece(c, k, s) ==
  LET article == c.articles[s.i]
      d == IF s.d <= Len(c.dates) /\ s.apos = 0 /\ article.p > End(c.dates[s.d])
           THEN s.d + 1 ELSE s.d
      remaining == article.l - s.apos
      fits == Len(s.chunk) + remaining <= k
      n == IF fits THEN remaining ELSE ValidLength(c.text, s.pos, k - Len(s.chunk))
      chunk == s.chunk \o Slice(c.text, s.pos, n)
      space == fits /\ Len(chunk) < k
  IN IF n = 0 THEN [s EXCEPT !.d = d, !.full = TRUE]
     ELSE [s EXCEPT
             !.d = d,
             !.cA = Append(@, Entry(Len(s.chunk), n, article.v)),
             !.cD = IF d <= Len(c.dates)
                    THEN AddDate(@, Len(s.chunk), c.dates[d], s.pos, n) ELSE @,
             !.chunk = IF space THEN Append(chunk, Space) ELSE chunk,
             !.pos = @ + n + (IF space THEN 1 ELSE 0),
             !.i = IF fits THEN @ + 1 ELSE @,
             !.apos = IF fits THEN 0 ELSE @ + n,
             !.noSpace = fits /\ ~space,
             !.full = ~space \/ Len(chunk) + 1 = k]

\* The chunk is added; an empty one ends the loop.
EndChunk(c, s) ==
  IF s.chunk = <<>> THEN [s EXCEPT !.done = TRUE]
  ELSE LET t == [s EXCEPT !.out = Append(@, [text |-> s.chunk, articles |-> s.cA, dates |-> s.cD])]
       IN IF s.pos < Len(c.text) THEN BeginChunk(t) ELSE [t EXCEPT !.done = TRUE]

\* copyChunksContinuous(), the loops over the chunks and the articles.
SliceArticles(c, k) ==
  LET Round(s) ==
        IF s.done THEN s
        ELSE IF s.full \/ s.i > Len(c.articles) THEN EndChunk(c, s) ELSE AddPiece(c, k, s)
      first == [chunk |-> <<>>, cA |-> <<>>, cD |-> <<>>, pos |-> 0, apos |-> 0, i |-> 1,
                d |-> 1, noSpace |-> FALSE, full |-> FALSE, done |-> FALSE, out |-> <<>>]
      last == FoldLeft(LAMBDA s, n : Round(s), first,
                       [n \in 1..(3 * Len(c.text) + 3) |-> n])
      out == last.out
  IN IF last.noSpace THEN out
     ELSE [out EXCEPT ![Len(out)].text = Front(@)]

\* copyChunksContinuous() without an article map.  The end of the last chunk is
\* looked for behind the text, which throws when it is too far behind: no chunks.
SliceText(c, k) ==
  LET size == Len(c.text)
      Round(s) ==
        IF s.pos >= size THEN s
        ELSE LET n == ValidLength(c.text, s.pos, Min({k, size - s.pos}))
             IN [pos |-> s.pos + n,
                 out |-> Append(s.out, [text |-> Slice(c.text, s.pos, n),
                                        articles |-> <<>>, dates |-> <<>>])]
      out == FoldLeft(LAMBDA s, n : Round(s), [pos |-> 0, out |-> <<>>],
                      [n \in DOMAIN c.text |-> n]).out
  IN IF k > 4 /\ Len(Last(out).text) < k - 4 THEN <<>> ELSE out

\* copyChunksContinuous(): a corpus that fits is one chunk.
ChunksOfText(c, k) ==
  IF Len(c.text) <= k
  THEN <<[text |-> c.text, articles |-> c.articles, dates |-> c.dates]>>
  ELSE IF c.articles = <<>> THEN SliceText(c, k) ELSE SliceArticles(c, k)

\* Mutated combineContinuous(): no space is counted between two chunks.
ContinuedWithoutSpace(map, new, pos, between) ==
  LET moved == [i \in DOMAIN new |-> [new[i] EXCEPT !.p = @ + pos]]
  IN IF map # <<>> /\ new # <<>> /\ Last(map).v = new[1].v
     THEN GrowLast(map, new[1].l) \o Tail(moved) ELSE map \o moved

\* Appends the map of a chunk at pos, whose first entry may continue the last
\* one; between is the space between the two.
Continued(map, new, pos, between) ==
  LET joins == map # <<>> /\ new # <<>> /\ Last(map).v = new[1].v
      moved == [i \in DOMAIN new |-> [new[i] EXCEPT !.p = @ + pos]]
  IN IF joins THEN GrowLast(map, new[1].l + between) \o Tail(moved) ELSE map \o moved

\* combineContinuous().
TextOfChunks(chunks) ==
  LET Add(c, chunk) ==
        LET begins == /\ chunk.articles # <<>>
                      /\ c.articles = <<>> \/ Last(c.articles).v # chunk.articles[1].v
        IN [c EXCEPT !.text = @ \o chunk.text,
                     !.articles = Continued(@, chunk.articles, Len(c.text), 0),
                     !.dates = Continued(@, chunk.dates, Len(c.text), IF begins THEN 1 ELSE 0)]
  IN FoldLeft(Add, EmptyCorpus, chunks)

-----------------------------------------------------------------------------
(* Tokenizing.                                                              *)

\* What the manipulators leave of tokens, an empty token for a removed one.
Manipulated(tokens, removed) ==
  [i \in DOMAIN tokens |-> IF tokens[i] \in removed THEN <<>> ELSE tokens[i]]
NotEmpty(t) == t # <<>>

\* A map and the place tokenizeContinuous() has reached in it.
Reading(map) == [map |-> map, inside |-> FALSE, next |-> 1, first |-> 0, new |-> <<>>]
Enter(m, pos, token) ==
  IF ~m.inside /\ m.next <= Len(m.map) /\ pos = m.map[m.next].p
  THEN [m EXCEPT !.inside = TRUE, !.first = token, !.next = @ + 1] ELSE m
AtEnd(m, pos) == m.inside /\ pos = End(m.map[m.next - 1])
CloseAt(m, pos, token) ==
  IF AtEnd(m, pos)
  THEN [m EXCEPT !.inside = FALSE,
                 !.new = Append(@, Entry(m.first, token - m.first, m.map[m.next - 1].v))]
  ELSE m

\* The last entry of a map loses n tokens, and its place when it has no more.
ShrinkLast(map, n) ==
  IF n > 0 /\ Last(map).l = n THEN Front(map)
  ELSE IF n = 0 THEN map ELSE [map EXCEPT ![Len(map)].l = @ - n]

\* Mutated: the size of the tokens before they have been manipulated.
AllBytes(s, kept) == s.bytes + Bytes(s.sentence)

\* processSentence(), the size of the tokens the manipulators leave.
KeptBytes(s, kept) == s.bytes + Bytes(kept)

\* processSentence(): inA and inD tell whether an article or a date ends with
\* the sentence, so that its length is in the map already.
ProcessSentence(s, removed, inA, inD) ==
  LET kept == SelectSeq(Manipulated(s.sentence, removed), NotEmpty)
      gone == Len(s.sentence) - Len(kept)
  IN [s EXCEPT
        !.a.new = IF inA THEN ShrinkLast(@, gone) ELSE @,
        !.d.new = IF inD THEN ShrinkLast(@, gone) ELSE @,
        !.current = @ - gone,
        !.bytes = KeptBytes(s, kept),
        !.tokens = @ \o kept,
        !.sentences = IF kept = <<>> THEN @ ELSE Append(@, Entry(s.sFirst, Len(kept), 0)),
        !.sentence = <<>>,
        !.sFirst = s.current - gone]

\* A token ends at pos; memory is freed when enough of the text is done.
EndToken(s, pos, n, endA, endD) ==
  LET t == IF n = 0 THEN s
           ELSE [s EXCEPT !.sentence = Append(@, Slice(s.text, s.begin - s.trimmed, n)),
                          !.current = @ + 1,
                          !.a.new = IF endA THEN GrowLast(@, 1) ELSE @,
                          !.d.new = IF endD THEN GrowLast(@, 1) ELSE @]
      free == FreeEvery > 0 /\ pos - s.trimmed > FreeEvery
  IN [t EXCEPT !.text = IF free THEN Slice(@, pos - s.trimmed, Len(@) - (pos - s.trimmed)) ELSE @,
               !.trimmed = IF free THEN pos ELSE @,
               !.begin = pos + 1]

\* One character of tokenizeContinuous().
Character(s, removed, pos) ==
  LET a == Enter(s.a, pos, s.current)
      d == Enter(s.d, pos, s.current)
      endA == AtEnd(a, pos)
      endD == AtEnd(d, pos)
      t == [s EXCEPT !.a = CloseAt(a, pos, s.current), !.d = CloseAt(d, pos, s.current)]
      char == s.text[pos - s.trimmed + 1]
      separates == char \in Enders \cup Separators
      sentenceEnd == endA \/ endD \/ char \in Enders
      u == EndToken(t, pos, pos - s.begin + (IF separates THEN 0 ELSE 1), endA, endD)
  IN IF ~separates /\ ~sentenceEnd THEN t
     ELSE IF sentenceEnd /\ u.sentence # <<>> THEN ProcessSentence(u, removed, endA, endD)
     ELSE u

\* tokenizeContinuous().  The last token, when the text does not end with a
\* separator, is counted for the last date when the article ends and for the
\* last article when the date ends; without a date that is undefined.
Tokenized(c, removed) ==
  LET size == Len(c.text)
      first == [text |-> c.text, trimmed |-> 0, begin |-> 0, current |-> 0, sFirst |-> 0,
                sentence |-> <<>>, tokens |-> <<>>, bytes |-> 0, sentences |-> <<>>,
                a |-> Reading(c.articles), d |-> Reading(c.dates)]
      s == FoldLeftDomain(LAMBDA t, i : Character(t, removed, i - 1), first, c.text)
      endA == AtEnd(s.a, size)
      endD == AtEnd(s.d, size)
      t == [s EXCEPT !.a = CloseAt(@, size, s.current), !.d = CloseAt(@, size, s.current)]
      unended == s.begin < size
      u == IF ~unended THEN t
           ELSE [t EXCEPT !.sentence = Append(@, Slice(s.text, s.begin - s.trimmed, size - s.begin)),
                          !.d.new = IF endA THEN GrowLast(@, 1) ELSE @,
                          !.a.new = IF endD THEN GrowLast(@, 1) ELSE @]
      v == IF u.sentence = <<>> THEN u ELSE ProcessSentence(u, removed, endA, endD)
  IN IF unended /\ ((endA /\ t.d.new = <<>>) \/ (endD /\ t.a.new = <<>>)) THEN Failure("undefined")
     ELSE [text |-> <<>>, tokens |-> v.tokens, bytes |-> v.bytes, tokenized |-> TRUE,
           articles |-> v.a.new, dates |-> v.d.new, sentences |-> v.sentences]

-----------------------------------------------------------------------------
(* Changing a tokenized corpus.                                             *)

NonEmptyEntries(map) == SelectSeq(map, LAMBDA e : e.l > 0)

\* skipEntriesBefore(), with an index, the original end of its entry and
\* whether that has begun.
Skip(m, pos) ==
  IF m.i > Len(m.map) \/ (m.end > pos /\ m.map[m.i].l > 0) THEN m
  ELSE LET left == {j \in (m.i + IF m.inside THEN 1 ELSE 0)..Len(m.map) :
                      End(m.map[j]) > pos /\ m.map[j].l > 0}
           i == IF left = {} THEN Len(m.map) + 1 ELSE Min(left)
       IN [m EXCEPT !.i = i, !.inside = FALSE,
                    !.end = End(IF left = {} THEN Last(m.map) ELSE m.map[i])]
Begin(m, pos, deleted) ==
  IF m.i <= Len(m.map) /\ m.map[m.i].p = pos
  THEN [m EXCEPT !.inside = TRUE, !.map[m.i].p = @ - deleted] ELSE m
Lose(m, n) == IF m.inside /\ n > 0 THEN [m EXCEPT !.map[m.i].l = @ - n] ELSE m

\* tokenizeTokenized(), when there is a manipulator; entries that lose all
\* their tokens are removed, with those that had none.
Retokenized(c, removed) ==
  LET Sentence(s, e) ==
        LET tokens == Manipulated(Slice(c.tokens, e.p, e.l), removed)
            gone == Len(SelectSeq(tokens, LAMBDA t : t = <<>>))
            At(m) == Lose(Begin(Skip(m, e.p), e.p, s.deleted), gone)
        IN [a |-> At(s.a), d |-> At(s.d), tokens |-> s.tokens \o tokens,
            deleted |-> s.deleted + gone,
            sentences |-> Append(s.sentences, Entry(e.p - s.deleted, e.l - gone, 0))]
      start(map) == [map |-> map, i |-> 1, end |-> 0, inside |-> FALSE]
      s == FoldLeft(Sentence, [a |-> start(c.articles), d |-> start(c.dates), tokens |-> <<>>,
                               deleted |-> 0, sentences |-> <<>>], c.sentences)
      Emptied(old, new) == \E i \in DOMAIN new : new[i].l = 0 /\ old[i].l > 0
      Cleaned(old, new) == IF Emptied(old, new) THEN NonEmptyEntries(new) ELSE new
      kept == SelectSeq(s.tokens, NotEmpty)
  IN IF removed = {} THEN c
     ELSE [c EXCEPT !.tokens = kept, !.bytes = Bytes(kept),
                    !.articles = Cleaned(@, s.a.map), !.dates = Cleaned(@, s.d.map),
                    !.sentences = Cleaned(@, s.sentences)]

\* The entries of a map that still have a token.
Remaining(map, tokens) ==
  SelectSeq(map, LAMBDA e : \E t \in Range(Slice(tokens, e.p, e.l)) : t # <<>>)

\* reTokenize(), one map: entries without tokens are removed, then positions
\* and lengths lose the empty tokens before and inside them.
Shifted(map, tokens) ==
  LET left == Remaining(map, tokens)
      Token(m, t) ==
        LET skipping == {j \in (m.i + 1)..Len(left) : End(left[j]) > m.pos}
            j == IF m.i > Len(left) \/ m.end > m.pos THEN m.i
                 ELSE IF skipping = {} THEN Len(left) + 1 ELSE Min(skipping)
            n == IF j = m.i \/ j > Len(left) THEN m
                 ELSE [m EXCEPT !.first = left[j].p, !.end = End(left[j])]
            at == IF j <= Len(left) /\ m.pos = n.first
                  THEN [n.map EXCEPT ![j].p = @ - m.removed] ELSE n.map
            inside == j <= Len(left) /\ m.pos >= n.first /\ m.pos < n.end
        IN [n EXCEPT !.i = j, !.pos = @ + 1,
                     !.map = IF t = <<>> /\ inside THEN [at EXCEPT ![j].l = @ - 1] ELSE at,
                     !.removed = IF t = <<>> THEN @ + 1 ELSE @]
  IN FoldLeft(Token, [map |-> left, i |-> 1, pos |-> 0, removed |-> 0,
                      first |-> left[1].p, end |-> End(left[1])], tokens).map

\* filterArticles(): keep are the indices of the articles to keep.  A map that
\* is empty then has no first entry for reTokenize() to begin with.
WithArticles(c, keep) ==
  LET Dropped(i) == \E k \in DOMAIN c.articles \ keep :
                      i > c.articles[k].p /\ i <= End(c.articles[k])
      tokens == [i \in DOMAIN c.tokens |-> IF Dropped(i) THEN <<>> ELSE c.tokens[i]]
      kept == SelectSeq(tokens, NotEmpty)
  IN IF c.tokens = <<>> \/ DOMAIN c.articles \subseteq keep THEN c
     ELSE IF <<>> \in {Remaining(c.articles, tokens), Remaining(c.dates, tokens)}
          THEN Failure("exception")
     ELSE [c EXCEPT !.tokens = kept, !.bytes = Bytes(kept),
                    !.articles = Shifted(@, tokens), !.dates = Shifted(@, tokens),
                    !.sentences = Shifted(@, tokens)]

\* filterByDate(), one map: the entries from offset on, before offset + len.
\* There is none to begin with when no entry starts at the offset.
Trimmed(map, offset, len) ==
  LET first == CHOOSE i \in DOMAIN map : map[i].p = offset /\ \A j \in 1..(i - 1) : map[j].p # offset
      behind == {i \in DOMAIN map : i > first /\ map[i].p >= offset + len}
      last == IF behind = {} THEN Len(map) ELSE Min(behind) - 1
  IN [i \in 1..(last - first + 1) |-> [map[first + i - 1] EXCEPT !.p = @ - offset]]

\* filterByDate(), for a range that is not empty.
WithDates(c, from, to) ==
  LET inRange == {i \in DOMAIN c.dates : c.dates[i].v \in from..to}
      first == Min(inRange)
      after == {i \in DOMAIN c.dates : i > first /\ i \notin inRange}
      last == IF after = {} THEN Len(c.dates) ELSE Min(after) - 1
      offset == c.dates[first].p
      len == End(c.dates[last]) - offset
      starts(map) == \E i \in DOMAIN map : map[i].p = offset
      tokens == IF c.tokenized THEN Slice(c.tokens, offset, len) ELSE <<>>
  IN IF inRange = {} THEN EmptyCorpus
     ELSE IF \/ ~starts(c.articles)
             \/ c.tokenized /\ (~starts(c.sentences) \/ offset + len > Len(c.tokens)) THEN Failure("undefined")
     ELSE [c EXCEPT !.text = IF c.tokenized THEN @ ELSE Slice(@, offset, len),
                    !.tokens = tokens, !.bytes = Bytes(tokens),
                    !.dates = [i \in 1..(last - first + 1) |->
                                 [@[first + i - 1] EXCEPT !.p = @ - offset]],
                    !.articles = Trimmed(@, offset, len),
                    !.sentences = IF c.tokenized THEN Trimmed(@, offset, len) ELSE @]

-----------------------------------------------------------------------------
(* Chunks of a tokenized corpus: each token is followed by a newline.       *)

\* checkForEntry(): entries that begin with the sentence; empty ones are skipped.
CheckForEntry(map, next, chunkMap, p, offset) ==
  LET begin == {i \in next..Len(map) : \A j \in next..i : map[j].p = p}
      new == [i \in 1..Cardinality(begin) |-> [map[next + i - 1] EXCEPT !.p = @ - offset]]
  IN [next |-> next + Cardinality(begin), map |-> chunkMap \o NonEmptyEntries(new)]

\* splitEntry() and finishMap(): what the chunk keeps of its map, and the
\* remaining entry with which the next chunk begins.
SplitMap(map, token, split) ==
  LET end == End(Last(map))
      cut == map # <<>> /\ (end > token \/ (end = token /\ split))
      kept == [map EXCEPT ![Len(map)].l = @ - (end - token) + (IF split THEN 1 ELSE 0)]
      RemoveTail(m) == IF m # <<>> /\ Last(m).l = 0 THEN Front(m) ELSE m
  IN [kept |-> IF cut THEN RemoveTail(kept) ELSE map,
      remaining |-> IF cut /\ end > token THEN <<Entry(0, end - token, Last(map).v)>> ELSE <<>>]

\* finishChunk().
FinishChunk(s) ==
  LET split == s.additional > 0
      a == SplitMap(s.cA, s.chunkTokens, split)
      d == SplitMap(s.cD, s.chunkTokens, split)
  IN [s EXCEPT !.out = Append(@, [text |-> s.chunk, tokens |-> s.chunkTokens + (IF split THEN 1 ELSE 0),
                                  articles |-> a.kept, dates |-> d.kept, sentences |-> s.cS]),
               !.chunk = <<>>, !.cS = <<>>, !.cA = a.remaining, !.cD = d.remaining,
               !.offset = @ + s.chunkTokens, !.chunkTokens = 0]

\* A sentence, or what is left of it, is added to the chunk: once per chunk.
StartSentence(c, s) ==
  LET e == c.sentences[s.sentence]
      a == CheckForEntry(c.articles, s.nextA, s.cA, e.p, s.offset)
      d == CheckForEntry(c.dates, s.nextD, s.cD, e.p, s.offset)
      t == IF s.checked THEN s
           ELSE [s EXCEPT !.cA = a.map, !.nextA = a.next, !.cD = d.map, !.nextD = d.next]
  IN [t EXCEPT !.cS = Append(@, Entry(s.complete - s.offset, End(e) - s.complete, 0)),
               !.checked = TRUE, !.started = TRUE, !.from = s.complete, !.before = s.additional]

\* pushSentence(), one token: as much of it as the chunk can take.
PushToken(c, k, s) ==
  LET rest == Slice(c.tokens[s.complete + 1], s.additional,
                    Len(c.tokens[s.complete + 1]) - s.additional)
      chunk == s.chunk \o rest \o <<Newline>>
      size == ValidLength(chunk, 0, k)
      additional == s.additional + size - Len(s.chunk)
      nothing == s.complete = s.from /\ additional = s.before
  IN IF Len(chunk) <= k
     THEN [s EXCEPT !.chunk = chunk, !.additional = 0, !.before = 0,
                    !.complete = @ + 1, !.chunkTokens = @ + 1]
     ELSE FinishChunk([s EXCEPT !.chunk = Slice(chunk, 0, size), !.additional = additional,
                                !.cS = IF nothing THEN Front(@) ELSE @, !.started = FALSE])

\* copyChunksTokenized(), the loop over the sentences; the last newline goes,
\* and with it a chunk that has nothing else.
SliceTokens(c, k) ==
  LET Round(s) ==
        IF s.sentence > Len(c.sentences) THEN s
        ELSE IF ~s.started THEN StartSentence(c, s)
        ELSE IF s.complete = End(c.sentences[s.sentence])
        THEN [s EXCEPT !.sentence = @ + 1, !.started = FALSE, !.checked = FALSE]
        ELSE PushToken(c, k, s)
      first == [sentence |-> 1, started |-> FALSE, checked |-> FALSE, from |-> 0, before |-> 0,
                complete |-> 0, additional |-> 0, chunk |-> <<>>, chunkTokens |-> 0, offset |-> 0,
                cS |-> <<>>, cA |-> <<>>, cD |-> <<>>, nextA |-> 1, nextD |-> 1, out |-> <<>>]
      rounds == 3 * (c.bytes + Len(c.tokens) + Len(c.sentences))
      out == FinishChunk(FoldLeft(LAMBDA s, n : Round(s), first, [n \in 1..rounds |-> n])).out
      last == Front(Last(out).text)
  IN IF last = <<>> THEN Front(out) ELSE [out EXCEPT ![Len(out)].text = last]

\* copyChunksTokenized(): a corpus smaller than the size is one chunk.
ChunksOfTokens(c, k) ==
  LET text == FlattenSeq([i \in DOMAIN c.tokens |-> Append(c.tokens[i], Newline)])
  IN IF Len(text) - 1 < k
     THEN <<[text |-> Front(text), tokens |-> Len(c.tokens), articles |-> c.articles,
             dates |-> c.dates, sentences |-> c.sentences]>>
     ELSE SliceTokens(c, k)

\* Mutated addChunkMap(): the token that has been split is counted twice.
JoinMapTwice(map, new, offset, split) ==
  LET moved == [i \in DOMAIN new |-> [new[i] EXCEPT !.p = @ + offset]]
  IN IF map # <<>> /\ new # <<>> /\ Last(map).v = new[1].v
     THEN GrowLast(map, new[1].l) \o Tail(moved) ELSE map \o moved

\* addChunkMap(): the first entry of a chunk may continue the last one, and
\* then shares a token with it that has been split.
JoinMap(map, new, offset, split) ==
  LET joins == map # <<>> /\ new # <<>> /\ Last(map).v = new[1].v
      moved == [i \in DOMAIN new |-> [new[i] EXCEPT !.p = @ + offset]]
  IN IF joins THEN GrowLast(map, new[1].l - (IF split THEN 1 ELSE 0)) \o Tail(moved)
     ELSE map \o moved

\* addChunk(), a token for each newline.
AddChunk(c, chunk, split) ==
  LET offset == IF c.tokens = <<>> THEN 0 ELSE Len(c.tokens) - 1
      continues == c.sentences # <<>> /\ End(Last(c.sentences)) > offset
      new == [i \in DOMAIN chunk.sentences |-> [chunk.sentences[i] EXCEPT !.p = @ + offset]]
      Add(tokens, char) == IF char = Newline THEN Append(tokens, <<>>)
                           ELSE [tokens EXCEPT ![Len(tokens)] = Append(@, char)]
      tokens == FoldLeft(Add, IF c.tokens = <<>> THEN <<<<>>>> ELSE c.tokens, chunk.text)
  IN [c EXCEPT !.sentences = @ \o (IF continues /\ new # <<>> THEN Tail(new) ELSE new),
               !.tokens = tokens, !.bytes = Bytes(tokens),
               !.articles = JoinMap(@, chunk.articles, offset, split),
               !.dates = JoinMap(@, chunk.dates, offset, split)]

\* combineTokenized(); a chunk that does not end with a newline splits a token.
TokensOfChunks(chunks) ==
  LET Splits(i) == i > 1 /\ Last(chunks[i - 1].text) # Newline
  IN FoldLeftDomain(LAMBDA c, i : AddChunk(c, chunks[i], Splits(i)),
                    [EmptyCorpus EXCEPT !.tokenized = TRUE], chunks)

-----------------------------------------------------------------------------
(* The operations on a corpus.                                              *)

CorpusInit ==
  /\ corpus = EmptyCorpus /\ stored = NotStored
  /\ status = "new" /\ expected = <<>>

\* An analyzer drops a corpus that is empty.
Ready ==
  /\ status = "ok" /\ stored = NotStored
  /\ corpus.text # <<>> \/ corpus.tokens # <<>>

\* Sets the corpus, unless the operation fails.
Becomes(result, articles) ==
  IF "failure" \in DOMAIN result
  THEN status' = result.failure /\ UNCHANGED <<corpus, stored, expected>>
  ELSE corpus' = result /\ expected' = articles /\ UNCHANGED <<stored, status>>

\* What a reader would call the sentences of a text: the words between two
\* points, in their order.
Sentences(text) ==
  LET IsBreak(i) == i = 0 \/ i > Len(text) \/ text[i] \in Enders \cup Separators
      Starts == {i \in DOMAIN text : ~IsBreak(i) /\ IsBreak(i - 1)}
      Word(i) == SubSeq(text, i, Min({j \in i..(Len(text) + 1) : IsBreak(j)}) - 1)
      Number(i) == Cardinality({j \in 1..i : text[j] \in Enders})
      Sentence(n) == LET s == SetToSortSeq({i \in Starts : Number(i) = n}, <)
                     IN [i \in DOMAIN s |-> Word(s[i])]
      numbers == SetToSortSeq({Number(i) : i \in Starts}, <)
  IN [i \in DOMAIN numbers |-> Sentence(numbers[i])]

Without(sentences, removed) ==
  SelectSeq([i \in DOMAIN sentences |->
               SelectSeq(sentences[i], LAMBDA t : t \notin removed)], NotEmpty)
HasWords(a) == corpus.tokenized => a.sentences # <<>>
InRange(a, from, to) == a.date \in from..to

Create(source) ==
  /\ status' = "ok" /\ UNCHANGED stored
  /\ corpus' = Compiled(source)
  /\ expected' = [i \in DOMAIN source |->
                    [id |-> i, date |-> source[i].date, text |-> source[i].text,
                     sentences |-> <<>>]]

\* Without IDs and dates the texts are all that can be told apart.
CreateTexts(source) ==
  /\ status' = "ok" /\ UNCHANGED stored
  /\ \A i \in DOMAIN source : source[i].date = 0
  /\ corpus' = JoinedTexts(source)
  /\ expected' = <<[id |-> 0, date |-> 0, text |-> JoinedTexts(source).text, sentences |-> <<>>]>>

\* tokenize(), with manipulators that remove words.
Tokenize(removed) ==
  /\ Ready
  /\ Becomes(IF corpus.tokenized THEN Retokenized(corpus, removed) ELSE Tokenized(corpus, removed),
             [i \in DOMAIN expected |->
                [expected[i] EXCEPT !.text = <<>>,
                                    !.sentences = Without(IF corpus.tokenized THEN @
                                                          ELSE Sentences(expected[i].text), removed)]])

FilterArticles(keep) ==
  /\ Ready /\ corpus.tokenized /\ keep \subseteq DOMAIN corpus.articles
  /\ Becomes(WithArticles(corpus, keep),
             SelectSeq(expected, LAMBDA a : \A k \in DOMAIN corpus.articles \ keep :
                                             corpus.articles[k].v # a.id))

FilterByDate(from, to) ==
  /\ Ready
  /\ Becomes(IF corpus.dates = <<>> THEN EmptyCorpus ELSE WithDates(corpus, from, to),
             SelectSeq(expected, LAMBDA a : InRange(a, from, to) /\ HasWords(a)))

\* The corpus is cut into chunks and stored in the database.
Store(k) ==
  /\ Ready
  /\ LET chunks == IF corpus.tokenized THEN ChunksOfTokens(corpus, k) ELSE ChunksOfText(corpus, k)
     IN IF chunks = <<>>
        THEN status' = "exception" /\ UNCHANGED stored
        ELSE stored' = [chunks |-> chunks, size |-> k] /\ UNCHANGED status
  /\ UNCHANGED <<corpus, expected>>

\* Another corpus is made of the chunks, by this thread or by a later one.
Load ==
  /\ stored # NotStored /\ stored' = NotStored
  /\ corpus' = IF corpus.tokenized THEN TokensOfChunks(stored.chunks) ELSE TextOfChunks(stored.chunks)
  /\ UNCHANGED <<status, expected>>

CorpusNext ==
  \/ status = "new" /\ \E source \in Sources : Create(source) \/ CreateTexts(source)
  \/ \E removed \in StopWords : Tokenize(removed)
  \/ \E keep \in SUBSET (1..MaxArticles) : FilterArticles(keep)
  \/ \E from, to \in 1..MaxDate : from <= to /\ FilterByDate(from, to)
  \/ \E k \in ChunkSizes : Store(k)
  \/ Load

CorpusSpec == CorpusInit /\ [][CorpusNext]_corpusVars

-----------------------------------------------------------------------------

\* Positions of consecutive parts, a separator of n bytes between two of them.
Positions(parts, n, values) ==
  [i \in DOMAIN parts |->
     Entry(Len(FlattenSeq(SubSeq(parts, 1, i - 1))) + n * (i - 1), Len(parts[i]), values[i])]

\* The map of the articles that have a date.
DateMap(map) ==
  LET dated == {i \in DOMAIN map : expected[i].date # 0}
      firsts == {i \in dated : i = 1 \/ expected[i - 1].date # expected[i].date}
      s == SetToSortSeq(firsts, <)
      lastOf(i) == Max({j \in dated : expected[j].date = expected[i].date})
  IN [n \in DOMAIN s |-> Entry(map[s[n]].p, End(map[lastOf(s[n])]) - map[s[n]].p,
                               expected[s[n]].date)]

Ids == [i \in DOMAIN expected |-> expected[i].id]
Articles(map) == IF expected # <<>> /\ expected[1].id = 0 THEN <<>> ELSE map

\* A continuous corpus is made of its articles, separated by spaces; the article
\* map points to each of them, and the date map to the first until the last of
\* each date.  So after create(), after filterByDate(), and after the corpus has
\* been cut by copyChunksContinuous() at any size, wherever a chunk ends in the
\* middle of an article, of a character, or before a space, and put together
\* again by combineContinuous().
TextIsThatOfArticles ==
  status = "ok" /\ ~corpus.tokenized =>
    LET texts == [i \in DOMAIN expected |-> expected[i].text]
        map == Positions(texts, 1, Ids)
    IN /\ corpus.text = FlattenSeq([i \in DOMAIN texts |->
                                      IF i = 1 THEN texts[i] ELSE <<Space>> \o texts[i]])
       /\ corpus.articles = Articles(map)
       /\ corpus.dates = DateMap(map)

\* A tokenized corpus has the words of its articles that no manipulator and no
\* filter has removed, and its three maps say of which sentence, article and
\* date each of them is; whatever the order of tokenize(), filterArticles(),
\* filterByDate(), and of cutting with copyChunksTokenized() and putting
\* together with combineTokenized(), which may split a token in two.
TokensAreThoseOfArticles ==
  status = "ok" /\ corpus.tokenized /\ corpus.tokens # <<>> =>
    LET words == [i \in DOMAIN expected |-> FlattenSeq(expected[i].sentences)]
        sentences == FlattenSeq([i \in DOMAIN expected |-> expected[i].sentences])
        map == Positions(words, 0, Ids)
    IN /\ corpus.tokens = FlattenSeq(words) /\ corpus.bytes = Bytes(corpus.tokens)
       /\ corpus.sentences = Positions(sentences, 0, [i \in DOMAIN sentences |-> 0])
       /\ NonEmptyEntries(corpus.articles) = NonEmptyEntries(Articles(map))
       /\ NonEmptyEntries(corpus.dates) = NonEmptyEntries(DateMap(map))

\* Both, for a corpus is either continuous or tokenized.
TextsAreThoseOfArticles == TextIsThatOfArticles /\ TokensAreThoseOfArticles

\* No chunk is empty or larger than the size that the database allows, and none
\* begins or ends in the middle of a character (getValidLengthOfChunk()).
ChunksFit ==
  \A i \in DOMAIN stored.chunks :
    LET chunk == stored.chunks[i]
    IN /\ chunk.text # <<>> /\ Len(chunk.text) <= stored.size
       /\ chunk.text[1] # "T" /\ Last(chunk.text) # "L"

=============================================================================
