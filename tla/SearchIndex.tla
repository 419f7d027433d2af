----------------------------- MODULE SearchIndex -----------------------------
(***************************************************************************)
(* The search engine of mini-search-engine: the index that documents are   *)
(* added to in any order (inverted_index.c, search_engine.c), boolean      *)
(* queries over it (query_parser.c), the codes for its posting lists       *)
(* (index_compression.c) and the corrector of words (spell_correction.c).  *)
(* A document is the sequence of terms the analyzer makes of its text, a   *)
(* term a sequence of letters, a query a sequence of words and operators.  *)
(* Scores are floating point and left out.                                 *)
(***************************************************************************)
EXTENDS Handle, Integers, FiniteSets, SequencesExt

CONSTANTS SearchDocs, SearchTexts,  \* ids, and the texts they may get
          SearchSteps,              \* bound on the documents indexed
          TableSize,                \* HASH_MAP_SIZE, a power of two
          MaxPositions,             \* MAX_POSITIONS
          SearchQueries,            \* sequences of [t, w, star]; see PlainWord
          PostingInputs,            \* sequences of numbers to compress
          SpellWords, SpellLetters  \* a dictionary, and the alphabet of variants

-----------------------------------------------------------------------------
(* Posting lists: entries in the order their documents came.                *)

Posting(doc, tf, pos) == [doc |-> doc, tf |-> tf, pos |-> pos]

PostingAdd(list, doc, p) ==
  LET at == {i \in DOMAIN list : list[i].doc = doc}
  IN  IF at = {} THEN Append(list, Posting(doc, 1, <<p>>))
      ELSE LET i == CHOOSE j \in at : \A k \in at : j <= k
           IN  [list EXCEPT ![i].tf = @ + 1,
                            ![i].pos = IF Len(@) < MaxPositions THEN Append(@, p) ELSE @]

\* An entry is added, and then the last entry gets its frequency.
CopiedTo(acc, e) == LET l == PostingAdd(acc, e.doc, 0) IN [l EXCEPT ![Len(l)].tf = e.tf]
Copied(list)     == FoldLeft(CopiedTo, <<>>, list)

\* Slip: after a match only one side moves on.
RECURSIVE IntersectOne(_, _)
IntersectOne(a, b) ==
  IF a = <<>> \/ b = <<>> THEN <<>>
  ELSE IF Head(a).doc < Head(b).doc THEN IntersectOne(Tail(a), b)
  ELSE IF Head(a).doc > Head(b).doc THEN IntersectOne(a, Tail(b))
  ELSE <<Posting(Head(a).doc, Head(a).tf + Head(b).tf, <<>>)>>

\* Only here is the sum of the frequencies limited.
RECURSIVE Intersect(_, _)
Intersect(a, b) ==
  IF a = <<>> \/ b = <<>> THEN <<>>
  ELSE IF Head(a).doc < Head(b).doc THEN Intersect(Tail(a), b)
  ELSE IF Head(a).doc > Head(b).doc THEN Intersect(a, Tail(b))
  ELSE LET tf == Head(a).tf + Head(b).tf
       IN  <<Posting(Head(a).doc, IF tf > MaxPositions THEN MaxPositions ELSE tf, <<>>)>>
             \o Intersect(Tail(a), Tail(b))

RECURSIVE UnionOf(_, _)
UnionOf(a, b) ==
  IF a = <<>> THEN [i \in DOMAIN b |-> [b[i] EXCEPT !.pos = <<>>]]
  ELSE IF b = <<>> THEN [i \in DOMAIN a |-> [a[i] EXCEPT !.pos = <<>>]]
  ELSE IF Head(a).doc < Head(b).doc
       THEN <<[Head(a) EXCEPT !.pos = <<>>]>> \o UnionOf(Tail(a), b)
  ELSE IF Head(b).doc < Head(a).doc
       THEN <<[Head(b) EXCEPT !.pos = <<>>]>> \o UnionOf(a, Tail(b))
  ELSE <<Posting(Head(a).doc, Head(a).tf + Head(b).tf, <<>>)>> \o UnionOf(Tail(a), Tail(b))

RECURSIVE Excluded(_, _, _)
Excluded(a, b, acc) ==
  IF a = <<>> THEN acc
  ELSE IF b # <<>> /\ Head(b).doc < Head(a).doc THEN Excluded(a, Tail(b), acc)
  ELSE IF b # <<>> /\ Head(b).doc = Head(a).doc THEN Excluded(Tail(a), b, acc)
  ELSE Excluded(Tail(a), b, CopiedTo(acc, Head(a)))
Exclude(a, b) == Excluded(a, b, <<>>)

-----------------------------------------------------------------------------
(* The table of terms: linear probing; a place with no term is free.        *)

HashOf(term) == FoldLeft(LAMBDA h, c : (h * 33 + c) % TableSize, 5381, term)
NewTable     == [s \in 0..(TableSize - 1) |-> [term |-> <<>>, list |-> <<>>]]

\* The places where a probe for the term stops, and the first of them.
Stops(table, term) ==
  {i \in 0..(TableSize - 1) : table[(HashOf(term) + i) % TableSize].term \in {<<>>, term}}
TermPlace(table, term) ==
  (HashOf(term) + (CHOOSE i \in Stops(table, term) : \A j \in Stops(table, term) : i <= j))
    % TableSize

\* A term that finds the table full is dropped.
TermAdded(table, term, doc, p) ==
  IF Stops(table, term) = {} THEN table
  ELSE [table EXCEPT ![TermPlace(table, term)] =
          [term |-> term, list |-> PostingAdd(@.list, doc, p)]]

Known(table, term) ==
  Stops(table, term) # {} /\ table[TermPlace(table, term)].term = term
SearchTerm(table, term) ==
  IF Known(table, term) THEN table[TermPlace(table, term)].list ELSE <<>>

AddDoc(table, doc, tokens) ==
  FoldLeft(LAMBDA tb, i : TermAdded(tb, tokens[i], doc, i - 1), table,
           [i \in DOMAIN tokens |-> i])

\* index_build numbers the documents from 0.
IndexBuild(texts) ==
  FoldLeft(LAMBDA tb, d : AddDoc(tb, d - 1, texts[d]), NewTable, [d \in DOMAIN texts |-> d])

-----------------------------------------------------------------------------
(* Queries.                                                                 *)

PlainWord(w) == [t |-> "word", w |-> w, star |-> FALSE]
StarredWord(w) == [t |-> "word", w |-> w, star |-> TRUE]
NoQuery    == [op |-> "none"]
Starts(ts, t) == ts # <<>> /\ Head(ts).t = t

RECURSIVE ParseExpr(_), ParsePrefix(_), AndRest(_), OrRest(_)

\* In the place of a word every operator but the brackets is one.
ParseAtom(ts) ==
  IF ts = <<>> \/ Starts(ts, ")") THEN [node |-> NoQuery, rest |-> ts]
  ELSE IF Starts(ts, "(")
       THEN LET e == ParseExpr(Tail(ts))
            IN  [e EXCEPT !.rest = IF Starts(@, ")") THEN Tail(@) ELSE @]
  ELSE [node |-> [op |-> "term", word |-> Head(ts).w, star |-> Head(ts).star], rest |-> Tail(ts)]

\* A word after the other closes a phrase, which is never evaluated.
Phrased(a) ==
  LET r == ParseAtom(Tail(a.rest))
  IN  IF a.node.op # "term" THEN [a EXCEPT !.rest = Tail(@)]
      ELSE [node |-> IF r.node.op = "term" THEN [op |-> "phrase"] ELSE a.node, rest |-> r.rest]

\* Directly behind a bracket "~" is an operator, elsewhere a letter of a word.
ParsePrefix(ts) ==
  IF Starts(ts, "not")
  THEN LET p == ParsePrefix(Tail(ts)) IN [node |-> [op |-> "not", left |-> p.node], rest |-> p.rest]
  ELSE LET a == ParseAtom(ts)
           b == IF a.node.op = "term" /\ a.node.star THEN [a EXCEPT !.node.op = "prefix"] ELSE a
       IN  IF Starts(ts, "(") /\ Starts(b.rest, "~") THEN Phrased(b) ELSE b

Combined(op, l, r) ==
  [node |-> IF r.node = NoQuery THEN l.node ELSE [op |-> op, left |-> l.node, right |-> r.node],
   rest |-> r.rest]

\* Words side by side are joined as by "and".
AndRest(l) ==
  IF l.rest = <<>> \/ Starts(l.rest, ")") \/ Starts(l.rest, "or") THEN l
  ELSE IF Starts(l.rest, "and") THEN AndRest(Combined("and", l, ParsePrefix(Tail(l.rest))))
  ELSE LET r == ParsePrefix(l.rest)
       IN  IF r.node = NoQuery THEN [l EXCEPT !.rest = r.rest] ELSE AndRest(Combined("and", l, r))
ParseAnd(ts) == LET l == ParsePrefix(ts) IN IF l.node = NoQuery THEN l ELSE AndRest(l)

OrRest(l) ==
  IF Starts(l.rest, "or") THEN OrRest(Combined("or", l, ParseAnd(Tail(l.rest)))) ELSE l
ParseExpr(ts) == LET l == ParseAnd(ts) IN IF l.node = NoQuery THEN l ELSE OrRest(l)

\* What stands behind a bracket too many is not read.
QueryTree(ts) == ParseExpr(ts).node

AllDocs(n) == [d \in 1..n |-> Posting(d - 1, 1, <<0>>)]

RECURSIVE Evaluate(_, _)
Evaluate(node, h) ==
  CASE node.op = "none"   -> <<>>
    [] node.op = "term"   -> IF node.star THEN <<>> ELSE Copied(SearchTerm(h.table, node.word))
    [] node.op = "prefix" ->
         FoldLeft(LAMBDA acc, s : IF h.table[s].term # <<>> /\ IsPrefix(node.word, h.table[s].term)
                                  THEN UnionOf(acc, h.table[s].list) ELSE acc,
                  <<>>, [i \in 1..TableSize |-> i - 1])
    [] node.op = "and"    -> Intersect(Evaluate(node.left, h), Evaluate(node.right, h))
    [] node.op = "or"     -> UnionOf(Evaluate(node.left, h), Evaluate(node.right, h))
    [] node.op = "not"    -> Exclude(AllDocs(h.docs), Evaluate(node.left, h))
    [] node.op = "phrase" -> <<>>

BooleanSearch(h, query) == Copied(Evaluate(QueryTree(query), h))

\* engine_search_ex: a filter that the index does not have filters nothing.
FilteredSearch(h, query, filter, exclude) ==
  LET base == BooleanSearch(h, query)
      list == SearchTerm(h.table, filter)
  IN  IF ~Known(h.table, filter) THEN base
      ELSE IF exclude THEN Exclude(base, list) ELSE Intersect(base, list)

\* Some position of the second term at most prox behind one of the first.
RECURSIVE NearBy(_, _, _), PhraseDocs(_, _, _)
NearBy(ps, qs, prox) ==
  /\ ps # <<>> /\ qs # <<>>
  /\ \/ Head(ps) <= Head(qs) /\ Head(qs) <= Head(ps) + prox
     \/ Head(qs) > Head(ps) + prox /\ NearBy(Tail(ps), qs, prox)
     \/ Head(qs) < Head(ps) /\ NearBy(ps, Tail(qs), prox)
PhraseDocs(a, b, prox) ==
  IF a = <<>> \/ b = <<>> THEN <<>>
  ELSE IF Head(a).doc < Head(b).doc THEN PhraseDocs(Tail(a), b, prox)
  ELSE IF Head(a).doc > Head(b).doc THEN PhraseDocs(a, Tail(b), prox)
  ELSE (IF NearBy(Head(a).pos, Head(b).pos, prox) THEN <<Posting(Head(a).doc, 1, <<0>>)>> ELSE <<>>)
         \o PhraseDocs(Tail(a), Tail(b), prox)
PhraseSearch(table, s, t, prox) == PhraseDocs(SearchTerm(table, s), SearchTerm(table, t), prox)

-----------------------------------------------------------------------------
NewEngine == [kind |-> "search", table |-> NewTable, docs |-> 0,
              lengths |-> [d \in SearchDocs |-> 0], total |-> 0, written |-> <<>>]

\* The caller chooses the ids, and may use one again: nothing is taken back.
IndexDocument(doc, tokens) ==
  /\ Len(handle.written) < SearchSteps
  /\ handle' = [handle EXCEPT !.table = AddDoc(@, doc, tokens),
                              !.docs = IF doc >= @ THEN doc + 1 ELSE @,
                              !.lengths[doc] = Len(tokens), !.total = @ + Len(tokens),
                              !.written = Append(@, <<doc, tokens>>)]

SearchNext == Holding("search") /\ \E d \in SearchDocs, t \in SearchTexts : IndexDocument(d, t)

-----------------------------------------------------------------------------
(* Codes for the numbers of a posting list, the smallest unit being a bit,  *)
(* a byte or a word as in the code.  None of the bit codes checks its room. *)

RECURSIVE VByte(_), VByteRead(_), GammaRead(_, _), EliasRead(_, _), GolombRead(_, _, _)
VByte(n) == IF n >= 128 THEN <<(n % 128) + 128>> \o VByte(n \div 128) ELSE <<n>>
VByteEncode(nums) == FlattenSeq([i \in DOMAIN nums |-> VByte(nums[i])])
VByteRead(bytes) ==
  IF bytes = <<>> THEN <<>>
  ELSE LET last == SelectInSeq(bytes, LAMBDA b : b < 128)
           n    == FoldRight(LAMBDA b, v : (b % 128) + 128 * v, SubSeq(bytes, 1, last), 0)
       IN  <<n>> \o VByteRead(SubSeq(bytes, last + 1, Len(bytes)))

\* A list that falls is refused; there is one gap for every number.
Ascending(nums) == \A i \in 2..Len(nums) : nums[i - 1] <= nums[i]
Gaps(nums)      == [i \in DOMAIN nums |-> IF i = 1 THEN nums[1] ELSE nums[i] - nums[i - 1]]
FromGaps(gaps)  == FoldLeft(LAMBDA acc, g : Append(acc, IF acc = <<>> THEN g ELSE Last(acc) + g),
                            <<>>, gaps)

\* How many values a word takes, and of how many bits.
S9Counts == <<28, 14, 9, 7, 5, 4, 3, 2, 1>>
S9Bits   == <<1, 2, 3, 4, 5, 7, 9, 14, 28>>
S9Fits(nums, s) ==
  S9Counts[s] <= Len(nums) /\ \A i \in 1..S9Counts[s] : nums[i] < 2^S9Bits[s]
S9Choice(nums) == LET fit == {s \in 1..9 : S9Fits(nums, s)}
                  IN  IF fit = {} THEN 9 ELSE CHOOSE s \in fit : \A u \in fit : s <= u
RECURSIVE Simple9(_, _)
Simple9(nums, room) ==
  IF nums = <<>> \/ room = 0 THEN <<>>
  ELSE LET s == S9Choice(nums)
           c == S9Counts[s]
       IN  <<[sel |-> s, vals |-> [i \in 1..c |-> nums[i] % 2^S9Bits[s]]]>>
             \o Simple9(SubSeq(nums, c + 1, Len(nums)), room - 1)
Simple9Decode(words) == FlattenSeq([i \in DOMAIN words |-> words[i].vals])

Repeated(bit, n)  == [i \in 1..n |-> bit]
Binary(n, width)  == [i \in 1..width |-> (n \div 2^(width - i)) % 2]
NumberOf(bits)    == FoldLeft(LAMBDA v, b : 2 * v + b, 0, bits)
WidthOf(n)        == CHOOSE e \in 0..29 : 2^e <= n /\ n < 2^(e + 1)
OneAtLeast(n)     == IF n = 0 THEN 1 ELSE n
Padded(codes) ==
  LET bits == FlattenSeq(codes)
  IN  bits \o Repeated(0, (8 - (Len(bits) % 8)) % 8)

GammaCode(n) == Repeated(0, WidthOf(OneAtLeast(n)))
                  \o Binary(OneAtLeast(n), WidthOf(OneAtLeast(n)) + 1)
EliasCode(n) == LET w == WidthOf(OneAtLeast(n))
                IN  GammaCode(w + 1) \o Binary(OneAtLeast(n) % 2^w, w)
GolombCode(n, k) == Repeated(1, n \div 2^k) \o <<0>> \o Binary(n % 2^k, k)

Lead(bits, bit) ==
  LET i == SelectInSeq(bits, LAMBDA b : b # bit) IN IF i = 0 THEN Len(bits) ELSE i - 1
Cut(bits, n) == SubSeq(bits, n + 1, Len(bits))

\* When nothing is left behind the 1, the decoder takes it for padding.
GammaRead(bits, room) ==
  LET zeros == Lead(bits, 0)
      rest  == Cut(bits, zeros + 1)
  IN  IF room = 0 \/ rest = <<>> THEN <<>>
      ELSE <<2^zeros + NumberOf(SubSeq(rest, 1, zeros))>> \o GammaRead(Cut(rest, zeros), room - 1)
EliasRead(bits, room) ==
  LET zeros == Lead(bits, 0)
      rest  == Cut(bits, zeros + 1)
      w     == 2^zeros + NumberOf(SubSeq(rest, 1, zeros)) - 1
      low   == Cut(rest, zeros)
  IN  IF room = 0 \/ rest = <<>> \/ w > Len(low) THEN <<>>
      ELSE <<2^w + NumberOf(SubSeq(low, 1, w))>> \o EliasRead(Cut(low, w), room - 1)

\* The zeros of the padding read as further numbers, if there is room for them.
GolombRead(bits, k, room) ==
  LET ones == Lead(bits, 1)
      rest == Cut(bits, ones + 1)
  IN  IF bits = <<>> \/ room = 0 \/ k > Len(rest) THEN <<>>
      ELSE <<ones * 2^k + NumberOf(SubSeq(rest, 1, k))>> \o GolombRead(Cut(rest, k), k, room - 1)

-----------------------------------------------------------------------------
(* Distances between words, and what the corrector makes of them.           *)

LeastOf(S) == CHOOSE n \in S : \A m \in S : n <= m
Places(w)  == [i \in DOMAIN w |-> i]

EditRow(prev, s, c, j) ==
  FoldLeft(LAMBDA row, i : Append(row, LeastOf({prev[i + 1] + 1, row[i] + 1,
                                                prev[i] + (IF s[i] = c THEN 0 ELSE 1)})),
           <<j>>, Places(s))
\* The rows run along the shorter word.
Levenshtein(s, t) ==
  LET short == IF Len(s) > Len(t) THEN t ELSE s
      long  == IF Len(s) > Len(t) THEN s ELSE t
  IN  Last(FoldLeft(LAMBDA row, j : EditRow(row, short, long[j], j),
                    [i \in 1..(Len(short) + 1) |-> i - 1], Places(long)))

\* rows[i] is the row of the first i - 1 letters of s.
MatrixRow(rows, s, t, i) ==
  FoldLeft(LAMBDA row, j :
             Append(row, LeastOf({rows[i][j + 1] + 1, row[j] + 1,
                                  rows[i][j] + (IF s[i] = t[j] THEN 0 ELSE 1)} \cup
                                 (IF i > 1 /\ j > 1 /\ s[i] = t[j - 1] /\ s[i - 1] = t[j]
                                  THEN {rows[i - 1][j - 1] + 1} ELSE {}))),
           <<i>>, Places(t))
Damerau(s, t) ==
  Last(Last(FoldLeft(LAMBDA rows, i : Append(rows, MatrixRow(rows, s, t, i)),
                     <<[j \in 1..(Len(t) + 1) |-> j - 1]>>, Places(s))))

Deletions(w)      == {RemoveAt(w, i) : i \in DOMAIN w}
Insertions(w)     == {InsertAt(w, i, c) : i \in 1..(Len(w) + 1), c \in SpellLetters}
Substitutions(w)  == UNION {{[w EXCEPT ![i] = c] : c \in SpellLetters \ {w[i]}} : i \in DOMAIN w}
Transpositions(w) == {[w EXCEPT ![i] = w[i + 1], ![i + 1] = w[i]] : i \in 1..(Len(w) - 1)}
Variants(w)       == IF w = <<>> THEN {}
                     ELSE Deletions(w) \cup Insertions(w) \cup Substitutions(w) \cup Transpositions(w)

\* The scan ends when there is no room: what is found first is kept, not what is nearest.
SpellCorrect(w, dictionary, max, limit) ==
  FoldLeft(LAMBDA found, t :
             LET d  == Levenshtein(w, t)
                 at == Cardinality({i \in DOMAIN found : found[i].dist <= d})
             IN  IF Len(found) = max \/ d > limit THEN found
                 ELSE InsertAt(found, at + 1, [word |-> t, dist |-> d]),
           <<>>, dictionary)

\* Letters 1..26 to digits; 0 for those that are skipped.
SoundexDigit == <<0, 1, 2, 3, 0, 1, 2, 0, 0, 2, 2, 4, 5, 5, 0, 1, 2, 6, 2, 3, 0, 1, 0, 2, 0, 2>>
SoundexStep(a, c) ==
  LET d == SoundexDigit[c]
  IN  IF Len(a.code) = 4 THEN a
      ELSE [code |-> IF d = 0 \/ d = a.prev THEN a.code ELSE Append(a.code, d), prev |-> d]
Soundex(w) ==
  IF w = <<>> THEN <<>>
  ELSE LET code == FoldLeft(SoundexStep, [code |-> <<w[1]>>, prev |-> SoundexDigit[w[1]]], Tail(w)).code
       IN  code \o Repeated(0, 4 - Len(code))

\* The runs of n letters of a padded word, and how many two words have in common.
Grams(w, n) ==
  LET padded == Repeated(0, n - 1) \o w \o Repeated(0, n - 1)
  IN  [i \in 1..(Len(padded) - n + 1) |-> SubSeq(padded, i, i + n - 1)]
Shared(s, t, n) ==
  FoldLeft(LAMBDA left, g : LET i == SelectInSeq(left, LAMBDA x : x = g)
                            IN  IF i = 0 THEN left ELSE RemoveAt(left, i),
           Grams(t, n), Grams(s, n))
\* The similarity as a fraction.
Jaccard(s, t, n) ==
  LET common == Len(Grams(t, n)) - Len(Shared(s, t, n))
  IN  IF s = t THEN <<1, 1>> ELSE <<common, Len(Grams(s, n)) + Len(Grams(t, n)) - common>>

-----------------------------------------------------------------------------
SearchInit ==
  \/ handle = NewEngine
  \/ \E nums \in PostingInputs : handle = [kind |-> "postings", in |-> nums]
  \/ \E w \in ToSet(SpellWords) : handle = [kind |-> "spell", w |-> w]

-----------------------------------------------------------------------------
(* What the texts say.                                                      *)

Times(h, term, d) ==
  FoldLeft(LAMBDA n, e : IF e[1] = d THEN n + Cardinality({i \in DOMAIN e[2] : e[2][i] = term})
                         ELSE n, 0, h.written)
HasTerm(h, term, d) == Known(h.table, term) /\ Times(h, term, d) > 0
DocsOf(list) == {list[i].doc : i \in DOMAIN list}
InOrder(h)   == \A i, j \in DOMAIN h.written : i < j => h.written[i][1] < h.written[j][1]
Terms(h)     == UNION {ToSet(h.written[i][2]) : i \in DOMAIN h.written}

RECURSIVE Matches(_, _, _)
Matches(node, h, d) ==
  CASE node.op = "none" \/ node.op = "phrase" -> FALSE
    [] node.op = "term"   -> ~node.star /\ HasTerm(h, node.word, d)
    [] node.op = "prefix" -> \E t \in Terms(h) : IsPrefix(node.word, t) /\ HasTerm(h, t, d)
    [] node.op = "and"    -> Matches(node.left, h, d) /\ Matches(node.right, h, d)
    [] node.op = "or"     -> Matches(node.left, h, d) \/ Matches(node.right, h, d)
    [] node.op = "not"    -> ~Matches(node.left, h, d)

\* Queries without brackets mean a choice of conjunctions of words and their negations.
IsFlat(q) ==
  \A i \in DOMAIN q :
    /\ q[i].t \in {"word", "and", "or", "not"} /\ (q[i].t = "word" => ~q[i].star)
    /\ q[i].t \in {"and", "or"} => /\ 1 < i /\ i < Len(q)
                                   /\ q[i - 1].t = "word" /\ q[i + 1].t \in {"word", "not"}
    /\ q[i].t = "not" => i < Len(q) /\ q[i + 1].t = "word"
FlatMatches(q, h, d) ==
  \E i \in DOMAIN q :
    /\ q[i].t = "word"
    /\ \A j \in DOMAIN q :
         (q[j].t = "word" /\ \A k \in DOMAIN q : ~(q[k].t = "or" /\ (i < k) # (j < k)))
           => HasTerm(h, q[j].w, d) # (j > 1 /\ q[j - 1].t = "not")

(* A posting list has every document once, with the occurrences of the term in all
   the texts it was given, and a term is missing only from a full table: the index
   of engine_index_document. *)
IndexHoldsTexts ==
  Holding("search") =>
    /\ \A t \in Terms(handle) :
         LET list == SearchTerm(handle.table, t)
         IN  /\ Known(handle.table, t) \/ \A s \in DOMAIN handle.table : handle.table[s].term # <<>>
             /\ Known(handle.table, t) =>
                  /\ \A i, j \in DOMAIN list : list[i].doc = list[j].doc => i = j
                  /\ \A d \in SearchDocs :
                       IF d \in DocsOf(list)
                       THEN \E i \in DOMAIN list :
                              /\ list[i].doc = d /\ list[i].tf = Times(handle, t, d)
                              /\ Len(list[i].pos) = LeastOf({list[i].tf, MaxPositions})
                       ELSE \A e \in ToSet(handle.written) : e[1] = d => t \notin ToSet(e[2])
                              \/ ~Known(handle.table, t)
    /\ (\A i \in DOMAIN handle.written : handle.written[i][1] = i - 1)
         => handle.table = IndexBuild([i \in DOMAIN handle.written |-> handle.written[i][2]])

RECURSIVE OpsOf(_)
OpsOf(node) ==
  CASE node.op \in {"and", "or"} -> {node.op} \cup OpsOf(node.left) \cup OpsOf(node.right)
    [] node.op = "not" -> {"not"} \cup OpsOf(node.left)
    [] OTHER -> {node.op}

(* Whatever order documents come in, a boolean query without "not" gives only documents
   its tree asks for, and one without "and" too gives all of them, each once: "and" of
   lists out of order may miss some, and "not" may give some it should leave out. *)
AnyOrderFinds ==
  \A q \in SearchQueries :
    LET found  == BooleanSearch(handle, q)
        asked  == {d \in 0..(handle.docs - 1) : Matches(QueryTree(q), handle, d)}
        within == OpsOf(QueryTree(q))
    IN  /\ "not" \notin within => DocsOf(found) \subseteq asked
        /\ within \cap {"and", "not"} = {} => asked \subseteq DocsOf(found)
        /\ \A i, j \in DOMAIN found : found[i].doc = found[j].doc => i = j

(* When they come in the order of their ids, a boolean query gives the documents
   its tree and, without brackets, its words ask for, in that order; a filter keeps or
   takes away those of its term, and a phrase those with both words near each other. *)
QueriesFindDocuments ==
  /\ Holding("search") => AnyOrderFinds
  /\ Holding("search") /\ InOrder(handle) =>
    /\ \A q \in SearchQueries :
         LET found == BooleanSearch(handle, q)
             ids   == 0..(handle.docs - 1)
         IN  /\ \A i \in 2..Len(found) : found[i - 1].doc < found[i].doc
             /\ DocsOf(found) = {d \in ids : Matches(QueryTree(q), handle, d)}
             /\ (q # <<>> /\ IsFlat(q)) => DocsOf(found) = {d \in ids : FlatMatches(q, handle, d)}
             /\ \A t \in Terms(handle), out \in BOOLEAN :
                  Known(handle.table, t) =>
                    DocsOf(FilteredSearch(handle, q, t, out))
                      = {d \in DocsOf(found) : HasTerm(handle, t, d) # out}
    /\ \A s, t \in Terms(handle) :
         (Known(handle.table, s) /\ Known(handle.table, t)) =>
           LET near == DocsOf(PhraseSearch(handle.table, s, t, 1))
               wide == {e \in ToSet(handle.written) :
                          \E i, j \in DOMAIN e[2] : e[2][i] = s /\ e[2][j] = t /\ j - i \in 0..1}
           IN  /\ near \subseteq {e[1] : e \in wide}
               /\ \A e \in wide : (\A u \in {s, t} : Times(handle, u, e[1]) <= MaxPositions)
                                    => e[1] \in near

(* Every code gives its numbers back: gaps of ascending lists, bytes, words, and bits,
   where zero counts as one for the Elias codes, a last one that fills its byte is
   lost, and the padding of a Golomb code is read as zeros if the caller has room. *)
PostingsReadBack ==
  Holding("postings") =>
    LET nums  == handle.in
        ones  == [i \in DOMAIN nums |-> OneAtLeast(nums[i])]
        Lost(bits) == nums # <<>> /\ Last(ones) = 1 /\ Last(bits) = 1
        Kept(bits) == IF Lost(bits) THEN Front(ones) ELSE ones
        gamma == Padded([i \in DOMAIN nums |-> GammaCode(nums[i])])
        elias == Padded([i \in DOMAIN nums |-> EliasCode(nums[i])])
        room  == Len(nums) + 8
    IN  /\ VByteRead(VByteEncode(nums)) = nums
        /\ Ascending(nums) => FromGaps(Gaps(nums)) = nums
        /\ Simple9Decode(Simple9(nums, room)) = nums
        /\ gamma # <<>> => GammaRead(gamma, room) = Kept(gamma)
        /\ elias # <<>> => EliasRead(elias, room) = Kept(elias)
        /\ \A k \in 0..2 :
             LET bits == Padded([i \in DOMAIN nums |-> GolombCode(nums[i], k)])
                 pad  == Len(bits) - FoldLeft(LAMBDA a, n : a + Len(GolombCode(n, k)), 0, nums)
             IN  /\ GolombRead(bits, k, Len(nums)) = nums
                 /\ GolombRead(bits, k, room) = nums \o Repeated(0, pad \div (k + 1))

(* The edit distance is a metric, one step of it is one deletion, insertion or
   substitution, with transpositions one of those too, words at a distance share the
   letter runs they must, doubling a letter keeps the sound, and the corrector gives the
   first words of the dictionary within the limit, by distance: nearer words further
   down the dictionary are not reached once there are as many as were asked for. *)
SpellingIsClose ==
  Holding("spell") =>
    LET w == handle.w
    IN  /\ \A t \in ToSet(SpellWords) :
             LET d == Levenshtein(w, t)
                 common == Len(Grams(t, 2)) - Len(Shared(w, t, 2))
             IN  /\ (d = 0) = (w = t) /\ d = Levenshtein(t, w)
                 /\ \A u \in ToSet(SpellWords) : d <= Levenshtein(w, u) + Levenshtein(u, t)
                 /\ (w # <<>> /\ w # t) =>
                      /\ (d = 1) = (t \in Variants(w) \ (Transpositions(w) \ (Deletions(w) \cup Insertions(w) \cup Substitutions(w))))
                      /\ (Damerau(w, t) = 1) = (t \in Variants(w))
                 /\ Damerau(w, t) <= d /\ Damerau(w, t) = Damerau(t, w)
                 /\ common >= LeastOf({Len(w), Len(t)}) + 1 - 2 * d
                 /\ Jaccard(w, t, 2)[1] <= Jaccard(w, t, 2)[2] /\ Jaccard(w, t, 2) = Jaccard(t, w, 2)
        /\ \A i \in DOMAIN w : Soundex(InsertAt(w, i, w[i])) = Soundex(w)
        /\ \A max \in 1..3, limit \in 0..2 :
             LET found == SpellCorrect(w, SpellWords, max, limit)
                 near  == SelectSeq(SpellWords, LAMBDA t : Levenshtein(w, t) <= limit)
             IN  /\ \A i \in 2..Len(found) : found[i - 1].dist <= found[i].dist
                 /\ {found[i].word : i \in DOMAIN found}
                      = ToSet(SubSeq(near, 1, LeastOf({max, Len(near)})))
=============================================================================
