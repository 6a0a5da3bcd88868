----------------------------- MODULE PlateReading -----------------------------
(***************************************************************************)
(* Reading one number plate: the OCR of its text lines (OCR::performOCR,   *)
(* TesseractOcr::recognize_line) and the search for its best readings      *)
(* (class PostProcess, RegexRule).                                         *)
(*                                                                         *)
(* Every character box yields, in every threshold image, some letters with *)
(* confidences.  Letters are collected by position; a reading picks one    *)
(* letter at every position, and readings are looked at in the order of    *)
(* their total score until TopN of them have been accepted.                *)
(*                                                                         *)
(* Tesseract and the segmentation are external: they report any number of  *)
(* boxes and any letters.  Scores are integers; the sums of floats in the  *)
(* code are rounded, which is left out.  A pick maps a position to the     *)
(* rank of the letter there, from 1 on.                                    *)
(***************************************************************************)
EXTENDS Integers, Sequences, SequencesExt

CONSTANTS
  Shapes,                 \* bound: the numbers of boxes of the text lines
  Thresholds,             \* number of threshold images
  Heard,                  \* what Tesseract reports of a box: sequences of
                          \* choices [letter, conf], best first
  MinConfidence, SkipLevel,   \* postprocess_min_confidence, ..._skip_level
  MinChars, MaxChars,     \* postprocess_min_characters, ..._max_characters
  TopN,                   \* how many readings are wanted
  Patterns,               \* the patterns loaded for every region: sets of
                          \* sequences of classes of characters
  Unknown,                \* regions that may be asked for without patterns
  MustMatch               \* must_match_pattern

ASSUME ReadingAssumption ==
  /\ Shapes \subseteq Seq(Nat) /\ Thresholds \in Nat \ {0}
  /\ Heard \subseteq Seq([letter : STRING, conf : Nat])
  /\ MinConfidence \in Nat /\ SkipLevel \in Nat
  /\ MinChars \in Nat /\ MaxChars \in Nat \ {0} /\ TopN \in Nat \ {0}
  /\ MustMatch \in {"yes", "no"}
  /\ (DOMAIN Patterns) \cap Unknown = {}

VARIABLES
  pc,           \* "segment", "lines", "search", "rank" or "read"
  rules,        \* PostProcess::rules: the patterns of every region
  region,       \* templateregion, the region whose patterns are asked for
  boxes,        \* charRegions: the number of boxes of every line
  ink,          \* colour of the text in the threshold images
  line,         \* lines read so far
  letters,      \* the letters at every position
  queue,        \* permutations: picks to look at, with their scores
  hashes,       \* permutationHashes
  misses,       \* consecutiveNonMatches
  results,      \* allPossibilities
  percents,     \* confidence of every result, once they are ranked
  best,         \* index of the best result, 0 if there is none
  readIn,       \* history: the colour of the text when a line was read
  reached,      \* history: picks that have been queued
  lost          \* history: picks dropped although never queued

searchvars == <<queue, hashes, misses, reached, lost>>
resultvars == <<results, percents, best>>
platevars == <<region, boxes, ink, readIn>>
readingvars == <<pc, rules, line, letters, platevars, searchvars, resultvars>>

Skip == "skip"          \* SKIP_CHAR
NewLine == "newline"
NoRegion == "none"      \* the empty string

ReadingInit ==
  /\ pc = "segment" /\ rules = Patterns
  /\ region = NoRegion /\ boxes = <<>> /\ ink = "white" /\ readIn = <<>>
  /\ line = 0 /\ letters = <<>>
  /\ queue = {} /\ hashes = {} /\ misses = 0 /\ reached = {} /\ lost = {}
  /\ results = <<>> /\ percents = <<>> /\ best = 0

---------------------------------------------------------------------------
(* Collecting letters.                                                     *)

(* insertLetter: a letter that is there already gains an occurrence.       *)
InsertLetter(ls, letter, l, pos, score) ==
  LET padded == ls \o [i \in 1..(pos + 1 - Len(ls)) |-> <<>>]
      here   == padded[pos + 1]
      same   == {i \in DOMAIN here : here[i].letter = letter /\ here[i].line = l}
      merged == [i \in DOMAIN here |->
                   IF i \in same
                   THEN [letter |-> letter, line |-> l,
                         total |-> here[i].total + score, occ |-> here[i].occ + 1]
                   ELSE here[i]]
      new    == [letter |-> letter, line |-> l, total |-> score, occ |-> 1]
  IN [padded EXCEPT ![pos + 1] = IF same = {} THEN Append(here, new) ELSE merged]

(* addLetter: a letter of little confidence may also be no letter at all.  *)
AddLetter(ls, letter, l, pos, conf) ==
  LET one == InsertLetter(ls, letter, l, pos, conf - MinConfidence)
  IN IF conf < MinConfidence THEN ls
     ELSE IF conf < SkipLevel
          THEN InsertLetter(one, Skip, l, pos, SkipLevel - conf)
          ELSE one

(* The characters recognize_line returns for a line: the best choice of a  *)
(* box counts twice.                                                       *)
CharsOf(heard) ==
  LET ofBox(t, b) == LET c == heard[t][b] IN
        [k \in 1..(IF c = <<>> THEN 0 ELSE Len(c) + 1) |->
           [letter |-> c[IF k = 1 THEN 1 ELSE k - 1].letter,
            conf   |-> c[IF k = 1 THEN 1 ELSE k - 1].conf,
            index  |-> b - 1]]
  IN FlattenSeq([t \in DOMAIN heard |->
                   FlattenSeq([b \in DOMAIN heard[t] |-> ofBox(t, b)])])

(* Mutant: lines one position too close.                                   *)
PositionOfOffByOne(l, index) == l * (MaxChars - 1) + index

(* Positions of different lines lie MaxChars apart.                        *)
PositionOf(l, index) == l * MaxChars + index

(* The letters a line adds to those of the lines before it.                *)
LettersWith(heard) ==
  FoldLeft(LAMBDA ls, c :
             AddLetter(ls, c.letter, line, PositionOf(line, c.index), c.conf),
           letters, CharsOf(heard))

(* performOCR: CharacterSegmenter finds the boxes and leaves white text on *)
(* black, and clear() empties the post-processor.                          *)
Segment ==
  /\ pc = "segment"
  /\ region' \in {NoRegion} \cup (DOMAIN Patterns) \cup Unknown
  /\ boxes' \in Shapes
  /\ ink' = "white" /\ readIn' = <<>>
  /\ line' = 0 /\ letters' = <<>>
  /\ results' = <<>> /\ percents' = <<>> /\ best' = 0
  /\ pc' = "lines"
  /\ UNCHANGED <<rules, searchvars>>

Inverted(colour) == IF colour = "white" THEN "black" ELSE "white"

(* One round of performOCR.  recognize_line inverts the threshold images   *)
(* in place before it reads the line.                                      *)
ReadLine ==
  /\ pc = "lines"
  /\ line < Len(boxes)
  /\ ink' = Inverted(ink)
  /\ readIn' = Append(readIn, ink')
  /\ \E heard \in [1..Thresholds -> [1..boxes[line + 1] -> Heard]] :
       letters' = LettersWith(heard)
  /\ line' = line + 1
  /\ UNCHANGED <<pc, rules, region, boxes, searchvars, resultvars>>

---------------------------------------------------------------------------
(* One permutation: what it spells, and whether it is taken.               *)

Positions == DOMAIN letters
Lettered == {i \in Positions : letters[i] # <<>>}

(* A pick takes one of the letters wherever there is one.                  *)
Ranks(i) == {r \in 1..(1 + Len(letters[i])) : r = 1 \/ r <= Len(letters[i])}
Picks == {p \in [Positions -> UNION {Ranks(i) : i \in Positions}] :
            \A i \in Positions : p[i] \in Ranks(i)}

(* The sum of the letters' scores.                                         *)
ScoreOf(pick) == MapThenSumSet(LAMBDA i : letters[i][pick[i]].total, Lettered)

(* The letters of a pick, by position, and the word they spell: with a     *)
(* line break before every letter of another line than the one before it.  *)
Chosen(pick) == LET at == SetToSortSeq(Lettered, <) IN
                  [k \in DOMAIN at |-> letters[at[k]][pick[at[k]]]]

Word(pick) ==
  LET chosen == Chosen(pick)
      lineBefore(k) == IF k = 1 THEN 0 ELSE chosen[k - 1].line
  IN FlattenSeq([k \in DOMAIN chosen |->
       (IF chosen[k].line # lineBefore(k) THEN <<NewLine>> ELSE <<>>) \o
       (IF chosen[k].letter = Skip THEN <<>> ELSE <<chosen[k].letter>>)])

Length(pick) == Cardinality({i \in Lettered : letters[i][pick[i]].letter # Skip})

(* RegexRule::match: as many characters, and each in its class.            *)
Match(word) ==
  /\ region \in DOMAIN rules
  /\ \E rule \in rules[region] : /\ Len(rule) = Len(word)
                                 /\ \A i \in DOMAIN rule : word[i] \in rule[i]

(* analyzePermutation: whether a permutation is taken.                     *)
Fits(pick) == Length(pick) \in MinChars..MaxChars

Accepted(pick) ==
  /\ Fits(pick)
  /\ \A k \in DOMAIN results : results[k].word # Word(pick)
  /\ MustMatch = "yes" /\ region # NoRegion => Match(Word(pick))

(* Looking up a region without patterns adds it, with none.                *)
RulesAfter(pick) ==
  IF Fits(pick) /\ region # NoRegion
  THEN [r \in DOMAIN rules \cup {region} |-> IF r \in DOMAIN rules THEN rules[r] ELSE {}]
  ELSE rules

ResultOf(pick) == [pick |-> pick, word |-> Word(pick), total |-> ScoreOf(pick),
                   match |-> IF Match(Word(pick)) THEN "yes" ELSE "no"]

---------------------------------------------------------------------------
(* The search, analyze and findAllPermutations.                            *)

(* Mutant: letters are left in the order in which they came.               *)
SortedNot(l) == {l}

(* letterCompare says yes for equal scores, too, so that their order after *)
(* the sort is anyone's guess.                                             *)
Descending(l) == \A i, j \in DOMAIN l : i < j => l[i].total >= l[j].total
Sorted(l) == {s \in [DOMAIN l -> ToSet(l)] : IsInjective(s) /\ Descending(s)}

FirstPick == [i \in Positions |-> 1]

StartSearch ==
  /\ pc = "lines"
  /\ line = Len(boxes)
  /\ letters' \in {ls \in [Positions -> UNION {Sorted(letters[i]) : i \in Positions}] :
                     \A i \in Positions : ls[i] \in Sorted(letters[i])}
  /\ IF letters = <<>>
     THEN pc' = "read" /\ UNCHANGED <<queue, hashes, misses, reached, lost>>
     ELSE /\ queue' = {[pick |-> FirstPick, score |-> ScoreOf(FirstPick)']}
          /\ hashes' = {} /\ misses' = 0
          /\ reached' = {FirstPick} /\ lost' = {}
          /\ pc' = "search"
  /\ UNCHANGED <<rules, line, platevars, resultvars>>

(* Mutant: the last letter of a position is never reached.                 *)
GrowsOffByOne(top) == {i \in Positions : top.pick[i] + 1 < Len(letters[i])}

(* The permutations next to one, each with the next letter at one position. *)
Grows(top) == {i \in Positions : top.pick[i] < Len(letters[i])}

Child(top, i) ==
  [pick  |-> [top.pick EXCEPT ![i] = @ + 1],
   score |-> top.score - (letters[i][top.pick[i]].total
                            - letters[i][top.pick[i] + 1].total)]

(* A score that was there before stands for a permutation visited before.  *)
Pushed(top) == {i \in Grows(top) :
                  /\ Child(top, i).score \notin hashes
                  /\ \A j \in Grows(top) :
                       j < i => Child(top, j).score # Child(top, i).score}

(* One round of the search: the best of the queue is analysed, and unless  *)
(* that ends the search, its children are queued.                          *)
Search ==
  /\ pc = "search"
  /\ \E top \in queue :
       /\ \A q \in queue : q.score <= top.score
       /\ IF Accepted(top.pick)
          THEN results' = Append(results, ResultOf(top.pick)) /\ misses' = 0
          ELSE results' = results /\ misses' = misses + 1
       /\ IF Len(results') >= TopN \/ misses' >= 2 * TopN
          THEN /\ queue' = queue \ {top}
               /\ pc' = "rank"
               /\ UNCHANGED <<hashes, reached, lost>>
          ELSE LET kids == {Child(top, i) : i \in Pushed(top)} IN
               /\ queue' = (queue \ {top}) \cup kids
               /\ hashes' = hashes \cup {k.score : k \in kids}
               /\ reached' = reached \cup {k.pick : k \in kids}
               /\ lost' = lost \cup
                    ({Child(top, i).pick : i \in Grows(top)} \ reached')
               /\ pc' = IF queue' = {} THEN "rank" ELSE "search"
       /\ rules' = RulesAfter(top.pick)
  /\ UNCHANGED <<line, letters, platevars, percents, best>>

(* The best letters' average confidence.                                   *)
MaxPercent ==
  MapThenSumSet(LAMBDA i : letters[i][1].total \div letters[i][1].occ
                             + MinConfidence, Lettered)
    \div Cardinality(Lettered)

(* The quotient of two floats; 0 / 0 is not a number.                      *)
NotANumber == -1

Percent(total, highest) ==
  IF highest = 0 THEN NotANumber ELSE (MaxPercent * total) \div highest

(* The first result that matches the region is the best, or the first one. *)
Matching == {k \in DOMAIN results : results[k].match = "yes"}

(* Mutant: the search for a match does not stop at the first one.          *)
BestIndexLast == IF Matching = {} THEN 1 ELSE Max(Matching)

BestIndex == IF Matching = {} THEN 1 ELSE Min(Matching)

(* The rest of analyze, after findAllPermutations.                         *)
Rank ==
  /\ pc = "rank"
  /\ percents' = [k \in DOMAIN results |->
                    Percent(results[k].total, results[1].total)]
  /\ best' = IF results = <<>> THEN 0 ELSE BestIndex
  /\ queue' = {} /\ hashes' = {} /\ misses' = 0
  /\ reached' = {} /\ lost' = {}
  /\ pc' = "read"
  /\ UNCHANGED <<rules, line, letters, platevars, results>>

ReadingNext == Segment \/ ReadLine \/ StartSearch \/ Search \/ Rank

ReadingSpec == ReadingInit /\ [][ReadingNext]_readingvars

---------------------------------------------------------------------------
(* Properties.                                                             *)

(* Letters, or that there is none, with what speaks for them.              *)
Symbol == STRING \cup {Skip}
Letter == [letter : Symbol, line : Nat, total : Nat, occ : Nat \ {0}]

QueuedPicks == {q.pick : q \in queue}

LettersTyped == letters \in Seq(Seq(Letter))

(* The score that is carried from a permutation to its children is the sum *)
(* of its letters' scores.                                                 *)
CarriedIsTotal == pc \in {"search", "rank"} =>
                    \A q \in queue : q.score = ScoreOf(q.pick)

(* Types; only picks of the letters at hand are queued, with their scores. *)
ReadingTypeOK ==
  /\ pc \in {"segment", "lines", "search", "rank", "read"}
  /\ ink \in {"white", "black"}
  /\ line \in 0..Len(boxes)
  /\ LettersTyped
  /\ hashes \subseteq Int /\ misses \in Nat
  /\ pc \in {"search", "rank"} =>
       /\ queue \subseteq [pick : Picks, score : Int]
       /\ reached \subseteq Picks /\ lost \subseteq Picks
  /\ CarriedIsTotal

(* p takes letters no better than those of q.                              *)
Above(p, q) == \A i \in Positions : q[i] <= p[i]

Analysed == reached \ QueuedPicks

(* The search is exhausted or still on: it did not stop by itself.         *)
Unstopped == \/ pc = "search"
             \/ pc = "rank" /\ ~(Len(results) >= TopN \/ misses >= 2 * TopN)

(* A permutation that has not been analysed will be, unless the search     *)
(* stops before: it is queued or lies behind one that is, or behind one    *)
(* that was dropped because its score, which is taken for a hash of the    *)
(* permutation, had been seen.                                             *)
NothingElseLost ==
  Unstopped =>
    \A p \in Picks : p \in Analysed \/ \E q \in QueuedPicks \cup lost : Above(p, q)

(* Results come best first, which makes the first one, by which all are    *)
(* scaled, the highest.                                                    *)
BestFirst == \A j, k \in DOMAIN results :
               j < k => results[j].total >= results[k].total

(* As long as scores do identify permutations, no better reading is missed *)
(* than those that are reported.                                           *)
NothingBetterMissed ==
  pc \in {"search", "rank"} /\ lost = {} =>
    \A p \in Picks \ Analysed : \A k \in DOMAIN results :
      ScoreOf(p) <= results[k].total

(* The best plate matches the region's patterns if any reading does, and   *)
(* no other reading that does has a higher score.                          *)
BestIsBestMatch ==
  pc = "read" =>
    \A k \in DOMAIN results : results[k].match = "yes" =>
      /\ results[best].match = "yes"
      /\ results[best].total >= results[k].total

(* Letters of two lines come to lie at one position, where they compete,   *)
(* only if the upper line has more boxes than there are positions from its *)
(* first to the first of the lower line.                                   *)
LinesApart ==
  \A i \in Positions : \A j, k \in DOMAIN letters[i] :
    LET upper == letters[i][j].line
        lower == letters[i][k].line
    IN upper < lower => boxes[upper + 1] > (lower - upper) * MaxChars

(* Every line is read as black text on a white ground.                     *)
BlackOnWhite == \A l \in DOMAIN readIn : readIn[l] = "black"
===============================================================================
