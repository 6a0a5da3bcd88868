------------------------------ MODULE Recognition ------------------------------
(***************************************************************************)
(* Recognising the plates of one image (AlprImpl::recognizeFullDetails and *)
(* analyzeSingleCountry): every loaded country analyses the image          *)
(* analysis_count times, tweaked a little every time.  An analysis detects *)
(* regions that may be plates (Detector::aggregateRegions), reads one      *)
(* after the other (PlateReading) and looks into a region's children only  *)
(* where the region itself is no plate.  A ResultAggregator combines the   *)
(* analyses of a country, another one picks among the countries.           *)
(*                                                                         *)
(* A place stands for the rectangle of a region, and for the corners of a  *)
(* plate found there.  What OpenCV, the cascades and the features find is  *)
(* external: any of the regions of an image, any state.                    *)
(***************************************************************************)
EXTENDS PlateReading

CONSTANTS
  Tasks,        \* images and configurations:
                \*   countries  the loaded countries, in their order
                \*   analyses   analysis_count
                \*   places     places that may be detected, smallest first
                \*   finds      the sets of them an analysis may detect
                \*   inside     pairs: the centre of one lies in the other
                \*   shapes     for every place the boxes that may be found
                \*   states     what the state detectors may say, [state, conf]
  Near,         \* pairs of places whose plates overlap
  CountryOf,    \* the country of every region, with patterns or without:
                \* two countries' regions of the same name are two regions
  DefaultRegion \* what setDefaultRegion asked for, a region of every country

ASSUME TasksAssumption ==
  /\ \A t \in Tasks :
       /\ t.countries \in Seq(DOMAIN DefaultRegion) \ {<<>>}
       /\ t.analyses \in Nat \ {0}
       /\ t.places \in Seq(Range(t.places)) /\ IsInjective(t.places)
       /\ t.finds \subseteq SUBSET (DOMAIN t.places)
  /\ \A n \in Near : <<n[2], n[1]>> \in Near
  /\ \A c \in DOMAIN DefaultRegion :
       DefaultRegion[c] = NoRegion \/ CountryOf[DefaultRegion[c]] = c

VARIABLES
  task,         \* the image at hand and its configuration
  stage,        \* "detect", "next", "read", "combine", "merged" or
                \* "done"
  country,      \* index of the country at hand
  detected,     \* the regions of the analysis at hand
  regionQueue,  \* plateQueue
  place,        \* the number of the region that is being read
  stateConf,    \* regionConfidence of the plate that is being read
  plates,       \* plates of the analysis at hand
  analyses,     \* iter_aggregator: plates of the country's analyses
  merged,       \* country_aggregator: plates of the countries
  answer,       \* the response
  tried         \* history: regions the analysis at hand has looked at

recvars == <<task, stage, country, detected, regionQueue, place, stateConf,
             plates, analyses, merged, answer, tried>>
allvars == <<readingvars, recvars>>

NoPlace == 0
NoCountry == "unset"    \* a default constructed string

RecognitionInit ==
  /\ ReadingInit
  /\ task \in Tasks
  /\ stage = "detect" /\ country = 1
  /\ detected = {} /\ regionQueue = <<>> /\ place = NoPlace /\ stateConf = 0
  /\ plates = <<>> /\ analyses = <<>> /\ merged = <<>> /\ answer = <<>>
  /\ tried = {}

---------------------------------------------------------------------------
(* Detection.                                                              *)

(* aggregateRegions: a region is the child of the next larger one that     *)
(* contains its centre.  Regions are numbered by size.                     *)
Containing(found, i) == {k \in found : i < k /\ <<task.places[i], task.places[k]>> \in task.inside}

(* push_back of one region after the other, smallest first.                *)
SmallestFirst(S) ==
  MapThenFoldSet(LAMBDA i, regions : Append(regions, i), <<>>,
                 LAMBDA i : i, LAMBDA T : Max(T), S)

ChildrenIn(found, k) ==
  SmallestFirst({i \in found : Containing(found, i) # {} /\ Min(Containing(found, i)) = k})

(* Mutant: every region is put at the top as well.                         *)
TopLevelAll(found) == SmallestFirst(found)

TopLevel(found) == SmallestFirst({i \in found : Containing(found, i) = {}})

Detect ==
  /\ stage = "detect"
  /\ detected' \in task.finds
  /\ regionQueue' = TopLevel(detected')
  /\ plates' = <<>> /\ tried' = {}
  /\ stage' = "next"
  /\ UNCHANGED <<readingvars, task, country, place, stateConf, analyses, merged,
                 answer>>

---------------------------------------------------------------------------
(* One region.                                                             *)

(* Mutant: the children of a disqualified region are forgotten.            *)
DisqualifyAlone ==
  /\ stage = "next" /\ regionQueue # <<>>
  /\ tried' = tried \cup {Head(regionQueue)}
  /\ regionQueue' = Tail(regionQueue)
  /\ UNCHANGED <<readingvars, task, stage, country, detected, place, stateConf,
                 plates, analyses, merged, answer>>

(* LicensePlateCandidate disqualifies it; its children are looked at.      *)
Disqualify ==
  /\ stage = "next" /\ regionQueue # <<>>
  /\ tried' = tried \cup {Head(regionQueue)}
  /\ regionQueue' = Tail(regionQueue) \o ChildrenIn(detected, Head(regionQueue))
  /\ UNCHANGED <<readingvars, task, stage, country, detected, place, stateConf,
                 plates, analyses, merged, answer>>

(* The only region of the country, or the default one, unless the state    *)
(* detector knows better.                                                  *)
PatternsOf(c) == {r \in DOMAIN rules : CountryOf[r] = c}

(* Mutant: the only region of the country is not looked up.                *)
UsualRegionDefault == DefaultRegion[task.countries[country]]

UsualRegion == LET known == PatternsOf(task.countries[country]) IN
                 IF Cardinality(known) = 1 THEN CHOOSE r \in known : TRUE
                 ELSE DefaultRegion[task.countries[country]]

BeginReading ==
  /\ stage = "next" /\ regionQueue # <<>>
  /\ place' = Head(regionQueue)
  /\ regionQueue' = Tail(regionQueue)
  /\ tried' = tried \cup {place'}
  /\ \/ region' = UsualRegion /\ stateConf' = 0
     \/ \E s \in task.states : /\ CountryOf[s.state] = task.countries[country]
                               /\ region' = s.state /\ stateConf' = s.conf
  /\ boxes' \in task.shapes[place']
  /\ Segment
  /\ stage' = "read"
  /\ UNCHANGED <<task, country, detected, plates, analyses, merged, answer>>

Reading ==
  /\ stage = "read"
  /\ ReadLine \/ StartSearch \/ Search \/ Rank
  /\ UNCHANGED recvars

PlateRead ==
  LET top == [k \in DOMAIN results |->
                [word |-> results[k].word, percent |-> percents[k],
                 match |-> results[k].match]]
  IN [place |-> task.places[place], country |-> task.countries[country],
      region |-> region, stateConf |-> stateConf, top |-> top,
      bestPlate |-> top[IF best = 0 THEN 1 ELSE best]]

(* Mutant: the region itself is queued instead of its children.            *)
EndReadingAgain ==
  /\ stage = "read" /\ pc = "read"
  /\ IF results # <<>>
     THEN plates' = Append(plates, PlateRead) /\ UNCHANGED regionQueue
     ELSE regionQueue' = Append(regionQueue, place) /\ UNCHANGED plates
  /\ stage' = "next" /\ pc' = "segment"
  /\ UNCHANGED <<rules, line, letters, platevars, searchvars, resultvars, task,
                 country, detected, place, stateConf, analyses, merged, answer,
                 tried>>

(* The plate is added; without any reading there is none, and the region's *)
(* children are looked at.                                                 *)
EndReading ==
  /\ stage = "read" /\ pc = "read"
  /\ IF results # <<>>
     THEN plates' = Append(plates, PlateRead) /\ UNCHANGED regionQueue
     ELSE /\ regionQueue' = regionQueue \o ChildrenIn(detected, place)
          /\ UNCHANGED plates
  /\ stage' = "next" /\ pc' = "segment"
  /\ UNCHANGED <<rules, line, letters, platevars, searchvars, resultvars, task,
                 country, detected, place, stateConf, analyses, merged, answer,
                 tried>>

---------------------------------------------------------------------------
(* ResultAggregator: combining the plates of several analyses.             *)

Overlap(p, q) == p = q \/ <<p, q>> \in Near

(* Mutant: only the plate that came last into a cluster is compared.       *)
JoinedByLast(clusters, p) ==
  LET fits == {c \in DOMAIN clusters : Overlap(p.place, Last(clusters[c]).place)}
  IN IF fits = {} THEN Append(clusters, <<p>>)
     ELSE [clusters EXCEPT ![Min(fits)] = Append(@, p)]

(* findClusters: a plate joins the first cluster with a plate it overlaps. *)
Joined(clusters, p) ==
  LET fits == {c \in DOMAIN clusters :
                 \E k \in DOMAIN clusters[c] : Overlap(p.place, clusters[c][k].place)}
  IN IF fits = {} THEN Append(clusters, <<p>>)
     ELSE [clusters EXCEPT ![Min(fits)] = Append(@, p)]

Clusters(found) == FoldLeft(Joined, <<>>, FlattenSeq(found))

(* The candidates of a cluster that count, as pairs of plate and rank.  A  *)
(* percentage that is not a number is not less than MIN_CONFIDENCE.        *)
MinPercent == 75
Counts(p) == p.percent >= MinPercent \/ p.percent = NotANumber
(* Mutant: the last reading of every plate is left out.                    *)
CandidatesOffByOne(cluster) ==
  {c \in (DOMAIN cluster) \X (1..TopN) :
     c[2] < Len(cluster[c[1]].top) /\ Counts(cluster[c[1]].top[c[2]])}

Candidates(cluster) ==
  {c \in (DOMAIN cluster) \X (1..TopN) :
     c[2] <= Len(cluster[c[1]].top) /\ Counts(cluster[c[1]].top[c[2]])}

(* Mutant: a lower rank earns more points.                                 *)
PointsForLowRank(p, rank) == TopN * (4 * (p.percent - 60)
                           + (IF p.match = "yes" THEN 150 ELSE 0) + 65)
                   + 65 * (rank - 1)

(* The points of a candidate for confidence, template and rank, times TopN. *)
Points(p, rank) == TopN * (4 * (p.percent - 60)
                           + (IF p.match = "yes" THEN 150 ELSE 0) + 65)
                   - 65 * (rank - 1)

(* The entry of a word in score_hash: its points, and its first candidate  *)
(* with the best confidence.                                               *)
Entry(cluster, word) ==
  LET at(c) == cluster[c[1]].top[c[2]]
      mine  == {c \in Candidates(cluster) : at(c).word = word}
      first == CHOOSE c \in mine :
                 \A d \in mine : c[1] < d[1] \/ (c[1] = d[1] /\ c[2] <= d[2])
  IN [points |-> MapThenSumSet(LAMBDA c : Points(at(c), c[2]), mine),
      unclear |-> \E c \in mine : at(c).percent = NotANumber,
      plate |-> [at(first) EXCEPT !.percent =
                   IF @ = NotANumber THEN @ ELSE Max({at(c).percent : c \in mine})]]

(* The first TopN after std::sort by points: in any order where they are   *)
(* equal, or no numbers.                                                   *)
Entries(cluster) ==
  {Entry(cluster, w) : w \in {cluster[c[1]].top[c[2]].word : c \in Candidates(cluster)}}

Rankings(entries) ==
  {s \in [1..Min({TopN, Cardinality(entries)}) -> entries] :
     /\ IsInjective(s)
     /\ \/ \E e \in entries : e.unclear
        \/ \A k \in DOMAIN s : \A e \in entries :
             e.points > s[k].points => \E j \in 1..(k - 1) : s[j] = e}

(* findBestRegion: the region with the most confidence; without any, none. *)
BestRegions(cluster) ==
  LET sure   == {i \in DOMAIN cluster : \/ cluster[i].bestPlate.percent >= 60
                                        \/ cluster[i].bestPlate.percent = NotANumber}
      of(r)  == {i \in sure : cluster[i].region = r}
      sum(r) == MapThenSumSet(LAMBDA i : cluster[i].stateConf, of(r))
      named  == {cluster[i].region : i \in sure}
      top    == {r \in named : sum(r) > 0 /\ \A q \in named : sum(q) <= sum(r)}
  IN IF top = {} THEN {[region |-> NoRegion, conf |-> 0]}
     ELSE {[region |-> r, conf |-> sum(r) \div Cardinality(of(r))] : r \in top}

(* MERGE_COMBINE of a cluster: at most one plate, in the first one's place. *)
Combined(cluster) ==
  IF Candidates(cluster) = {} THEN {<<>>}
  ELSE UNION {{<<[place |-> cluster[1].place, country |-> NoCountry,
                  region |-> r.region, stateConf |-> r.conf,
                  top |-> [k \in DOMAIN s |-> s[k].plate],
                  bestPlate |-> s[1].plate]>> :
                 s \in Rankings(entries), r \in BestRegions(cluster)} :
              entries \in {Entries(cluster)}}

(* MERGE_PICK_BEST of a cluster: the most confident plate.                 *)
Picked(cluster) ==
  LET percent(i) == cluster[i].bestPlate.percent
      surest == {i \in DOMAIN cluster :
                 percent(i) > 0 /\ \A k \in DOMAIN cluster : percent(k) <= percent(i)}
  IN {<<cluster[IF surest = {} THEN 1 ELSE Min(surest)]>>}

(* getAggregateResults: a single result is passed on as it is.  options    *)
(* are what the clusters may be merged to.                                 *)
Merge(strategy, cluster) ==
  IF strategy = "combine" THEN Combined(cluster) ELSE Picked(cluster)

Aggregates(strategy, found) ==
  IF Len(found) = 1 THEN {found[1]}
  ELSE UNION {{FlattenSeq(f) : f \in {g \in [DOMAIN options -> UNION Range(options)] :
                                        \A c \in DOMAIN options : g[c] \in options[c]}} :
              options \in {[c \in DOMAIN cs |-> Merge(strategy, cs[c])] :
                             cs \in {Clusters(found)}}}

---------------------------------------------------------------------------
(* recognizeFullDetails.                                                   *)

EndAnalysis ==
  /\ stage = "next" /\ regionQueue = <<>>
  /\ analyses' = Append(analyses, plates)
  /\ stage' = IF Len(analyses') < task.analyses THEN "detect" ELSE "combine"
  /\ UNCHANGED <<readingvars, task, country, detected, regionQueue, place,
                 stateConf, plates, merged, answer, tried>>

CombineAnalyses ==
  /\ stage = "combine"
  /\ \E result \in Aggregates("combine", analyses) : merged' = Append(merged, result)
  /\ stage' = "merged"
  /\ UNCHANGED <<readingvars, task, country, detected, regionQueue, place,
                 stateConf, plates, analyses, answer, tried>>

NextCountry ==
  /\ stage = "merged"
  /\ IF country < Len(task.countries)
     THEN /\ country' = country + 1 /\ analyses' = <<>> /\ stage' = "detect"
          /\ UNCHANGED answer
     ELSE /\ answer' \in Aggregates("best", merged)
          /\ stage' = "done"
          /\ UNCHANGED <<country, analyses>>
  /\ UNCHANGED <<readingvars, task, detected, regionQueue, place, stateConf,
                 plates, merged, tried>>

RecognitionNext ==
  Detect \/ Disqualify \/ BeginReading \/ Reading \/ EndReading \/ EndAnalysis
    \/ CombineAnalyses \/ NextCountry

RecognitionSpec == RecognitionInit /\ [][RecognitionNext]_allvars

(* A sequential program: it goes on while it can.                          *)
FairRecognitionSpec == RecognitionSpec /\ WF_allvars(RecognitionNext)

---------------------------------------------------------------------------
(* Properties.                                                             *)

Words(p) == {p.top[k].word : k \in DOMAIN p.top}

(* Types; no region is looked at twice, and the best plate is one of the   *)
(* readings, of which there are never more than asked for.                 *)
RecognitionTypeOK ==
  /\ ReadingTypeOK
  /\ stage \in {"detect", "next", "read", "combine", "merged", "done"}
  /\ country \in DOMAIN task.countries
  /\ detected \subseteq DOMAIN task.places /\ tried \subseteq detected
  /\ ToSet(regionQueue) \subseteq detected \ tried
  /\ \A k \in DOMAIN plates : /\ plates[k].bestPlate \in ToSet(plates[k].top)
                              /\ Len(plates[k].top) <= TopN

(* What detection found at the top is looked at, and what lies in a region *)
(* is if and only if the region itself was looked at and is no plate.      *)
LookedAtIfNeeded ==
  stage = "next" /\ regionQueue = <<>> =>
    \A i \in detected :
      LET larger == Containing(detected, i) IN
        i \in tried <=> (larger # {} =>
          /\ Min(larger) \in tried
          /\ \A k \in DOMAIN plates : plates[k].place # task.places[Min(larger)])

(* The regions of a country that patterns were loaded for.                 *)
Loaded(c) == {r \in DOMAIN Patterns : CountryOf[r] = c}

(* A country with patterns for one region has its plates read by these,    *)
(* and by others only if a state without patterns is reported for it: that *)
(* one stays in the map, and the country then has two regions.  Nothing    *)
(* that other countries or the default region leave behind has this effect.*)
OnlyRegionIsUsed ==
  \A k \in DOMAIN plates :
    LET c == plates[k].country IN
      Cardinality(Loaded(c)) = 1 /\ plates[k].region \notin Loaded(c) =>
        \E s \in task.states :
          CountryOf[s.state] = c /\ s.state \notin DOMAIN Patterns

(* What the analyses of a country are combined to.                         *)
Result == Last(merged)
JustCombined == stage = "merged" /\ task.analyses > 1

(* Several analyses see one plate in one place: no two plates of the       *)
(* result overlap.                                                         *)
PlatesApart ==
  JustCombined => \A i, j \in DOMAIN Result :
                    i # j => ~Overlap(Result[i].place, Result[j].place)

(* Linked by overlapping plates of the analyses.                           *)
Linked(p, q) ==
  LET seen == {r.place : r \in ToSet(FlattenSeq(analyses))} IN
    \A S \in SUBSET seen :
      p \in S /\ (\A r \in S, t \in seen : Overlap(r, t) => t \in S) => q \in S

(* A reading with enough confidence is not lost: it is among those of the  *)
(* plate that stands for its place, or TopN others are.                    *)
ConfidentReadingsSurvive ==
  JustCombined =>
    \A p \in ToSet(FlattenSeq(analyses)) : \A k \in DOMAIN p.top :
      Counts(p.top[k]) =>
        \E q \in ToSet(Result) : /\ Linked(p.place, q.place)
                                 /\ p.top[k].word \in Words(q) \/ Len(q.top) = TopN

(* What every analysis reads first, with confidence and to the region's    *)
(* pattern, is what the combination reads first.                           *)
UnanimousWins ==
  JustCombined =>
    \A w \in UNION {Words(p) : p \in ToSet(FlattenSeq(analyses))} :
      (\A p \in ToSet(FlattenSeq(analyses)) :
         /\ p.top[1].word = w /\ p.top[1].match = "yes"
         /\ p.top[1].percent >= MinPercent)
        => \A q \in ToSet(Result) : q.bestPlate.word = w

(* Every image gets its answer.                                            *)
RecognitionEnds == <>(stage = "done")
===============================================================================
