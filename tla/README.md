# K-ASC in TLA+

A verification project for the code under `src/code`: the program that computes
*Swing* scores of items (all items against one query item, over the pairs of
users that have it) exactly or by sampling, on packed adjacency lists that are
intersected with SIMD instructions.

The score of an item `v` for a query item `q` is the sum, over the pairs of users
`u, w` of `q` that both have `v`, of `1 / (alpha + |N(u) ∩ N(w)|)`.

File names below are relative to `src/code`: `algo.cc`, `graph.cc`, `main.cc`
and `utils.cc` are in `src/`, `graph.h` and `utils.h` in `include/`, the rest in
`include/QFilter/`.

## 1. The system

### Components, their state and operations

| component | state | operations | modules |
|---|---|---|---|
| graph loading (`graph.cc` 24-129, 361-366) | `m_uedges`, `m_vedges`, degrees, `uSorted`, `vSorted`, `m_uDeg`, `m_vDeg`, `uedgeSet` | `readGraph`, `addEdge`, `preprocess`, `setBuild` | GraphLoad, UsersAndItems |
| item orders (`graph.cc` 177-360) | `mapIndex`, `oriIndex`, `Flag_Reo` | `OriOrder`, `DegOrder`, `SampleOrder` | Reorder, UsersAndItems |
| packed adjacency (`bitpack_maximal_clique.hpp` 47-104, 248-300; `graph.h` 51-68) | one pool of slots (base, 32-bit word), `start`/`deg` per user, `uedgeMap` | `build`, truncated `build`, `mapBuild` | PackedGraph, PackedSlots |
| intersection kernels (`set_operation.cpp` 24-111, 906-1186) | two cursors, the output or a count | storing and counting kernel | BlockScan, BlockIntersect, BlockCount, SetIntersection |
| pair scoring (`algo.cc` 14-534, 534-764) | `swing`, `U_star`, the draws | `ExactSwing`, `FastExactSwing`, `PRSwing`, `FastASC`, the dense half of `FastKASC` | PairSwing |
| K-ASC stage 1 (`algo.cc` 765-861) | mean and variance per item, `Act` | sampling and scaling | KascSampling |
| K-ASC stage 2 (`algo.cc` 849-918) | a bounded heap, `Bq`, `Refine` | visiting, choice of the items to refine | KascBoundary; Kasc adds the outcome of stage 3 |
| K-ASC stage 3 (`algo.cc` 919-1191) | masks, valid users, draws | five ways to refine | KascRefine |
| evaluation (`main.cc` 20-240, `utils.cc` 176-327) | ground truth files, metric records | `store_ground_truth`, `read_ground_truth`, `quality_metrics`, the four metrics | Evaluation (one query; the averages of `Metric_save` are left out) |
| driver, result files (`main.cc` 20-60, 120-150, 190-210, 241-553, `utils.cc` 95-174) | seeds, which structures are built, timers, accumulators, CSV files | `loadSeed`, the loops over the queries, put-back, `Metric_save`, `save_csv_row` | Driver |
| configuration, timers, accumulators, random numbers (`utils.h`, `utils.cc`) | options, columns | defaults, starting a timer or a counter, draws | Driver (defaults, columns); a draw is a choice in the module that draws; measured times are not modelled |

Not used by the program, and not modelled: the other kernels of
`set_operation.cpp`, `Twobuild`, `ReoBuild`, the clique enumeration, `Alias`,
`HashSpace`, `NeighborIndex`. The vendored hash containers are sets and functions
here. `SimpleBuild` is run with `ReOrderType` Simple and FSI off,
and only a ground truth run then reads what it built: Driver knows that it was run, its
segments are not modelled.

### How the components interact

    stat.txt, graph.txt.new --> Graph --(order)--> mapIndex --(build)--> pool --(mapBuild)--> uedgeMap
                                  |                                       |                      |
                                  +-- vSorted, vDeg ---> scoring <--- kernels <------------------+
                                                            |
                       FastKASC: sampling -> boundary -> refinement -> swing --(oriIndex)--> metrics, files

All calls are direct, in one thread: the build has no `-fopenmp`, so the
pragmas in `preprocess` do nothing. The objects share memory: every intersection
writes into one scratch array, all users into one pool.

### Where it is hard

* The kernels compare four slots with four slots by one byte at a time, shuffle
  by a dictionary index that may be -1, keep or drop a block by its maximum, and
  hand over to a scalar loop. Which lanes meet depends on the lists' lengths and
  on how the bases interleave.
* One base may have slots of two neighbouring users next to each other in the
  pool.
* `SampleOrder` lives with outdated entries in its queue.
* `FastKASC` computes a variance on the fly in batches, in the order of a hash
  map, and takes decisions from it; an error gives plausible numbers.
* The three sampling procedures have more than a dozen branches between them, each
  with its own weight for a draw; which one is taken depends on degrees and rounds.
* Some values are whatever was in memory: `RfWid`, and `u`, `v` in `readGraph`.

* Result files are shared by all runs of one algorithm on one graph: what a row
  means depends on the run that began the file, and on whether that run lived long
  enough to write a header.

There is no concurrency. What survives a killed run are the ground truth files and
the CSV files. `hazards` in `PROJECT.json` lists each hazard at its line.

## 2. The modules

A module has one action per loop iteration, branch or call of the code, named in
its `map` entry. Definitions marked *faulty* are plausible errors; nothing uses
them, and each property is known to fail when one of them replaces the
definition after it.

**PackedSlots** defines slots, blocks of four lanes, the byte filter and the
shuffle as the code's tables compute them. A word is the set of its bits; a base
is a number below 2^31.

**BlockScan** is how both kernels go through their lists: `AdvanceBlock` past the block
with the smaller maximum, and the end of the loops.
**BlockIntersect** is `bp_intersect_filter_simd4x`: `SkipBlock` and `StoreBlock`
are one round of the vector loop that finds nothing or something, `LeaveBlocks`
its end, `TailEqual` and `TailDiffer` the scalar loop. **SetIntersection** is
what it promises: one step from two lists to a packed list of the common items.
**BlockCount** is the counting kernel: same control, other bookkeeping.

**PackedGraph** is the preparation: `TakeList` (renumber, truncate, sort),
`PackFirst`/`PackSame`/`PackNew` (first item of a user, same base, new base),
`NextUser`, then `mapBuild` slot by slot. It starts from any numbering, which
**Reorder** shows the orders produce: its `OriOrder` and `DegOrder` are one step,
`SampleOrder` is a step per number (`TakeRanked` at a window's start or with an
empty queue, `TakeFromQueue` otherwise), each with the weight updates that follow.

**GraphLoad** is the constructor of `Graph`, token by token, with files that break
off inside a line or hold a word. A file is a sequence of numbers; `Junk` is a
token that is not one, and a number out of range stands for all that fail the
assertions. `Preprocess` is one step; its sorts (`Sorts`) leave elements of equal
rank in any order, as `std::sort` may. **UsersAndItems** has the ids, for this module
and for Reorder.

**PairSwing** has the five procedures. `Start` takes the code's decisions from
degrees, rounds and rates; the loops are `AddPair`/`NextUser` (all pairs),
`StartSlots`/`DrawSlot`/`UseSlots`/`NextFirst` (sampled slots), `DrawAndUse` and
`Collect`/`UseCollected` (sampled pairs); `PutBack` is the loop of `main.cc` over
`oriIndex`. The intersections are taken at their word (what the build
and the kernels give it together is proved in PackedProofs). `FastKASC` hands over to its three stages where it leaves
this code ("stages").

**KascSampling**, **KascBoundary** and **KascRefine** are those stages. The first
computes with exact fractions; the third keeps, instead of a score, how often each
pair was added to it. The second takes any scores and radii: `Visit` is an
iteration over `Act`, `Pop` empties the heap, `LookDown` and `LookUp` are the
iterations of the two loops around the border, each with its `Push`.
**Kasc** extends it by the scores that the refinement leaves: true ones for the
listed items after the exact branch (`RefineExactly`), anything after draws, or
zeros without rounds (`RefineByDraws`). It is what the three stages are for: which
items a ranking then puts first. The true scores are chosen late, in
`RefineExactly`, since nothing before it looks at them.

**Evaluation** is what happens to the scores of one query: the truth run
(`StartTruth` opens the file and ranks, `WriteLine`, `CloseFile`), which may
`BreakOff` at any byte and be run again, and the evaluated run (`Query` ranks,
`Measure` reads the file and computes the metrics). A file is a sequence of pairs;
when a run breaks off inside a value, the file ends on another value. Items of
equal score may be ranked in any order, since sums of the same terms in another
order differ in their last digits; `Stored` is a score written with six digits,
`Discount` the weight of a rank in NDCG.

**Driver** is `main` over several runs of the program. A run reads the seeds
(`LoadSeeds`, `FilterSeeds`), builds what the options ask for (`Prepare`), takes a
query at a time (`Query`, `Measure`, `View`, which puts the scores back in place)
and writes its rows (`OpenCsv`, `CloseCsv`). `Kill` may come before any step; only
`files` and `torn` outlive it. A score vector is the list of the queries that were
added to it and the numbering it is in, a row the names of its cells. A file of
scores that cannot be opened (`ViewUnopened`) leaves its query out of `saved` and in
`reported`, as the code's message is all that is left of it.

The ground truth run calls `FastExactSwing` whatever was built. With packed lists
switched off a query of fewer than two users reads none and gets its zeros (`Query`,
`NoPairs`); for any other the run ends (`QueryUnbuilt`) unless `ReOrderType` is
Simple. Then `SimpleBuild` has given every user a segment whose slots have bases and no
states (`pool_state` is never written), the intersections are read from that memory, and
what is stored is the score of no query, or the run ends all the same (`QueryUnpacked`). A
word as the first token of the seeds file leaves `s` unset: it may be an item
(`LoadSeeds`) or not (`StraySeeds`).

**Fractions** has fractions in lowest terms, **Sums** the sums of numbers and of
fractions over a finite set. All floating-point numbers of the
code are exact in the models: rounding is outside of what is shown here, except for the
six digits of the ground truth files.

The `MC` modules hold the instances, the modules named `...Proofs` the proofs.

## 3. The runs

Invariants and properties are commented where they are defined. In each run all
inputs of the instance are tried, and every action of its module is taken.

| run | shows | bounds |
|---|---|---|
| intersect | types and block boundaries; the output is exact at every point; the filter decides; refinement of SetIntersection; progress | all pairs of 95 lists: 64 over bases that agree in 0 to 3 low bytes, and 31 of 4, 5, 8 and 9 slots: none to two blocks, tails of 0 to 3 |
| count | nothing is counted twice though blocks are compared again; the result is the size; termination | as above |
| packing | segments hold exactly the lists, in order, apart and packed; maps agree with lists | three users, ids on both sides of the bounds of the bases, repeated edges, empty users, truncation that cuts and that does not |
| reorder | every item is numbered once, by mutual inverses; outdated entries do no harm; the heaviest is next | five items, two users, windows of four |
| sampling | mean and variance are the moments of the draws used so far, in every order and multiplicity, and of all rounds after scaling | five users, 0, 1, 3 and 4 rounds: direct and collected |
| top_k | the heap holds the best in every order; if the intervals hold, the window is wide enough and the border reaches farthest, refining the listed items exactly puts the right K first | up to six items, K = 2, Ext = 2, several radii, RfWid of -3, 0, 1 and 7, all true scores in the intervals |
| refine | each branch adds each pair as often as it was drawn, to the items both have, as long as the list fits a mask; no draw from an empty range | five users, up to four refined items, masks of three bits, rounds on both sides of each threshold |
| pairs | all procedures agree with the definition when no draw is made; draws weigh what makes them unbiased; scores return to their ids | four users, slots of two items, 1, 2 and 4 rounds, two numberings |
| load | lines are entered once on both sides; neighbour sums fit the lists; loading ends | three users, two items, all files of up to two lines, some of three and four, broken ones |
| evaluation | an exact run gets the best marks in spite of ties, rounding, renumbering and files that lost whole lines; no metric passes 1, for any ranking and any file that is left behind; an item is never in a file twice | five items, files of three lines, k = 1 and 2, Ext = 1; scores with ties, also across the end of the file, neighbours that are stored as equal, zeros; two numberings; any number of repeated truth runs |
| driver | structures are there before they are read; what is recorded or saved of a query is its own, once, under the right items, and at every turn of the loop no query behind it is left out unless that was reported; rows lie under headers that fit | three items, one of them with a single user, six seed files (short, empty, missing, with a word), five command lines (with and without FSI, Simple, a limit that drops items and one below zero, a count of 0, no round), five algorithms, two runs that may be killed, files of scores and CSV files that open or do not |
| load_comment | a violation: `vSorted` does not hold all edges | as load |

Why these bounds are enough: the kernels look at four slots of each list at a
time and keep nothing but their cursors, so two blocks and a tail on either side
give every kind of hand-over; the filter has four stages, and the bases need each
of them. Packing looks at one item and the last slot; three users give an empty
one between two others. The sampling stages treat a pair by what it has in common
and an item by which pairs reach it; five users give disjoint, equal and
overlapping pairs. Every threshold of the code has inputs on both sides; where
the thresholds of the code are too large to reach (32 items per window, 10 pairs per round, 32 bits
per mask, 50 samples), they are constants of the module with small values.

`MaxReads` in GraphLoad bounds files whose reading never ends; it exceeds the
lines of every file of numbers.

Fairness: `BlockCount` and `GraphLoad` assume weak fairness of the next-state
relation and nothing else: a loop whose body can run does run. It is what running
one thread means. `BlockCount` has no step after its end, so deadlock is not
checked there; all other runs check it, and a finished program stutters.

## 4. The proofs

TLAPS proves the following for every value of the constants that the modules'
assumptions allow. Each module of proofs has an inductive invariant, a lemma per
action, and theorems that follow from the invariant.

**PackedProofs** has both kernels and the build.

For the storing kernel: `TypeCorrect`, `FilterAlwaysDecides`, `StoresExactly`,
`ReturnsCommonItems`, `Advances`, and `Implements`, the refinement, for every set of
packed lists (`ListsPacked` is the only assumption). `StoresExactly` is not
inductive alone. Appending a slot keeps the output sorted only if what was stored
has smaller bases than what is to come, which needs the output to be packed and to
come from consumed slots; that nothing is lost when a block is dropped needs that
the other list's later bases are larger. So `IInv` is the types, soundness,
completeness, the packed output, and that one list is used up at the end.
`ExtendOut` is the common step: if the output is extended by exactly the matches of
what is newly consumed, in order, the three facts about it are kept.
The lemmas on the filter serve both kernels: four bytes determine a base, so the filter decides; each lane of a packed
block matches at most once; what the shuffle gathers and compares are exactly the
equal bases; and `BlockStep`, what dropping a block by its maximum leaves behind.

For the counting kernel: `CountTypes`, `CountsOnce`, `ReturnsTheSize`. The set `Met`
holds the items of a consumed slot of one list that are anywhere in the other; the
invariant says that `res` is its size. A block that stays and is compared again
adds nothing twice, because the lanes that match have their partner in the block
that goes: the new items are disjoint from `Met`, and their number is the sum of
bits over the lanes. `CountEnds` gives the number of steps left (`CountStepsLeft`):
in every step a list position or the phase moves on, and none comes back.

For the build: `PackedTypes`, `SegmentsHoldTheLists`, `SegmentsArePacked`,
`MapsHoldTheLists`. The invariant `PInv` adds where the loops are (`Shape`: a user
not yet reached has no slot, the current one ends with the pool, in the slot of its
last item), that copies are complete or of `TruncNum` positions and sorted after
renumbering (`ListsTaken`), the order of the segments, and what the maps hold of the
slots passed so far (`MapsFollow`). `PieceGrows` and `PieceMerges` are the two ways
the pool changes; `OthersKept` is why an earlier user does not notice.
`KeepsAll`, that an ascending choice of all positions is all of them, is where the
build without truncation gets every neighbour. With `SegmentsArePacked`, the
assumption `ListsPacked` of the kernels is discharged for renumbered graphs.

The two are put together by `SegmentsAnswerForTheLists`,
`KernelCountsCommonNeighbours` and `KernelFindsCommonNeighbours`: a renumbering is
one to one (`RenumberedMeet`), so a kernel called with the segments of two users
whose lists were not truncated returns their common neighbours in the file, and
their number. That is the number PairSwing divides by. These three are stated for the
build and a kernel's run together, and no run checks them.

**MainProofs** has what runs before and around the scoring: loading, the item orders and
the driver.

For loading: `LoadInductive`, `LoadTypes`, `LinesLoaded`, `SumsOverKept`, for files of
any length over any tokens. `FileLoaded` says of the lists that each line stands where
its user's (its item's) earlier lines leave it: at a place that is a number of
lines. The invariant `LoadInv` names the lines that are entered (`Entered`), where
`FileLoaded` only says that there are some, and adds that degrees are lengths also in
files with words (`DegreesFit`), since the sort by degree depends on it, and that a file of
numbers is read by twos until it breaks off, with the item of the last pair still in `v`
(`ReadByTwos`). A new line changes no place of an earlier one (`HoldsGrows`).
For the sums, `TotalRename` carries a sum along what the sort leaves, ties or not.
`LoadsTheGraph` says what the rest of the program is handed: when loading a file of
numbers ends, the item sets, lists of users and lists by degree are those of the
lines of the file (`GraphLoaded`). PairSwing and Reorder start from sets and lists of
this form; that theirs are the same is read off the definitions and not itself a theorem. A list of
the file's lines is determined by where each line stands in it (`Placing`, `ListsOfLines`), and the
sort leaves the users of the kept lines in the order of their degrees (`SortedLines`). `LoadingEnds` is the
number of steps left, and `ReadsSuffice` that the bound `MaxReads` of the model stops no
file of numbers that is no longer than twice the bound.

For the orders: `ReorderTypes`, `NumbersOnce`, `CurrentEntries`, `TakesHeaviest`,
for every graph, window and choice of samples. The invariant needs that as many
items are visited as numbers were given (`Counted`), from which it follows that
the degree order is never read past its end; and `CurrentEntryFirst`, from which it
follows that the first entry of an unnumbered item is the heaviest of all.

For the driver: `DriverInductive`, `DriverTypes`, `StructuresThere`, `QueriesOwn`,
`HeadersMatch`, for any options, seeds files, number of runs and kills. `DriverInv` says what
a process holds in each step (`RunShape`: the structures its options ask for, the
scores of the one query of the loop, in the numbering of the procedure);
which queries were recorded and saved so far (`Recorded`: those of the positions behind
the loop that have a ground truth, and those whose file could be opened, in turn, by
their own scores unless they are among `Unpacked`, the queries a ground truth run
takes from the segments of `SimpleBuild`); and which names a line may have,
waiting (`LinesOut`) or in a file (`LinesIn`). `HeadersFit` compares rows that
different runs wrote: it holds because a line's names say with
which `FSI_opt` it was written, and because timers and counters start in turn
(`InTurn`: addition needs intersection, refinement needs the boundary), so that of
two lists of columns one is a prefix of the other; the lines of a `FastKASC`
without a round (`NoRound`) are the ones `HeadersFit` leaves out. `HeadersFit` is not inductive
since it says nothing of lines that wait, nor of files that were torn.

**KascProofs**: `BoundaryTypes`, `HeapHoldsTheBest`, `TopKIsRight`. `BInv` says of the
heap that what remains is above what was popped and that it has refused nothing
before it was full, and of the two loops that every rank they passed, and whose
interval crosses the border, is on the list (`DownTo`, `UpTo`). The end is an
exchange argument: an item that is not listed keeps its estimate, its interval lies
on its side of the border, and every listed or absent item is then ranked
correctly with respect to it.

**KascRefineProofs**: `RefinedExactly`, `RefinedByDraws`, `RefineCanDraw`, for any
number of users, neighbourhoods, lists, rounds and width of a mask. `RInv` has one
part per phase: while users are put aside, none that has an item of the list up to the
current one is missing (`KeptTo`), and each mask is the one of its user (`MasksFit`);
while rows are added, the additions are those of the rows behind (`RowsDisjoint`: no
pair comes up in two rows); while draws are used, those of the draws that are not on
the list of what is left. `SharedIs` is the link between masks and neighbourhoods:
positions within the width have bits of their own. That a filtered list has two users
to draw from follows from the test for the exact branch, which one user always
passes. `RefineTypes` adds that the draws of a pair are bounded by their sum, and that a
mask has no bits but those of the list's positions (`RBounds`).

What the additions come to is said by the last two theorems, for any worth of a pair.
`RefinedScoresExact`: all pairs, each once, are the definition of the score.
`RefinedUnbiased`: the code draws an index `i` and another `j`, and scales by
`gamma0`, half of `dvq (dvq - 1)` over the rounds, with `dvq` counted anew after users
were put aside. The mean of what one draw adds, over all pairs of indices, times the
rounds, is the exact score. It needs that two pairs of indices lead to each pair of
users, in both orders (`PairAtBoth`, `UpFacts`), that there are `dvq (dvq - 1)` of
them (`IndexPairsCount`), and that no pair that shares an item is out of reach
(`DueDrawn`). The branch `collectAll` is left out, since it counts a pair once however often
it was drawn; there only `DrawsCounted` says what is added. `RefinedScores` and
`UnbiasedDraws` are consequences of what the runs check and no run has them.

**SumsProofs** has what the modules of scores, MainProofs and EvaluationProofs need of sums and fractions: a fraction is
its lowest terms (so equal when the cross products are), `Plus` and `Times` are
commutative, associative and distributive on them, and a sum over a finite set can be
split at any element (`TotalStep`, `SumStep`), whatever order the fold takes.
What a fold computes is an induction over finite sets; the library's induction rules
cannot be instantiated here, but the principle of a smallest counterexample can be
used of a set: `WFMin` with the order of the natural numbers, applied to the set of
sizes for which the statement fails.

**PairSwingProofs**: `ScoresFollow` (the invariant is inductive), `Types`, `ScoresExact`,
`DrawsWorth`, `SlotsWorth`, for any users, items, lists, slot sizes, rounds and `alpha`.
While all pairs are gone through, the scores are the sums of the gains of the pairs
behind the loops (`PairsDone`, `PairsScored`), and at the end these are all pairs: that is
`ExactScores`, also for `FastExactSwing`, whose users of the query are fewer, since a
user with a single item adds to nobody. While pairs are drawn, a score is the sum over
the pairs of how often each was used times its gain, and what was drawn and not
used is in `todo` (`DrawsScored`); at the end the weight of a draw goes
through the sum (`DrawScores`). `SlotGain` is an action property: what one pair's
sampled slots add, from the number of times each slot came up. `ScoringEnds` is an
action property as well: the five numbers of `ToGo` get smaller in lexicographic order with every
step, whichever procedure runs.

**KascSamplingProofs**: `SamplingInductive`, `SamplingTypes`, `MomentsExact`. The code
updates mean and variance per pair, or per batch of equal draws, without keeping the
draws. The invariant says what the two numbers are worth at any time in terms of the
draws used: with `n` hits of an item, `n` times the mean is the sum of the
contributions, and the sum of their squares is `n - 1` times the variance plus
`n` times the square of the mean (`StreamOf`). That a batch keeps this is an identity between
fractions (`MeanStep`, `VarianceStep`: Welford's update for several equal values at once); that the last step, which adds all rounds without
a hit as zeros, is the same identity for a batch of zeros (`AroundAll`). The assumption that there
are finitely many items (`Items` are those of a graph in memory) is for the sums of
draws over pairs.

**EvaluationProofs**: `EvaluationTypes`, `MetricsFit`, `ExactPerfect`, for any scores,
numbering, `k_list`, length of files and of breaks, for any weights of ranks that fall and
any way to round that keeps order and zero. `EvalInv` says that the file is the
last ranking of the truth run as far as it was written, with perhaps one more line whose
value was cut (`FileFollows`), and by which scores the evaluated run ranks. The rest is
counting. The relevant items are at least as many as the lines that count and
at most all lines (`RelevantItems`), so `hit` cannot exceed `cur_k`, and the ideal DCG
is over as many ranks as lines count; since the weights fall, no other ranks reach it
(`FirstRanksBest`), so NDCG is 1 only if the hits are the first ranks. For exact scores, the
relevant items are those with the value of the last line that counts or more
(`RelevantByValue`: here the condition `Covers` is needed); a rank that
missed one would have all of them before it, and there are too many
(`ExactRanksHit`).

Only model-checked: the liveness properties (`Termination`, `Loads`), since fairness
and ENABLED are out of the prover's reach. Their other half is proved: `CountEnds` and
`LoadingEnds` bound the steps that are left, and `Advances` and `ScoringEnds` say the
same of the storing kernel and of the scoring, so that what TLC adds is only that
a step is taken when one is left. Every other property of the passing runs is proved.

## 5. What was met while modelling

These are differences between code and comments, and places where the code relies
on its inputs. The models follow the code.

* `graph.h:23` says that `vSorted` holds the edges of each node in V; users of
  one edge are left out (`graph.cc:57`). Harmless for scores: run `pairs`.
* `algo.cc:1183`: pairs collected from all users add `gamma0` once, without the
  factor `c` of the other collecting branches. `DrawsCounted` says so.
* `main.cc:355`, `algo.cc:893`: `RfWid` of the local `Config` is never set. With 0 or
  less nothing above the border is refined, so `TopKRight` has the condition
  `WindowEnough`.
* `algo.cc:776`: a `FastKASC` that samples no round (which no default option gives)
  comes to the boundary without an intersection, and the boundary's time is written one
  column too early, under `intersection` or behind it. Driver has such runs
  (`rounds`), and `HeadersFit` leaves out their lines.
* `algo.cc:860` divides by `n_rounds - 1`: with one round the variance is NaN
  (with the default parameters there are some 375 000).
* `algo.cc:953`: a position of `Refine` is a bit of an int. With `maxTopk` and
  `ExtraCandidate` above 32 together (25 by default) the shift wraps:
  `ExactlyOncePerPair` says what is left of the exact refinement then.
* `algo.cc:932` sets the refined scores to zero; with no rounds left they stay so.
* `algo.cc:891`: only the two items at the border are asked for their bounds. An item
  of a better rank with a wider interval may reach below the border unnoticed:
  `BorderReachesFarthest` is the condition of `TopKRight` that excludes it.
* `main.cc:206`: `loadSeed` reads a number before it tests the count, so that one query
  is run with a count of 0, and the times are then divided by 0; a word in the seeds
  file repeats the number before it.
* `main.cc:273`: `Metric_save` reads timer 2, which no query may have started.
* `utils.cc:149`: runs with and without FSI write their rows, which have other cells,
  into the same files, under the header of the run that came first. A run that is
  killed between `open` and the end of the first row leaves an empty file, to which
  later runs add rows without any header (`torn` in Driver).
* `graph.cc:41`: `uSorted` and `vSorted` are reserved, not resized, and then
  indexed. `graph.cc:111`: the count `fscanf` returns is not looked at.
* A ground truth file that lost whole lines looks like a complete one (`main.cc:217`,
  `utils.cc:187`): `ExactIsPerfect` shows that exact scores still get the best
  marks, so nothing tells that fewer items were compared.
* `graph.cc:234` needs three items; `main.cc:42` and 231 need more items than the
  ranks they sort. `algo.cc:406` and 685 can never be taken: both users have the query.
* `algo.cc:88` ("result id -= Number of User") is not what the function does.
* `Truncated` builds its lists and then ends in "Unknown algorithm"
  (`main.cc:411`, 536). The ground truth run uses packed lists even when FSI is off
  and none were built (`main.cc:522`), or only the segments of `SimpleBuild`: then it
  stores scores that are not the query's, which `QueriesCounted` excepts.
* `main.cc:222`, 245: a file that cannot be opened is reported on `cerr`, and the query
  has no scores in the end; the program still returns 0.
* `main.cc:387` compares without signs, so that a limit below -1 drops nothing.

## 6. Not modelled, and what could follow

Not modelled:

* kernels, builds and sampling structures that the program never calls, and the
  vendored hash containers, whose order of iteration is a free choice where it can
  matter;
* rounding of floating-point sums, measured times and the numbers that are averages of
  them, so also the averages over queries of `Metric_save`;
* `DeBug`, which writes the rows of all algorithms into one file;
* the offline scripts that make seeds and graphs.

What could follow: Kasc with the sampling stage in front,
so that the intervals are those of the draws.
