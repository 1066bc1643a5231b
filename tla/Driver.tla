------------------------------- MODULE Driver -------------------------------
(***************************************************************************)
(* The program as main runs it: options, seeds, preparation, the loop over *)
(* the queries and the result files, which outlive the run.  Runs of one   *)
(* algorithm on one graph share their result files; a run may be killed at *)
(* any point and the program started again with other options.             *)
(*                                                                         *)
(* What a scoring procedure computes is left to the modules on scoring:    *)
(* here it leaves the scores of its query, in the numbering it works in,   *)
(* and uses some timers and counters.  A line of a file is the sequence of *)
(* the names of its cells.                                                 *)
(***************************************************************************)
EXTENDS Integers, FiniteSets, FiniteSetsExt, SequencesExt

CONSTANTS
    Items, VDeg,    \* the items and their degrees
    HasTruth,       \* the items with a ground truth file that is not empty
    SeedFiles,      \* the possible contents of the seeds file, or NoFile
    Algorithms,     \* the possible strAlgo, all of them names that Config::check knows
    CommandLines,   \* the possible other options: functions from names to values
    DefaultCount,   \* queryCount when it is not given (1000)
    MaxRuns         \* bound: how often the program is started

Word   == -1        \* a token that is not a number
NoFile == <<-2>>    \* there is no seeds file

\* Config, and the values of the options that are not given; rounds stands for those
\* that decide whether FastKASC samples a round or more.
Options  == [fsi : BOOLEAN, order : STRING, limit : Int, count : Int, view : BOOLEAN,
             rounds : BOOLEAN]
Defaults == [fsi |-> TRUE, order |-> "Sample", limit |-> -1, count |-> DefaultCount,
             view |-> FALSE, rounds |-> TRUE]

\* The n-th smallest of the numbers P, and the elements of s at the positions P.
Nth(P, n)    == CHOOSE k \in P : Cardinality({l \in P : l < k}) = n - 1
Picked(s, P) == [n \in 1..Cardinality(P) |-> s[Nth(P, n)]]

ASSUME DriverAssumptions ==
    /\ VDeg \in [Items -> Nat] /\ HasTruth \subseteq Items /\ Items \subseteq Nat
    /\ SeedFiles \ {NoFile} \subseteq Seq(Items \cup {Word})
    /\ \A given \in CommandLines : given @@ Defaults \in Options
    /\ DefaultCount \in Nat /\ MaxRuns \in Nat

VARIABLES
    algo, seedFile,
    files,          \* the result files that exist: functions to sequences of lines
    torn,           \* those that a killed run had created and not written
    runs,
    opt, step,
    seeds, queryCount,
    built,          \* the structures that were built
    next,           \* the query of the loop, by its position in seeds
    swing,          \* [of |-> queries whose scores it holds, own |-> numbered as stored?]
    records,        \* metric_record
    saved,          \* the scores that were saved item by item
    reported,       \* the queries, by position, whose file could not be opened
    timers,         \* the timers that were started
    counters,       \* the number of accumulators
    out,            \* lines still to be written: pairs <<file, names>>
    needHeader

disk       == <<files, torn>>
queries    == <<seeds, queryCount>>
results    == <<records, saved, reported>>
costs      == <<timers, counters>>
output     == <<out, needHeader>>
driverVars == <<algo, seedFile, disk, runs, opt, step, queries, built, next, swing,
                results, costs, output>>
process    == <<algo, seedFile, disk, runs, opt>>    \* what no step of a run changes

Unread == [of |-> << >>, own |-> TRUE]

DriverInit ==
    /\ algo \in Algorithms /\ seedFile \in SeedFiles
    /\ files = << >> /\ torn = {} /\ runs = 0
    /\ opt = << >> /\ step = "ended"
    /\ seeds = << >> /\ queryCount = 0 /\ built = {} /\ next = 0
    /\ swing = Unread /\ records = << >> /\ saved = << >> /\ reported = {}
    /\ timers = {} /\ counters = 0
    /\ out = << >> /\ needHeader = FALSE

-----------------------------------------------------------------------------
(* Start, end and death of a run.                                          *)

StartRun ==
    /\ step = "ended" /\ runs < MaxRuns
    /\ runs' = runs + 1
    /\ \E given \in CommandLines : opt' = given @@ Defaults
    /\ step' = "seeds"
    /\ UNCHANGED <<algo, seedFile, disk, queries, built, next, swing, results, costs, output>>

\* What the process held is lost.
End ==
    /\ step' = "ended" /\ opt' = << >>
    /\ seeds' = << >> /\ queryCount' = 0 /\ built' = {} /\ next' = 0
    /\ swing' = Unread /\ records' = << >> /\ saved' = << >> /\ reported' = {}
    /\ timers' = {} /\ counters' = 0
    /\ out' = << >> /\ needHeader' = FALSE

\* The file that is open, and not yet created by an earlier run, stays empty.
Kill ==
    /\ step # "ended"
    /\ End
    /\ torn' = IF step = "close" /\ needHeader THEN torn \cup {out[1][1]} ELSE torn
    /\ UNCHANGED <<algo, seedFile, files, runs>>

\* make_dir and make_dir_for_file: a folder cannot be made.
NoFolder ==
    /\ \/ step \in {"seeds", "view"}
       \/ step = "query" /\ next = 1 /\ algo = "Truth"
       \/ step = "open" /\ out # << >>
    /\ End
    /\ UNCHANGED <<algo, seedFile, disk, runs>>

-----------------------------------------------------------------------------
(* Seeds.                                                                  *)

\* loadSeed reads numbers until it has count of them, but at least one.  A token
\* that is not a number is never passed: the last number is taken again.
FirstWord == Min({k \in 1..Len(seedFile) : seedFile[k] = Word} \cup {Len(seedFile) + 1})
NumRead ==
    LET most == Max({1, opt.count})
    IN  IF FirstWord <= Len(seedFile) THEN most ELSE Min({most, Len(seedFile)})

\* The number of queries that times are divided by.
CountRead  == Min({opt.count, NumRead})

LoadSeeds ==
    /\ step = "seeds" /\ seedFile # NoFile
    /\ \E memory \in Items :
          seeds' = [k \in 1..NumRead |->
                       IF k < FirstWord THEN seedFile[k]
                       ELSE IF FirstWord = 1 THEN memory ELSE seedFile[FirstWord - 1]]
    /\ queryCount' = CountRead
    /\ step' = "filter"
    /\ UNCHANGED <<process, built, next, swing, results, costs, output>>

\* Without a number in front of the word, what was in memory may be no item.  Its
\* degree or its users are then read beyond the arrays, which ends the run or yields
\* a degree that the limit leaves out.
StraySeeds ==
    /\ step = "seeds" /\ seedFile # NoFile /\ FirstWord = 1 /\ seedFile # << >>
    /\ \/ End
       \/ /\ opt.limit >= 0
          /\ seeds' = << >> /\ queryCount' = 0 /\ step' = "prepare"
          /\ UNCHANGED <<opt, built, next, swing, results, costs, output>>
    /\ UNCHANGED <<algo, seedFile, disk, runs>>

\* fscanf of a null pointer.
NoSeeds ==
    /\ step = "seeds" /\ seedFile = NoFile
    /\ End
    /\ UNCHANGED <<algo, seedFile, disk, runs>>

\* Compared without signs: a limit below zero is above every degree.
TooFrequent(v) == opt.limit >= 0 /\ VDeg[v] > opt.limit

FilterSeeds ==
    /\ step = "filter"
    /\ IF opt.limit = -1 THEN UNCHANGED queries
       ELSE /\ seeds' = Picked(seeds, {k \in 1..Len(seeds) : ~ TooFrequent(seeds[k])})
            /\ queryCount' = Len(seeds')
    /\ step' = "prepare"
    /\ UNCHANGED <<process, built, next, swing, results, costs, output>>

-----------------------------------------------------------------------------
(* Preparation and queries.                                                *)

Known == algo \in {"Exact", "ASC", "KASC", "Truth"}

Structures ==
    IF opt.fsi
    THEN {"order", IF algo = "Truncated" THEN "truncated" ELSE "pool"}
         \cup IF algo \in {"ASC", "KASC"} THEN {"maps"} ELSE {}
    ELSE {"sets"} \cup IF opt.order = "Simple" THEN {"simple"} ELSE {}

Prepare ==
    /\ step = "prepare"
    /\ built' = Structures /\ timers' = {0} /\ next' = 1
    /\ step' = IF Known THEN "query" ELSE "unknown"
    /\ UNCHANGED <<process, queries, swing, results, counters, output>>

UnknownAlgorithm ==
    /\ step = "unknown"
    /\ End
    /\ UNCHANGED <<algo, seedFile, disk, runs>>

\* What the procedure that is called reads for a query that two users bought.  Faulty: the flag is not looked at.
NeedsBySets == {"sets"}
Needs ==
    CASE algo = "Truth"             -> {"order", "pool"}
      [] algo # "Truth" /\ ~ opt.fsi -> {"sets"}
      [] algo = "Exact" /\ opt.fsi   -> {"order", "pool"}
      [] OTHER                       -> {"order", "pool", "maps"}

vq      == seeds[next]
NoPairs == VDeg[vq] < 2

\* The timers and the number of accumulators a query uses: FastKASC stops before
\* any, or with the slots sampled, or counts on to the boundary and the refinement;
\* without a round it comes to the boundary with no intersection made, and no
\* candidate.  The number of rounds does not depend on the query.
Uses ==
    CASE algo \in {"Exact", "Truth"} -> IF NoPairs THEN {<<{1}, 0>>} ELSE {<<{1, 2, 3}, 0>>}
      [] algo = "KASC" /\ opt.fsi    -> {<<{1}, 0>>, <<{1}, 4>>, <<{1, 2}, 4>>} \cup
                                        IF opt.rounds THEN {<<{1, 2, 5}, 4>>, <<{1, 2, 5, 6}, 5>>}
                                        ELSE {<<{1, 5}, 4>>}
      [] OTHER                       -> {<<{1}, 0>>, <<{1}, 2>>, <<{1, 2}, 2>>}

Started(use) == timers \cup use[1]
CountersOf(use) == Max({counters, use[2]})

\* The next query is still to be scored, and the call leaves what it timed and counted.
AtQuery == step = "query" /\ next <= Len(seeds)

Calls ==
    /\ \E use \in Uses : timers' = Started(use) /\ counters' = CountersOf(use)
    /\ step' = IF algo = "Truth" THEN "view" ELSE "measure"
    /\ UNCHANGED <<process, queries, built, next, results, output>>

\* The scores are set to zero before each query.  Faulty: they are not.
KeepScores == swing.of
Fill       == << >>

\* A query without pairs reads no structure; its scores are zero.
Query ==
    /\ AtQuery
    /\ Needs \subseteq built \/ NoPairs
    /\ Calls
    /\ swing' = [of |-> Append(Fill, vq), own |-> ~ opt.fsi]

\* FastExactSwing on the segments of SimpleBuild, which hold no packed lists: the
\* intersections are read from memory that was never written.  The scores left are
\* those of no query.
QueryUnpacked ==
    /\ AtQuery
    /\ ~ (Needs \subseteq built \/ NoPairs) /\ "simple" \in built
    /\ Calls
    /\ swing' = [of |-> Fill, own |-> ~ opt.fsi]

\* FastExactSwing on lists that were never built.
QueryUnbuilt ==
    /\ AtQuery
    /\ ~ (Needs \subseteq built \/ NoPairs)
    /\ End
    /\ UNCHANGED <<algo, seedFile, disk, runs>>

Entry(scores) == [query |-> vq, of |-> scores.of, right |-> scores.own]

\* quality_metrics: no record without a ground truth.  It looks the items up in
\* oriIndex if an order was made.
Measure ==
    /\ step = "measure"
    /\ records' = IF vq \notin HasTruth THEN records
                  ELSE Append(records, Entry([swing EXCEPT !.own = @ # ("order" \in built)]))
    /\ step' = IF opt.view /\ algo # "Exact" THEN "view" ELSE "query"
    /\ next' = IF step' = "query" THEN next + 1 ELSE next
    /\ UNCHANGED <<process, queries, built, swing, saved, reported, costs, output>>

\* The scores are put back by oriIndex, into the vector itself.
PutBack == IF opt.fsi THEN [swing EXCEPT !.own = ~ @] ELSE swing

\* store_ground_truth or view_ground_truth.
View ==
    /\ step = "view"
    /\ swing' = PutBack
    /\ saved' = Append(saved, Entry(swing'))
    /\ step' = "query" /\ next' = next + 1
    /\ UNCHANGED <<process, queries, built, records, reported, costs, output>>

\* The file of the query cannot be opened, which is reported, and the loop goes on.
ViewUnopened ==
    /\ step = "view"
    /\ swing' = PutBack
    /\ reported' = reported \cup {next}
    /\ step' = "query" /\ next' = next + 1
    /\ UNCHANGED <<process, queries, built, records, saved, costs, output>>

-----------------------------------------------------------------------------
(* Result files.                                                           *)

\* resultHeader; "run" stands for the five cells that every row begins with, "k" for
\* those of the metrics.
ResultHeader(fsi) == <<"run">> \o IF fsi THEN <<"ReOrder", "CompRatio">> ELSE << >>

TimerName(t) ==
    CASE t = 0 -> "Preprocess" [] t = 1 -> "allTime"  [] t = 2 -> "intersection"
      [] t = 3 -> "addition"   [] t = 5 -> "Boundary" [] OTHER -> "Refine"

TimerNames(T) == [k \in 1..Cardinality(T) |-> TimerName(Nth(T, k))]

CounterNames(fsi, n) ==
    SubSeq(IF algo = "KASC" /\ fsi
           THEN <<"BruteCnt", "TotalRnd", "SampleRnd", "RefineRnd", "RefineSize">>
           ELSE <<"BruteCnt", "SampleRnd">>, 1, n)

\* The columns of Metric_save: averages, and a line per record.
MetricNames(fsi) == ResultHeader(fsi) \o <<"PreTime", "InsTime", "Time", "k">>
RecordNames(fsi) == ResultHeader(fsi) \o <<"ID", "Time", "deg", "degUsed", "k">>

MetricLines ==
    <<<<"metric", MetricNames(opt.fsi)>>>>
    \o [r \in 1..Len(records) |-> <<"record", RecordNames(opt.fsi)>>]

CostLines ==
    <<<<"count", ResultHeader(opt.fsi) \o CounterNames(opt.fsi, counters)>>,
      <<"time", ResultHeader(opt.fsi) \o TimerNames(timers)>>>>

EndQueries ==
    /\ step = "query" /\ next > Len(seeds)
    /\ IF algo = "Truth"
       THEN End
       ELSE /\ out' = MetricLines \o CostLines
            /\ step' = "open"
            /\ UNCHANGED <<opt, queries, built, next, swing, results, costs, needHeader>>
    /\ UNCHANGED <<algo, seedFile, disk, runs>>

\* save_csv_row: whether a header is needed is found out before the file is opened,
\* which creates it.  Faulty: after.
CheckAfterOpen(f) == f \notin DOMAIN files'
CheckBefore(f)    == f \notin DOMAIN files

OpenCsv ==
    /\ step = "open" /\ out # << >>
    /\ LET f == out[1][1]
       IN  /\ files' = [g \in DOMAIN files \cup {f} |->
                         IF g \in DOMAIN files THEN files[g] ELSE << >>]
           /\ needHeader' = CheckBefore(f)
    /\ step' = "close"
    /\ UNCHANGED <<algo, seedFile, torn, runs, opt, queries, built, next, swing,
                   results, costs, out>>

\* The file cannot be opened: its line is given up.
CsvUnopened ==
    /\ step = "open" /\ out # << >>
    /\ out' = Tail(out)
    /\ UNCHANGED <<process, step, queries, built, next, swing, results, costs, needHeader>>

CloseCsv ==
    /\ step = "close"
    /\ LET f             == out[1][1]
           Row(isHeader) == [header |-> isHeader, names |-> out[1][2]]
       IN  files' = [files EXCEPT ![f] =
                       (@ \o IF needHeader THEN <<Row(TRUE)>> ELSE << >>) \o <<Row(FALSE)>>]
    /\ out' = Tail(out) /\ needHeader' = FALSE
    /\ step' = "open"
    /\ UNCHANGED <<algo, seedFile, torn, runs, opt, queries, built, next, swing,
                   results, costs>>

Return ==
    /\ step = "open" /\ out = << >>
    /\ End
    /\ UNCHANGED <<algo, seedFile, disk, runs>>

Stopped == step = "ended" /\ runs = MaxRuns /\ UNCHANGED driverVars

DriverNext ==
    \/ StartRun \/ Kill \/ NoFolder \/ LoadSeeds \/ StraySeeds \/ NoSeeds \/ FilterSeeds
    \/ Prepare \/ UnknownAlgorithm \/ Query \/ QueryUnpacked \/ QueryUnbuilt \/ Measure
    \/ View \/ ViewUnopened \/ EndQueries \/ OpenCsv \/ CsvUnopened \/ CloseCsv \/ Return \/ Stopped

DriverSpec == DriverInit /\ [][DriverNext]_driverVars

-----------------------------------------------------------------------------
(* Properties.                                                             *)

FileNames == {"metric", "record", "count", "time"}

\* Every variable keeps its type; a file is without a line only while it is being
\* written or after the run that created it was killed.
DriverTypeOK ==
    /\ algo \in Algorithms /\ seedFile \in SeedFiles /\ runs \in 0..MaxRuns
    /\ DOMAIN files \subseteq FileNames /\ torn \subseteq DOMAIN files
    /\ \A f \in DOMAIN files \ torn :
          files[f] = << >> => step = "close" /\ f = out[1][1] /\ needHeader
    /\ step \in {"seeds", "filter", "prepare", "unknown", "query", "measure", "view",
                "open", "close", "ended"}
    /\ step # "ended" => opt \in Options
    /\ seeds \in Seq(Items) /\ queryCount \in Int /\ next \in 0..(Len(seeds) + 1)
    /\ timers \subseteq {0, 1, 2, 3, 5, 6} /\ counters \in 0..5
    /\ reported \subseteq 1..Len(seeds)
    /\ swing.own \in BOOLEAN /\ needHeader \in BOOLEAN

\* A scoring procedure finds everything it reads, whatever the options; only the
\* ground truth run does not when packed lists are switched off.
StructuresBuilt ==
    step = "query" => Needs \subseteq built \/ (algo = "Truth" /\ ~ opt.fsi)

\* What a run measures or saves of a query is its own scores under the right items,
\* whatever the vector held before, however often its scores are put back and
\* whichever files could not be opened; the one exception are the pairs of a ground
\* truth run on the segments of SimpleBuild.  At every turn of the loop the queries
\* behind it have been measured if they have a ground truth and, in a run that saves
\* scores, each was saved or reported and not both; times are divided by the number
\* of queries, as long as one query or more was asked for.
QueriesCounted ==
    /\ \A s \in {records, saved} : \A k \in 1..Len(s) :
          \/ s[k].of = <<s[k].query>> /\ s[k].right
          \/ algo = "Truth" /\ ~ opt.fsi /\ opt.order = "Simple" /\ VDeg[s[k].query] >= 2
    /\ step \in {"query", "open"} =>
          LET behind == 1..(next - 1)
              Of(s)  == [k \in 1..Len(s) |-> s[k].query]
          IN  /\ opt.count >= 1 => queryCount = Len(seeds)
              /\ Of(records) = Picked(seeds, {k \in behind : algo # "Truth" /\ seeds[k] \in HasTruth})
              /\ Of(saved) = Picked(seeds, {k \in behind \ reported :
                                              algo = "Truth" \/ (opt.view /\ algo # "Exact")})
    /\ step = "open" => next = Len(seeds) + 1

\* A result file begins with a header and has no other, unless the run that created
\* it was killed before it had written.  A row has its cells under their names if
\* the file was begun with the same FSI_opt: counters and timers that only some runs
\* use come last, so that a row is longer or shorter than the header, never shifted.
\* Left out are lines of a run in which the boundary was timed and no intersection,
\* as FastKASC does when it samples no round: its column is one too early.
HeadersFit ==
    \A f \in DOMAIN files \ torn :
        \A n \in 1..Len(files[f]) :
            LET head == files[f][1]
                line == files[f][n]
                Fsi(x)   == Len(x.names) > 1 /\ x.names[2] = "ReOrder"
                Skips(x) == /\ \E k \in 1..Len(x.names) : x.names[k] = "Boundary"
                            /\ \A k \in 1..Len(x.names) : x.names[k] # "intersection"
            IN  /\ line.header <=> n = 1
                /\ Fsi(line) = Fsi(head) /\ ~ Skips(line) /\ ~ Skips(head) =>
                      \/ line.names = head.names
                      \/ /\ f \in {"count", "time"}
                         /\ IsPrefix(line.names, head.names) \/ IsPrefix(head.names, line.names)
=============================================================================
