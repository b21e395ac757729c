-------------------------------- MODULE Feeds --------------------------------
(***************************************************************************)
(* The small syncs that copy what a source serves into tables of their     *)
(* own: indices, sectors, dragon tiger board, north flow, minute bars,     *)
(* money flow, financial figures, the stock pool and the news. Each is a   *)
(* run over its items: fetch, filter, upsert on the unique key, commit.    *)
(*                                                                         *)
(* What a source serves has a version; a row is known by the version it    *)
(* was written from. The process may die between two items.                *)
(***************************************************************************)
EXTENDS Integers, Sequences, FiniteSets, SequencesExt, FiniteSetsExt, Rows

CONSTANTS
    Codes,       \* the stocks of the market, in the order of their codes
    MaxVersion,  \* bound of the model: revisions of the sources
    MaxRuns,     \* bound of the model: runs
    MaxNews,     \* bound of the model: news items
    RefreshDays, StaleCap, MissingCap, Breaker \* sync_finance; the cap of the console task

VARIABLES
    served,   \* version of what the sources serve; a day passes with each
    stored,   \* per item of the keyed feeds the version stored, 0: nothing
    seatRows, \* sa_dragon_tiger_seat of one stock and side: the version per rank
    fin,      \* sa_financial_extra per code: version (0: no row), max(updated_at)
    pool,     \* stock_pool: per day the code's industry and the answer it came from
    news,     \* sa_news_sentiment: item, and whether it has a score
    run,      \* the run under way: feed, items left, what brought no rows
    runs,     \* runs so far
    last      \* history: the last run that came to its end

vars == <<served, stored, seatRows, fin, pool, news, run, runs, last>>
CodeSet == ToSet(Codes)
\* What the parameters are: the codes are in order, so each is there once.
Parameters ==
    /\ Codes \in Seq(CodeSet) /\ IsInjective(Codes)
    /\ {MaxVersion, MaxRuns, MaxNews, RefreshDays, StaleCap, MissingCap, Breaker} \subseteq Nat
    /\ 0 \notin {MaxVersion, Breaker}
NoIndustry == "none"
Idle == [feed |-> "idle", left |-> <<>>, missed |-> {}, bad |-> 0, began |-> 0, all |-> FALSE,
         of |-> {}, aborted |-> FALSE]

\* MAJOR_INDICES, the two types of sectors, board and seats, and the feeds of one item.
Items == [index |-> <<"sh", "sz">>, sector |-> <<"industry", "concept">>,
          tiger |-> <<"board", "seats">>, north |-> <<"north">>, minute |-> <<"minute">>,
          flow |-> <<"flow">>]
Keyed == DOMAIN Items

-----------------------------------------------------------------------------
(* What the fetchers may bring *)

\* fetch_index_quotes: any failure is an empty answer.
IndexAnswers == {"rows", "empty"}
\* fetch_sector_list: retried, at last raised.
SectorAnswers == {"rows", "empty", "error"}
\* fetch_dragon_tiger
BoardAnswers == {"rows", "empty", "error"}
\* fetch_dragon_tiger_seats: up to five of each side.
SeatAnswers == {"rows", "fewer", "empty", "error"}
\* fetch_north_flow: a channel that fails fails both, an empty one is left out.
NorthAnswers == {"rows", "empty", "error"}
\* fetch_money_flow_detail
FlowAnswers == {"rows", "empty", "error"}
\* fetch_minute_quotes: Tencent first, else eastmoney; any failure is an empty answer.
MinuteAnswers == {"rows", "empty"}
\* fetch_financial_abstract
FinanceAnswers == {"rows", "empty", "error"}

AnswersFor(feed, item) ==
    CASE feed = "index" -> IndexAnswers [] feed = "sector" -> SectorAnswers
      [] item = "board" -> BoardAnswers [] item = "seats" -> SeatAnswers
      [] feed = "north" -> NorthAnswers [] feed = "flow" -> FlowAnswers
      [] feed = "minute" -> MinuteAnswers [] feed = "finance" -> FinanceAnswers

-----------------------------------------------------------------------------
Init ==
    /\ served = 1
    /\ stored = [i \in UNION {ToSet(Items[f]) : f \in Keyed} |-> 0]
    /\ seatRows = <<>> /\ fin = [c \in CodeSet |-> [version |-> 0, touched |-> 0]]
    \* the last snapshot of the pipeline that filled stock_pool before
    /\ pool = <<[c \in CodeSet |-> [industry |-> c, answer |-> 0]]>>
    /\ news = {} /\ run = Idle /\ runs = 0 /\ last = Idle

\* The sources go on: new bars, boards and reports.
Revise ==
    /\ served < MaxVersion /\ served' = served + 1
    /\ UNCHANGED <<stored, seatRows, fin, pool, news, run, runs, last>>

\* The stocks of the latest snapshot.
PoolCodes == DOMAIN Last(pool)

Begin(feed, items, all) ==
    /\ run.feed = "idle" /\ runs < MaxRuns /\ runs' = runs + 1
    /\ run' = [Idle EXCEPT !.feed = feed, !.left = items, !.began = served, !.all = all,
                          !.of = PoolCodes]
    /\ UNCHANGED <<served, stored, seatRows, fin, pool, news, last>>

StartKeyed(feed) == Begin(feed, Items[feed], TRUE)

Capped(seq, cap) == SubSeq(seq, 1, IF cap < Len(seq) THEN cap ELSE Len(seq))

\* Codes without figures in the order of their codes.
Missing == Those(Codes, {c \in PoolCodes : fin[c].version = 0})

\* The stale ones by the age of their figures: they are sorted out of a set, so those of
\* one age come in any order.
StaleCodes == {c \in PoolCodes : fin[c].version > 0 /\ fin[c].touched < served - RefreshDays}
StaleOrders ==
    {order \in SetToSeqs(StaleCodes) :
        \A i, j \in DOMAIN order : i < j => fin[order[i]].touched <= fin[order[j]].touched}

\* mutant: the nightly run has the cap of the console
TodoCapped(cap, stale) == Capped(Missing, MissingCap)

\* What a run is about: the missing codes, then the oldest of the stale ones.
Todo(cap, stale) == Capped(Missing, cap) \o Capped(stale, StaleCap)

\* sync_finance.sync_all, nightly without a cap on the missing codes.
StartFinance(nightly) ==
    \E stale \in StaleOrders :
        LET todo == Todo(IF nightly THEN Len(Codes) ELSE MissingCap, stale)
        IN  todo # <<>> /\ Begin("finance", todo, nightly)

\* The run is over: its last item, or where it stops.
Ended(next, stop) ==
    IF next.left = <<>> \/ stop
    THEN run' = Idle /\ last' = [next EXCEPT !.aborted = stop /\ next.left # <<>>]
    ELSE run' = next /\ UNCHANGED last

\* upsert_rows, upsert_sectors, upsert_stocks, upsert_minute_rows: the rows of the item.
Upsert(item, answer) ==
    stored' = IF answer \in {"rows", "fewer"} THEN [stored EXCEPT ![item] = served] ELSE stored

\* mutant: the ranks of an answer are counted on from those stored
UpsertSeatsBelow(item, answer) ==
    LET n == CASE answer = "rows" -> 2 [] answer = "fewer" -> 1 [] OTHER -> 0
    IN  seatRows' = IF item # "seats" THEN seatRows ELSE seatRows \o [r \in 1..n |-> served]

\* upsert_seats: rank by rank; ranks beyond a shorter answer stay as they were.
UpsertSeats(item, answer) ==
    LET n == CASE answer = "rows" -> 2 [] answer = "fewer" -> 1 [] OTHER -> 0
    IN  seatRows' = IF item # "seats" THEN seatRows
                    ELSE [r \in 1..Max({n, Len(seatRows)}) |-> IF r <= n THEN served ELSE seatRows[r]]

\* mutant: the first item that fails ends the run
SyncItemFirstError(answer) ==
    LET item == Head(run.left)
        next == [run EXCEPT !.left = Tail(@),
                            !.missed = IF answer \in {"rows", "fewer"} THEN @ ELSE @ \cup {item}]
    IN  /\ Upsert(item, answer) /\ UpsertSeats(item, answer)
        /\ IF answer = "error" THEN run' = Idle /\ last' = next ELSE Ended(next, FALSE)
        /\ UNCHANGED <<served, fin, pool, news, runs>>

\* An item of a keyed feed: what fails is logged and the next item follows, but without
\* the board there are no seats.
SyncItem(answer) ==
    LET item == Head(run.left)
        got == answer \in {"rows", "fewer"}
        next == [run EXCEPT !.left = IF item = "board" /\ ~got THEN <<>> ELSE Tail(@),
                            !.missed = IF got THEN @
                                       ELSE IF item = "board" THEN @ \cup ToSet(run.left)
                                       ELSE @ \cup {item}]
    IN  /\ Upsert(item, answer) /\ UpsertSeats(item, answer)
        /\ Ended(next, FALSE)
        /\ UNCHANGED <<served, fin, pool, news, runs>>

\* upsert_financial_extra: updated_at moves when a row is new or changes.
UpsertFinance(c, answer) ==
    fin' = IF answer # "rows" \/ fin[c].version = served THEN fin
           ELSE [fin EXCEPT ![c] = [version |-> served, touched |-> served]]

\* A code of the finance run; failures in a row open the breaker.
SyncCode(answer) ==
    LET c == Head(run.left)
        bad == IF answer = "error" THEN run.bad + 1 ELSE 0
    IN  /\ UpsertFinance(c, answer)
        /\ Ended([run EXCEPT !.left = Tail(@), !.bad = bad,
                             !.missed = IF answer = "rows" THEN @ ELSE @ \cup {c}],
                 bad = Breaker)
        /\ UNCHANGED <<served, stored, seatRows, pool, news, runs>>

\* The run is cut off: the items committed so far stay.
Crash ==
    /\ run # Idle /\ run' = Idle
    /\ UNCHANGED <<served, stored, seatRows, fin, pool, news, runs, last>>

-----------------------------------------------------------------------------
(* The stock pool *)

\* mutant: the day itself counts, and its rows have been deleted by then
PriorIndustriesDeleted(d) ==
    IF d <= Len(pool) THEN <<>> ELSE [c \in DOMAIN Last(pool) |-> Last(pool)[c].industry]

\* _prior_industries: of the newest snapshot before d in which any code has one.
PriorIndustries(d) ==
    LET with == {x \in DOMAIN pool : x < d /\ \E c \in DOMAIN pool[x] : pool[x][c].industry # NoIndustry}
    IN  IF with = {} THEN <<>> ELSE [c \in DOMAIN pool[Max(with)] |-> pool[Max(with)][c].industry]

\* mutant: the rows of today's first snapshot are not deleted
SnapshotMerged(d, codes) ==
    [c \in codes \cup (IF d <= Len(pool) THEN DOMAIN pool[d] ELSE {}) |->
        IF c \in codes
        THEN [industry |-> IF c \in DOMAIN PriorIndustries(d) THEN PriorIndustries(d)[c] ELSE NoIndustry,
              answer |-> runs + 1]
        ELSE pool[d][c]]

\* write_pool_snapshot: the rows of day d from one answer.
Snapshot(d, codes) ==
    [c \in codes |->
        [industry |-> IF c \in DOMAIN PriorIndustries(d) THEN PriorIndustries(d)[c] ELSE NoIndustry,
         answer |-> runs + 1]]

\* sync_pool_snapshot, for the next day or again for the newest one: delete and insert are
\* one transaction; an empty table leaves everything alone. A rank that broke off is a part.
SyncPool(again, codes) ==
    LET d == IF again THEN Len(pool) ELSE Len(pool) + 1
    IN  /\ again => Len(pool) > 1
        /\ runs < MaxRuns /\ runs' = runs + 1
        /\ pool' = IF codes = {} THEN pool
                   ELSE IF again THEN [pool EXCEPT ![d] = Snapshot(d, codes)]
                   ELSE Append(pool, Snapshot(d, codes))
        /\ UNCHANGED <<served, stored, seatRows, fin, news, run, last>>

-----------------------------------------------------------------------------
(* The news *)

\* Items of the sources; an item whose time does not parse has none, and its key is not unique.
Untimed(item) == item = MaxNews

\* fetch_news_cls and fetch_news_em: a source that fails or has nothing adds no item.
ClsAnswers == SUBSET {i \in 1..MaxNews : i % 2 = 1}
EmAnswers == SUBSET {i \in 1..MaxNews : i % 2 = 0}

\* mutant: all columns are updated, filled or not
UpsertNewsAll(fetched, scored) ==
    {r \in news : Untimed(r.item) \/ r.item \notin fetched}
        \cup {[item |-> i, copy |-> IF Untimed(i) THEN runs ELSE 0, scored |-> i \in scored] : i \in fetched}

\* upsert_news_rows: a stored item keeps its score when the batch brings none; an item
\* without time is inserted again.
UpsertNews(fetched, scored) ==
    LET old(i) == {r \in news : r.item = i /\ ~Untimed(i)}
    IN  {r \in news : Untimed(r.item) \/ r.item \notin fetched}
            \cup {[item |-> i, copy |-> IF Untimed(i) THEN runs ELSE 0,
                   scored |-> i \in scored \/ \E r \in old(i) : r.scored] : i \in fetched}

\* sync_recent: the sources that answered, together; scores are asked for one by one. A
\* batch that is scored in part is no valid statement and is lost as a whole.
SyncNews(fetched, scored) ==
    /\ runs < MaxRuns /\ runs' = runs + 1 /\ fetched # {}
    /\ scored \subseteq fetched
    /\ news' = IF scored \notin {{}, fetched} THEN news ELSE UpsertNews(fetched, scored)
    /\ UNCHANGED <<served, stored, seatRows, fin, pool, run, last>>

Next ==
    \/ Revise \/ Crash
    \/ \E feed \in Keyed : StartKeyed(feed)
    \/ \E nightly \in BOOLEAN : StartFinance(nightly)
    \/ run.feed \in Keyed /\ \E a \in AnswersFor(run.feed, Head(run.left)) : SyncItem(a)
    \/ run.feed = "finance" /\ \E a \in AnswersFor(run.feed, Head(run.left)) : SyncCode(a)
    \/ \E again \in BOOLEAN, codes \in SUBSET CodeSet : SyncPool(again, codes)
    \/ \E cls \in ClsAnswers, em \in EmAnswers : \E scored \in SUBSET (cls \cup em) : SyncNews(cls \cup em, scored)
Spec == Init /\ [][Next]_vars
-----------------------------------------------------------------------------
TypeOK ==
    /\ served \in 1..MaxVersion /\ runs \in 0..MaxRuns
    /\ \A i \in DOMAIN stored : stored[i] \in 0..served
    /\ \A c \in CodeSet : fin[c].version \in 0..served /\ fin[c].touched = fin[c].version
    /\ run.feed = "idle" <=> run.left = <<>>
    /\ run.bad < Breaker /\ run.missed \cap ToSet(run.left) = {}

\* A failing item costs its run nothing but itself: every other item is at least as new as
\* what its source served when the run began.
RunCatchesUp ==
    last.feed \in Keyed =>
        \A i \in ToSet(Items[last.feed]) \ last.missed : stored[i] >= last.began

\* The seats of a side are never newer than the one ranked above them: what a shorter answer
\* leaves of an older one is below it.
SeatsNewestFirst == \A r \in 1..Len(seatRows) - 1 : seatRows[r + 1] <= seatRows[r]

\* A nightly finance run that the breaker did not stop leaves no stock of the pool without
\* figures but those whose source failed or had none.
NightlyFills ==
    last.feed = "finance" /\ last.all /\ ~last.aborted =>
        \A c \in last.of : fin[c].version = 0 => c \in last.missed

\* The snapshot of a day is the rows of one answer of the spot table, however often the
\* day is written.
SnapshotOfOneAnswer ==
    \A d \in DOMAIN pool : \A a, b \in DOMAIN pool[d] : pool[d][a].answer = pool[d][b].answer

\* The spot table serves no industries, yet a stock that no snapshot misses keeps its own.
IndustryHandedDown ==
    \A d \in DOMAIN pool : \A c \in DOMAIN pool[d] :
        (\A x \in 1..d : c \in DOMAIN pool[x]) => pool[d][c].industry = c

\* An item scored once stays scored, whatever is fetched later without scoring.
ScoresSurvive ==
    \A r \in news : r.scored => \E s \in news' : s.item = r.item /\ s.copy = r.copy /\ s.scored

\* What the feeds store is what their sources served, item by item and snapshot by snapshot.
FeedsSound ==
    /\ TypeOK /\ RunCatchesUp /\ SeatsNewestFirst /\ NightlyFills
    /\ SnapshotOfOneAnswer /\ IndustryHandedDown

=============================================================================
