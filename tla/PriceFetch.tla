----------------------------- MODULE PriceFetch -----------------------------
(***************************************************************************)
(* The price command: finding the exchange of a market, fetching its       *)
(* minute prices page by page, forwards (ASC) or backwards (DESC) from a   *)
(* starting minute, and saving them.  The market goes on trading and other *)
(* commands save its prices meanwhile; a command gives way at the calls to *)
(* the exchange, at the insert and while it sleeps.  The insert is         *)
(* PostgreSQL's: it happens at a moment of its own between the call and    *)
(* its answer, and whether or not the answer ever arrives.                 *)
(*                                                                         *)
(* Time is counted in minutes.  A price is the minute it belongs to: what  *)
(* it says is left out.  The next minute is found on the local clock of    *)
(* the process, which may be put back or forward.                          *)
(***************************************************************************)
EXTENDS Integers, FiniteSets, Functions
LOCAL INSTANCE FiniteSetsExt

CONSTANTS
  Fetches,
  Limits,        \* --limit
  FetchLimit,    \* the fetchLimit of the exchange
  Targets,       \* --targetPages
  Absent,        \* an option that is missing, zero or not a number
  NoFetch,
  Answers,       \* does the exchange end its answer with the page's window?
  Zones,         \* [at : Nat, by : Int]: at minute at the clock moves by minutes
  StartMinute,   \* when the model starts
  OtherBound,    \* bound on the pages other commands save
  ClockBound     \* bound on the clock

ASSUME LimitsAssumption ==
  Limits \subseteq (Nat \ {0}) \cup {Absent} /\ FetchLimit \in Nat \ {0}
ASSUME TargetsAssumption == Targets \subseteq (Nat \ {0}) \cup {Absent}
ASSUME ExchangeAssumption == Answers \subseteq BOOLEAN
ASSUME ZonesAssumption == Zones \subseteq [at : Nat, by : Int]
ASSUME ClockAssumption ==
  /\ StartMinute \in Nat /\ ClockBound \in Nat /\ StartMinute <= ClockBound
  /\ OtherBound \in Nat

Minutes == 0 .. ClockBound

VARIABLES
  now,      \* the current minute
  market,   \* the minutes in which the market traded, the current one included
  saved,    \* table price: minutes (the market and the exchange are fixed)
  fetch,    \* for every command its fetch, or NoFetch
  windowed, \* the kind of exchange, one of Answers
  zone,     \* the local clock of the process, one of Zones
  others    \* the pages other commands saved, and how many prices were new

vars == <<now, market, saved, fetch, windowed, zone, others>>
where == <<windowed, zone>>

Fetch ==
  [phase : {"find", "fetch", "save", "saved", "ended", "failed"},
   direction : {"ASC", "DESC"}, limit : Nat \ {0}, target : Targets,
   origin : Minutes, begun : Minutes, round : Nat \ {0}, start : Int,
   page : SUBSET Minutes, readAt : Minutes, kept : SUBSET Minutes,
   totalSaved : Nat,
   inserted : Nat]   \* of an insert whose answer has not arrived, or never will

\* A fetch is told from none.
ASSUME NoneAssumption == NoFetch \notin Fetch

-----------------------------------------------------------------------------
(* The exchange (external) *)

\* fetchOHLCV(market, '1m', since, limit): the first prices from since on.
Answer(since, limit) ==
  LET from == {m \in market : m >= since /\ (windowed => m < since + limit)}
  IN  {m \in from : Cardinality({x \in from : x <= m}) <= limit}

\* The minute passes, and the market trades in it or does not.
Tick ==
  /\ now < ClockBound
  /\ now' = now + 1
  /\ UNCHANGED <<market, saved, fetch, where, others>>

Trade ==
  /\ now \notin market
  /\ market' = market \cup {now}
  /\ UNCHANGED <<now, saved, fetch, where, others>>

\* Another command, of the exchange's own limit, saves a page it was answered.
SaveOther(page) ==
  /\ others.pages < OtherBound
  /\ saved' = saved \cup page
  /\ others' = [pages |-> others.pages + 1,
                prices |-> others.prices + Cardinality(page \ saved)]
  /\ UNCHANGED <<now, market, fetch, where>>

-----------------------------------------------------------------------------
(* The command *)

\* PriceCommand.run.  It asks again for an exchange it does not support and for
\* a date it cannot read, but takes the rest as it comes.
DirectionOf(option) == IF option \in {"ASC", "DESC"} THEN option ELSE "DESC"
LimitOf(option) == IF option = Absent THEN FetchLimit ELSE option

\* Mutant: the window reaches back one minute more than it has prices.
RangeTooEarly(minute, limit, direction) ==
  IF direction = "ASC" THEN minute ELSE minute - limit

\* start, of calculateOhlcvTimeRange; its end is only logged.
calculateOhlcvTimeRange(minute, limit, direction) ==
  IF direction = "ASC" THEN minute ELSE minute - (limit - 1)

BeginFetch(f, from, direction, limit, target) ==
  /\ fetch[f] = NoFetch
  /\ fetch' = [fetch EXCEPT ![f] =
       [phase |-> "find", direction |-> DirectionOf(direction),
        limit |-> LimitOf(limit), target |-> target, origin |-> from,
        begun |-> now, round |-> 1,
        start |-> calculateOhlcvTimeRange(from, LimitOf(limit),
                                          DirectionOf(direction)),
        page |-> {}, readAt |-> 0, kept |-> {}, totalSaved |-> 0,
        inserted |-> 0]]
  /\ UNCHANGED <<now, market, saved, where, others>>

\* _findExchangeForMarket: the exchange lists the market, or the command exits,
\* also when the list could not be loaded.
FindExchange(f) ==
  /\ fetch[f] # NoFetch /\ fetch[f].phase = "find"
  /\ \E listed \in BOOLEAN :
       fetch' = [fetch EXCEPT ![f].phase = IF listed THEN "fetch" ELSE "failed",
                              ![f].begun = now]
  /\ UNCHANGED <<now, market, saved, where, others>>

-----------------------------------------------------------------------------
(* The loop of _fetchAndSaveOhlcvData *)

\* The exchange answers; saveOhlcv calls createMany, unless there is nothing.
FetchPage(f) ==
  /\ fetch[f] # NoFetch /\ fetch[f].phase = "fetch"
  /\ LET page == Answer(fetch[f].start, fetch[f].limit)
     IN  fetch' = [fetch EXCEPT
           ![f].phase = IF page = {} THEN "saved" ELSE "save",
           ![f].page = page,
           ![f].readAt = now]
  /\ UNCHANGED <<now, market, saved, where, others>>

\* Nothing more to be fetched.  A forward fetch always gets the last price.
Exhausted(f) ==
  \/ fetch[f].page = {}
  \/ fetch[f].direction = "ASC" /\ Cardinality(fetch[f].page) <= 1

\* Mutant: the next page skips a minute.
NextMinuteSkipping(f) ==
  IF fetch[f].direction = "DESC" THEN Min(fetch[f].page) - 2
  ELSE Max(fetch[f].page) + 2

\* Mutant: the next page is the last one again.
NextMinuteSame(f) ==
  IF fetch[f].direction = "DESC" THEN Min(fetch[f].page) + fetch[f].limit - 1
  ELSE Min(fetch[f].page)

\* getMinutes and setMinutes of a Date.  A local time that was twice is taken
\* for the first of the two, one that never was for the time after it.
Local(m) == IF m < zone.at THEN m ELSE m + zone.by
Utc(l) == IF l < zone.at + Max({zone.by, 0}) THEN l ELSE l - zone.by

\* The minute before the first price saved, or after the last.
NextMinute(f) ==
  Utc(IF fetch[f].direction = "DESC" THEN Local(Min(fetch[f].page)) - 1
      ELSE Local(Max(fetch[f].page)) + 1)

\* response.count: createMany leaves out what the table has.
NewPrices(f) == Cardinality(fetch[f].page \ saved)

\* The database carries out createMany, which is atomic.  The command may be
\* waiting for the answer, or have been told that the call failed.
InsertPage(f) ==
  /\ fetch[f] # NoFetch /\ fetch[f].phase \in {"save", "failed"}
  /\ fetch[f].page # {}
  /\ saved' = saved \cup fetch[f].page
  /\ LET x == [fetch[f] EXCEPT !.kept = @ \cup fetch[f].page,
                               !.inserted = NewPrices(f)]
     IN  fetch' = [fetch EXCEPT ![f] =
           IF x.phase = "save" THEN [x EXCEPT !.phase = "saved"]
                               ELSE [x EXCEPT !.page = {}]]
  /\ UNCHANGED <<now, market, where, others>>

\* Mutant: what was fetched counts as saved.
CountFetched(f) == Cardinality(fetch[f].page)
\* count.saved
CountSaved(f) == fetch[f].inserted

\* Mutant: a page too many.
TargetPassed(f) ==
  fetch[f].target # Absent /\ fetch[f].round > fetch[f].target

TargetReached(f) ==
  fetch[f].target # Absent /\ fetch[f].round = fetch[f].target

\* The answer of createMany arrives, and the rest of the round.  Rounds are
\* counted to the target only.
EndRound(f) ==
  /\ fetch[f] # NoFetch /\ fetch[f].phase = "saved"
  /\ LET x == [fetch[f] EXCEPT !.totalSaved = @ + CountSaved(f),
                               !.inserted = 0, !.page = {}, !.readAt = 0]
     IN  \/ /\ Exhausted(f) \/ TargetReached(f)
            /\ fetch' = [fetch EXCEPT ![f] = [x EXCEPT !.phase = "ended"]]
         \/ /\ ~Exhausted(f) /\ ~TargetReached(f)
            /\ fetch' = [fetch EXCEPT ![f] = [x EXCEPT
                 !.phase = "fetch",
                 !.round = IF x.target = Absent THEN @ ELSE @ + 1,
                 !.start = calculateOhlcvTimeRange(NextMinute(f), x.limit,
                                                   x.direction)]]
  /\ UNCHANGED <<now, market, saved, where, others>>

\* A call to the exchange or to the database fails: the fetch ends with the
\* total it has.  A createMany whose connection is lost or timed out may have
\* been carried out, may be yet, or never.
CallFails(f) ==
  /\ fetch[f] # NoFetch
  /\ \/ fetch[f].phase \in {"fetch", "save"}
     \/ fetch[f].phase = "saved" /\ fetch[f].page # {}
  /\ fetch' = [fetch EXCEPT
       ![f].phase = "failed", ![f].readAt = 0,
       ![f].page = IF fetch[f].phase = "save" THEN @ ELSE {}]
  /\ UNCHANGED <<now, market, saved, where, others>>

-----------------------------------------------------------------------------

\* The market traded in any minutes so far, and nothing is saved.
Init ==
  /\ now = StartMinute
  /\ market \in SUBSET (0 .. StartMinute)
  /\ saved = {}
  /\ fetch = [f \in Fetches |-> NoFetch]
  /\ windowed \in Answers
  /\ zone \in Zones
  /\ others = [pages |-> 0, prices |-> 0]

\* A command that has begun: its calls are carried out and answered.
Round(f) ==
  \/ FindExchange(f)
  \/ FetchPage(f)
  \/ fetch[f] # NoFetch /\ fetch[f].phase = "save" /\ InsertPage(f)
  \/ EndRound(f)

Next ==
  \/ Tick
  \/ Trade
  \/ \E f \in Fetches :
       \/ \E from \in Minutes, direction \in {"ASC", "DESC", "OTHER"},
             limit \in Limits, target \in Targets :
            BeginFetch(f, from, direction, limit, target)
       \/ Round(f)
       \/ CallFails(f)
       \/ InsertPage(f)
  \/ \E since \in Minutes : SaveOther(Answer(since, FetchLimit))

Spec == Init /\ [][Next]_vars

\* A call returns or times out, and a sleep ends; nothing makes the database
\* carry out what nobody waits for any more.
FairSpec == Spec /\ \A f \in Fetches : WF_vars(Round(f))

-----------------------------------------------------------------------------
(* Properties *)

Begun == {f \in Fetches : fetch[f] # NoFetch}

TypeOK ==
  /\ now \in StartMinute .. ClockBound
  /\ market \subseteq 0 .. now
  /\ saved \subseteq market
  /\ fetch \in [Fetches -> Fetch \cup {NoFetch}]
  /\ \A f \in Begun :
       /\ fetch[f].target # Absent => fetch[f].round <= fetch[f].target
       /\ Cardinality(fetch[f].page) <= fetch[f].limit
       /\ fetch[f].page # {} => fetch[f].phase \in {"save", "saved", "failed"}
       /\ fetch[f].phase = "save" => fetch[f].page # {}
       /\ fetch[f].inserted # 0 =>
            \/ fetch[f].phase = "saved"
            \/ fetch[f].phase = "failed" /\ fetch[f].page = {}
       /\ fetch[f].page \subseteq market
       /\ fetch[f].kept \subseteq saved
  /\ windowed \in Answers /\ zone \in Zones
  /\ others \in [pages : 0 .. OtherBound, prices : Nat]

\* What the local clock hides: a forward fetch steps over the hour that is gone
\* through twice, a backward one over as much before the page it got there.
Hidden(m, direction) ==
  /\ zone.by < 0
  /\ m < zone.at - zone.by
  /\ m >= IF direction = "ASC" THEN zone.at ELSE zone.at + zone.by

\* Between its starting minute and the furthest price it has saved, a fetch has
\* saved every price there was when it began, in whichever direction it goes,
\* whether the market trades every minute or not, whether calls fail or not and
\* late as an insert may be carried out, and wherever the clock is put forward;
\* where it is put back, only what Hidden says is left out (price.service.ts
\* 835-842).
NoHoles ==
  \A f \in Begun :
    \A m \in market, k \in fetch[f].kept :
      /\ fetch[f].direction = "ASC" /\ fetch[f].origin <= m /\ m <= k
           => m \in fetch[f].kept \/ Hidden(m, "ASC")
      /\ fetch[f].direction = "DESC" /\ k <= m /\ m <= fetch[f].origin
         /\ m < fetch[f].begun
           => m \in fetch[f].kept \/ Hidden(m, "DESC")

\* The totals the commands claim add up to the table, although others save the
\* same minutes between a fetch and its insert, short of what an insert took whose
\* answer has not arrived or was lost: of a fetch that failed, the last page may
\* be in the table and in no total (price.service.ts 692, 815-816, 857).
Accounted == [f \in Begun |-> fetch[f].totalSaved + fetch[f].inserted]
TotalsAddUp == SumFunction(Accounted) + others.prices = Cardinality(saved)

\* A forward fetch that ends by itself has caught up (price.command.ts 78: it goes
\* on "until no new results are fetched"): the exchange has no price it has not
\* fetched, but for the minute that was running and those the clock hides.  On
\* an exchange that ends its answers with the window a pause may end it before,
\* and with a limit of one every page is taken for the last.
EndsCaughtUp ==
  [][\A f \in Begun :
       /\ fetch[f].phase = "saved" /\ fetch'[f].phase = "ended"
       /\ fetch[f].direction = "ASC" /\ ~TargetReached(f)
       /\ ~windowed /\ fetch[f].limit > 1
       => \A m \in market :
            /\ fetch[f].origin <= m /\ m < fetch[f].readAt
            => m \in fetch'[f].kept \/ Hidden(m, "ASC")]_vars

\* price.command.ts 78: "If no target pages is provided the script will
\* continue fetching prices until no new results are fetched".
Over(f) == fetch[f] # NoFetch /\ fetch[f].phase \in {"ended", "failed"}
FetchEnds == \A f \in Fetches : (fetch[f] # NoFetch) ~> Over(f)

\* On an exchange that ends its answers with the window, and where no clock is
\* put forward, every fetch ends, for it finds new prices a finite number of
\* times only.
WindowedFetchEnds ==
  windowed /\ zone.by <= 0 =>
    \A f \in Fetches : (fetch[f] # NoFetch) ~> Over(f)
=============================================================================
