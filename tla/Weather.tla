------------------------------ MODULE Weather ------------------------------
(***************************************************************************)
(* WeatherService: the forecast for an event, whose lifetime in the cache  *)
(* depends on how far away the event is, and the weather at a place, where *)
(* two cache entries are filled by three operations.  Their callers are    *)
(* DaysheetService, WeatherAlertsService and WeatherDashboardService.      *)
(*                                                                         *)
(* The cache key of a forecast is a place and a date: two events of one    *)
(* day share the entry.  For the forecast a tick is half an hour and eta   *)
(* counts down to the last event of the day, an event of offset o starts o *)
(* ticks before it; for the weather at a place a tick is ten minutes.  A   *)
(* request takes less than a tick of either.                               *)
(***************************************************************************)
EXTENDS Desk, Integers

CONSTANTS
  FarAway,      \* ticks before the event at which a behaviour begins
  LongAfter,    \* ticks after the event at which it ends
  Offsets,      \* of the events of the day, in ticks before the last of them
  AlertWindow   \* how far ahead alerts look, in ticks

Day        == 48    \* ticks of half an hour

ASSUME EtaAssumption == FarAway \in Nat /\ LongAfter \in Nat /\ AlertWindow \in Nat
ASSUME OffsetsAssumption == 0 \in Offsets /\ Offsets \subseteq 0..(Day - 1)

EventOps == {"getWeatherForEvent", "getUpcomingAlerts"}
PlaceOps == {"getCurrent", "getCurrentAndToday", "getDailyForecast"}

CurrentTtl == 1     \* CURRENT_CACHE_TTL, in ticks of ten minutes
DailyTtl   == 6     \* DAILY_CACHE_TTL

VARIABLES
  eta,          \* ticks until the last event of the day; negative after its start
  forecast,     \* Redis: the forecast for its place and date
  current,      \* Redis: weather:current of the place
  daily,        \* Redis: weather:daily of the place, for one day
  apiKey        \* WEATHER_API_KEY is configured

weather     == <<eta, forecast, current, daily, apiKey>>
weatherVars == <<desk, weather>>

Sources == {"forecast", "history", "unavailable"}

WeatherInit ==
  /\ DeskInit
  /\ eta = FarAway
  /\ forecast = Null
  /\ current = Null
  /\ daily = Null
  /\ apiKey \in BOOLEAN

-----------------------------------------------------------------------------
WeatherCall(s) ==
  /\ UNCHANGED weather
  /\ \/ \E op \in EventOps, o \in Offsets :
            Open(s, [Idle EXCEPT !.op = op, !.pc = "event", !.on = o])
     \/ \E op \in PlaceOps : Open(s, [Idle EXCEPT !.op = op, !.pc = "locate"])

(* getMasterDaysheet reads the event, the caller's membership and whether   *)
(* the venue has coordinates; getUpcomingAlerts lists the caller's events   *)
(* that have them and start between now and the end of its window.          *)
FindEvents(s) ==
  LET f == frame[s] IN
  /\ AtStep(s, "event")
  /\ UNCHANGED weather
  /\ \/ /\ f.op = "getUpcomingAlerts" => eta - f.on \in 0..AlertWindow
        /\ Next2(s, "forecast")
     \/ Finish(s, Null)

(* The position comes from the request or from the caller's profile, or the *)
(* request is refused.                                                      *)
ResolveLocation(s) ==
  /\ AtStep(s, "locate")
  /\ UNCHANGED weather
  /\ Authority(s, "place")

(* Without an API key every operation answers null. *)
NoApiKey(s) ==
  /\ AtStep(s, "forecast") \/ AtStep(s, "place")
  /\ ~apiKey
  /\ UNCHANGED weather
  /\ Finish(s, Null)

Days(o) == (eta - o) \div Day     \* Math.floor

(* buildAlert says nothing of a forecast that is not available, nor of fine *)
(* weather.                                                                 *)
Told(op, source, age) ==
  LET answer == [type |-> "forecast", source |-> source, age |-> age] IN
  CASE op = "getWeatherForEvent" -> {answer}
    [] op = "getUpcomingAlerts"  -> IF source = "unavailable" THEN {Null} ELSE {answer, Null}

ReadForecast(s) ==
  LET f == frame[s] IN
  /\ AtStep(s, "forecast") /\ apiKey
  /\ UNCHANGED weather
  /\ \/ /\ forecast # Null
        /\ \E a \in Told(f.op, forecast.source, forecast.age) : Finish(s, a)
     \/ Proceed(s, [f EXCEPT !.pc = "api", !.arg = Days(f.on)])

(* What if the forecast were asked for only when the promised time is past? *)
SourceWhenPromised(days) ==
  IF days > 13 THEN "unavailable" ELSE IF days < 0 THEN "history" ELSE "forecast"

SourceFor(days) ==
  IF days > 14 THEN "unavailable" ELSE IF days < 0 THEN "history" ELSE "forecast"

(* What if the day of the event were like the days before it? *)
TtlWithoutLastDay(days) ==
  CASE days < 0                -> 48
    [] days >= 0 /\ days < 3   -> 4
    [] days >= 3 /\ days < 7   -> 12
    [] OTHER                   -> 24

(* getTtlSeconds. *)
TtlFor(days) ==
  CASE days < 0                -> 48
    [] days >= 0 /\ days < 1   -> 1
    [] days >= 1 /\ days < 3   -> 4
    [] days >= 3 /\ days < 7   -> 12
    [] OTHER                   -> 24

(* The answer of forecast.json or history.json, or neither is asked; then   *)
(* the SETEX, whose failure is ignored.                                     *)
GetForecast(s) ==
  LET f == frame[s]
      entry == [source |-> SourceFor(f.arg), age |-> 0, left |-> TtlFor(f.arg)]
  IN
  /\ AtStep(s, "api")
  /\ forecast' \in {forecast, entry}
  /\ UNCHANGED <<eta, current, daily, apiKey>>
  /\ \E a \in Told(f.op, entry.source, 0) : Finish(s, a)

(* What an operation takes from the cache and what it fetches and stores.   *)
Uses(op) ==
  CASE op = "getCurrent"         -> {"current"}
    [] op = "getCurrentAndToday" -> {"current", "daily"}
    [] op = "getDailyForecast"   -> {"daily"}

Cached == {e \in {"current", "daily"} : IF e = "current" THEN current # Null ELSE daily # Null}

AgeOf(e) == IF e = "current" THEN CurrentTtl - current ELSE DailyTtl - daily

(* A hit needs every entry the operation uses. *)
ReadPlace(s) ==
  LET f == frame[s] IN
  /\ AtStep(s, "place") /\ apiKey
  /\ UNCHANGED weather
  /\ \/ /\ Uses(f.op) \subseteq Cached
        /\ Finish(s, [type |-> "place", ages |-> [e \in Uses(f.op) |-> AgeOf(e)]])
     \/ Next2(s, "fetch")

(* One call to WeatherAPI brings all of them.  The two SETEX may each fail. *)
FetchPlace(s) ==
  LET f == frame[s] IN
  /\ AtStep(s, "fetch")
  /\ \E stored \in SUBSET Uses(f.op) :
       /\ f.op = "getCurrentAndToday" => stored # {"current"}     \* stored second
       /\ current' = IF "current" \in stored THEN CurrentTtl ELSE current
       /\ daily' = IF "daily" \in stored THEN DailyTtl ELSE daily
  /\ UNCHANGED <<eta, forecast, apiKey>>
  /\ Finish(s, [type |-> "place", ages |-> [e \in Uses(f.op) |-> 0]])

TimeLeft(n) == IF n \in {Null, 1} THEN Null ELSE n - 1

(* Half an hour passes between requests. *)
HalfHour ==
  /\ ops \cap EventOps # {} /\ ~Busy
  /\ eta > -LongAfter
  /\ eta' = eta - 1
  /\ forecast' = IF forecast = Null THEN Null
                 ELSE IF forecast.left = 1 THEN Null
                 ELSE [forecast EXCEPT !.age = @ + 1, !.left = @ - 1]
  /\ said' = Null
  /\ UNCHANGED <<frame, ops, calm, current, daily, apiKey>>

TenMinutes ==
  /\ Cached # {} /\ ~Busy
  /\ current' = TimeLeft(current)
  /\ daily' = TimeLeft(daily)
  /\ said' = Null
  /\ UNCHANGED <<frame, ops, calm, eta, forecast, apiKey>>

WeatherHandler(s) ==
  /\ frame[s].op \in EventOps \cup PlaceOps
  /\ \/ FindEvents(s) \/ ResolveLocation(s) \/ NoApiKey(s) \/ ReadForecast(s) \/ GetForecast(s) \/ ReadPlace(s) \/ FetchPlace(s)

(* WeatherAPI fails: the error is caught and the answer is null. *)
WeatherFail(s) ==
  /\ frame[s].op \in EventOps \cup PlaceOps
  /\ Fail(s)
  /\ UNCHANGED weather

WeatherNext ==
  \/ HalfHour \/ TenMinutes
  \/ \E s \in Slots : WeatherCall(s) \/ WeatherHandler(s) \/ WeatherFail(s)

-----------------------------------------------------------------------------
WeatherTypeOK ==
  /\ eta \in -LongAfter..FarAway
  /\ forecast \in [source : Sources, age : 0..47, left : 1..48] \cup {Null}
  /\ current \in {CurrentTtl, Null}
  /\ daily \in (1..DailyTtl) \cup {Null}

(* How old a forecast may be when it is served: the event has come closer   *)
(* since it was cached, so the bound is that of the next distance.          *)
OldestAt(t) ==
  CASE t < 0                           -> 48
    [] t >= 0 /\ t < Day               -> 4
    [] t >= Day /\ t < 3 * Day         -> 12
    [] OTHER                           -> 24

(* A forecast that is served is no older than the next distance allows of   *)
(* one of the events that share its entry; once the last of them has begun, *)
(* no forecast made before is served for longer than half an hour.  The     *)
(* two entries of the dashboard, which three operations fill at different   *)
(* times, are each served within their own lifetime.                        *)
ServedWeatherIsFresh ==
  [][/\ said' # Null /\ said'.type = "forecast" =>
          /\ \E o \in Offsets : said'.age < OldestAt(eta - o)
          /\ eta < -1 => said'.source = "history"
     /\ said' # Null /\ said'.type = "place" =>
          \A e \in DOMAIN said'.ages :
            said'.ages[e] < IF e = "current" THEN CurrentTtl ELSE DailyTtl]_weatherVars

(* The answer "available from <event - 14 days>" is kept: fourteen days     *)
(* before the last event of the day nobody is served that answer any more,  *)
(* although it may be cached for half a day.                                *)
PromisedForecastComes ==
  [][said' # Null /\ said'.type = "forecast" /\ eta <= 14 * Day =>
       said'.source # "unavailable"]_weatherVars
=============================================================================
