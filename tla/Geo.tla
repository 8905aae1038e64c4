-------------------------------- MODULE Geo --------------------------------
(***************************************************************************)
(* GeoService: addresses looked up in BAN (France) or Nominatim, with a    *)
(* cache for geocode, and the wait that keeps calls to Nominatim apart.    *)
(*                                                                         *)
(* A tick is a tenth of a second.  A frame's arg is the time left of its   *)
(* setTimeout, which may fire late but not early.  lastNominatimCallAt is  *)
(* a field of one process; a restart, which forgets it, is left out.       *)
(***************************************************************************)
EXTENDS Desk, Naturals

CONSTANT Addresses   \* pairs of a country and a normalized address

GeoOps    == {"geocode", "autocomplete"}
Gap       == 11      \* the wait: 1100 ms
RateLimit == 10      \* Nominatim's: one request in a second

VARIABLES
  geoCache,     \* Redis: the addresses whose result is cached
  inFrance,     \* the addresses BAN answers for
  lastCall,     \* Date.now() - lastNominatimCallAt, in this process
  lastSend,     \* ticks since Nominatim was last sent a request
  rejected      \* some fetch has rejected, which leaves lastNominatimCallAt alone

geo     == <<geoCache, inFrance, lastCall, lastSend, rejected>>
geoVars == <<desk, geo>>

GeoInit ==
  /\ DeskInit
  /\ geoCache = {}
  /\ inFrance \in SUBSET Addresses
  /\ lastCall = Gap
  /\ lastSend = Gap
  /\ rejected = FALSE

-----------------------------------------------------------------------------
GeoCall(s) ==
  /\ UNCHANGED geo
  /\ \E a \in Addresses, op \in GeoOps :
       Open(s, [Idle EXCEPT !.op = op, !.on = a, !.arg = 0, !.pc =
                  IF op = "geocode" THEN "cache" ELSE IF a \in inFrance THEN "ban" ELSE "limit"])

(* A hit answers; a miss, or a failing Redis, goes on to the country's API. *)
GetCached(s) ==
  LET a == frame[s].on IN
  /\ AtStep(s, "cache") /\ frame[s].op = "geocode"
  /\ UNCHANGED geo
  /\ \/ a \in geoCache /\ Finish(s, Null)
     \/ Next2(s, IF a \in inFrance THEN "ban" ELSE "limit")

(* An address BAN or Nominatim does not know, and an error status, is an    *)
(* exception of geocode and an empty list of autocomplete.                  *)
FetchBan(s) ==
  /\ AtStep(s, "ban") /\ frame[s].op \in GeoOps
  /\ UNCHANGED geo
  /\ \/ Finish(s, Null)
     \/ frame[s].op = "geocode" /\ Next2(s, "store")

(* What if the time since the last call were what is waited for? *)
WaitElapsed(s) ==
  /\ AtStep(s, "limit") /\ frame[s].op \in GeoOps
  /\ UNCHANGED geo
  /\ Proceed(s, [frame[s] EXCEPT !.pc = "wait", !.arg = IF lastCall < Gap THEN lastCall ELSE 0])

WaitForNominatimRateLimit(s) ==
  /\ AtStep(s, "limit") /\ frame[s].op \in GeoOps
  /\ UNCHANGED geo
  /\ Proceed(s, [frame[s] EXCEPT !.pc = "wait", !.arg = Gap - lastCall])

SendNominatim(s) ==
  /\ AtStep(s, "wait") /\ frame[s].op \in GeoOps /\ frame[s].arg = 0
  /\ lastSend' = 0
  /\ UNCHANGED <<geoCache, inFrance, lastCall, rejected>>
  /\ frame' = [frame EXCEPT ![s].pc = "fetch"]
  /\ said' = [type |-> "nominatim"]
  /\ UNCHANGED <<ops, calm>>

(* fetch resolves: only now is the time of the call noted. *)
NominatimAnswers(s) ==
  /\ AtStep(s, "fetch") /\ frame[s].op \in GeoOps
  /\ lastCall' = 0
  /\ UNCHANGED <<geoCache, inFrance, lastSend, rejected>>
  /\ \/ Finish(s, Null)
     \/ frame[s].op = "geocode" /\ Next2(s, "store")

SetCache(s) ==
  /\ AtStep(s, "store") /\ frame[s].op = "geocode"
  /\ geoCache' \in {geoCache, geoCache \cup {frame[s].on}}
  /\ UNCHANGED <<inFrance, lastCall, lastSend, rejected>>
  /\ Finish(s, Null)

(* The seven days of an entry pass sooner or later. *)
GeoEntryExpires ==
  /\ \E a \in geoCache : geoCache' = geoCache \ {a}
  /\ said' = Null
  /\ UNCHANGED <<frame, ops, calm, inFrance, lastCall, lastSend, rejected>>

Since(t) == IF t < Gap THEN t + 1 ELSE Gap

TenthPasses ==
  /\ lastSend < Gap \/ lastCall < Gap \/ \E s \in Slots : AtStep(s, "wait") /\ frame[s].arg > 0
  /\ lastCall' = Since(lastCall)
  /\ lastSend' = Since(lastSend)
  /\ frame' = [s \in Slots |-> IF AtStep(s, "wait") /\ frame[s].arg > 0
                               THEN [frame[s] EXCEPT !.arg = @ - 1] ELSE frame[s]]
  /\ said' = Null
  /\ UNCHANGED <<ops, calm, geoCache, inFrance, rejected>>

GeoHandler(s) ==
  \/ GetCached(s) \/ FetchBan(s) \/ WaitForNominatimRateLimit(s) \/ SendNominatim(s)
  \/ NominatimAnswers(s) \/ SetCache(s)

GeoFail(s) ==
  /\ frame[s].op \in GeoOps
  /\ Fail(s)
  /\ rejected' = (rejected \/ AtStep(s, "fetch"))
  /\ UNCHANGED <<geoCache, inFrance, lastCall, lastSend>>

GeoNext ==
  \/ GeoEntryExpires \/ TenthPasses
  \/ \E s \in Slots : GeoCall(s) \/ GeoHandler(s) \/ GeoFail(s)

-----------------------------------------------------------------------------
GeoTypeOK ==
  /\ geoCache \subseteq Addresses /\ inFrance \subseteq Addresses
  /\ lastCall \in 0..Gap /\ lastSend \in 0..Gap

(* Nominatim is not sent two requests within a second, by callers that take *)
(* turns and as long as every fetch resolves.  (Callers that wait together  *)
(* call together, and a fetch that rejects is not counted as a call.)       *)
NominatimSpaced ==
  [][calm /\ ~rejected /\ said' # Null /\ said'.type = "nominatim" => lastSend >= RateLimit]_geoVars
=============================================================================
