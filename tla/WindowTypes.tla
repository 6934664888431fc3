----------------------------- MODULE WindowTypes -----------------------------
(***************************************************************************)
(* The vocabulary of the scanner (types.rs, config.rs) and the classifier  *)
(* of closed windows (detector/classifier.rs).                             *)
(*                                                                         *)
(* A binary market has two tokens.  Their asset ids are never compared     *)
(* with anything but themselves, so a token is the pair of its market and  *)
(* its side.  Prices are integers: MarketStore keys its books by           *)
(* round(10000 * price), and for such prices the detector's test           *)
(* 1.0 - (yes + no) > 0.0 on doubles has the outcome of yes + no < One on  *)
(* the keys (One is 10000 in the code; a configuration may scale it down). *)
(***************************************************************************)
EXTENDS Integers

CONSTANTS Markets,        \* market ids
          Asks,           \* ask prices the router forwards, all positive
          One,            \* the payout of a complete YES + NO set
          Times,          \* values of received_at_ns
          MIN_ARB_TICKS   \* config.rs: arb ticks that make a window real

ASSUME PriceAssumption == Asks \subseteq Nat \ {0} /\ One \in Nat

ASSUME TimesAssumption == Times \subseteq Nat \ {0}

\* config.rs 7-11: "Must be >= 2"; a window announced on its very first tick
\* would need another state machine than the one in spread.rs.
ASSUME MinArbTicksAssumption == MIN_ARB_TICKS \in Nat /\ MIN_ARB_TICKS >= 2

Tokens == Markets \X {"yes", "no"}
YesToken(m) == <<m, "yes">>
NoToken(m) == <<m, "no">>

OpenDurationClass == {"single_tick", "multi_tick"}
CloseReason == {"volume_spike_gradual", "volume_spike_instant",
                "price_drift", "order_vanished"}
NoReason == "none"   \* close_reason = None

WindowObservables == [tick_count          : Nat,
                      trade_event_fired   : BOOLEAN,
                      volume_change_ticks : Nat,
                      price_shifted       : BOOLEAN]

-----------------------------------------------------------------------------
(* detector/classifier.rs, classify(): the class and, for windows that      *)
(* count, the reason they closed.                                           *)

\* Mutant of OpenClass: the boundary of the comparison moved by one.
OpenClassOffByOne(ticks) ==
  IF ticks <= MIN_ARB_TICKS THEN "single_tick" ELSE "multi_tick"

OpenClass(ticks) ==
  IF ticks < MIN_ARB_TICKS THEN "single_tick" ELSE "multi_tick"

ReasonOf(obs) ==
  CASE OpenClass(obs.tick_count) = "single_tick" -> NoReason
    [] OTHER ->
       IF obs.trade_event_fired
         THEN IF obs.volume_change_ticks > 1 THEN "volume_spike_gradual"
                                             ELSE "volume_spike_instant"
         ELSE IF obs.price_shifted THEN "price_drift" ELSE "order_vanished"

\* types.rs, opportunity_class(): 1 is the best priority, 0 is noise.
OpportunityClass(class, reason) ==
  CASE class = "single_tick"           -> 0
    [] reason = "volume_spike_gradual" -> 1
    [] reason = "price_drift"          -> 2
    [] reason = "volume_spike_instant" -> 3
    [] OTHER                           -> 4
=============================================================================
