--------------------------- MODULE StrategyConfig ----------------------------
(***************************************************************************)
(* How the constructors of the bundled strategies turn an agent's config   *)
(* into the one they use: a field of the wrong type is an error or is      *)
(* ignored, a zero is replaced by the default, and some strategies refuse  *)
(* what is out of range.                                                   *)
(***************************************************************************)
EXTENDS Integers

CONSTANTS Absent,    \* the config has no such field
          Bad        \* the field is of another type

\* cadence: seconds between buys (dca_buy) or ticks between decisions; window:
\* prices remembered; top: subnets held; size: amount of a buy or of a quote.
Fields == {"cadence", "window", "top", "size"}

Known(cadence, window, top, size) ==
    [f \in Fields |-> CASE f = "cadence" -> cadence [] f = "window" -> window
                        [] f = "top" -> top [] f = "size" -> size]

\* A constructor that returns an error; no valid config has a size below zero.
Refused == [f \in Fields |-> -1]

-----------------------------------------------------------------------------
(* parseConfig: of the fields a strategy has, those that are given.         *)

\* A field of another type is passed over and stays zero.
Lenient(raw, names) ==
    [f \in Fields |-> IF f \in names /\ raw[f] \notin {Absent, Bad} THEN raw[f] ELSE 0]

\* A field of another type is an error.
Strict(raw, names) == IF \E f \in names : raw[f] = Bad THEN Refused ELSE Lenient(raw, names)

DcaBuyParse(raw)   == Strict(raw, {"cadence", "size"})
AlphaDcaParse(raw) == Strict(raw, {"cadence", "size"})
MakerParse(raw)    == Strict(raw, {"cadence", "size"})
MomentumParse(raw) == Lenient(raw, {"window", "top", "size"})
YieldParse(raw)    == Lenient(raw, Fields)

-----------------------------------------------------------------------------
(* Defaults, Validate and New.                                             *)

WithDefaults(c, default) == [f \in Fields |-> IF c[f] = 0 THEN default[f] ELSE c[f]]

\* An interval of zero cannot be asked for: it means four hours.
DcaBuyConfig(raw) ==
    LET c == WithDefaults(DcaBuyParse(raw), Known(14400, 0, 0, 50))
    IN  IF c["size"] > 0 /\ c["cadence"] >= 0 THEN c ELSE Refused

AlphaDcaConfig(raw) ==
    LET c == WithDefaults(AlphaDcaParse(raw), Known(10, 0, 0, 1))
    IN  IF c["size"] > 0 /\ c["cadence"] >= 1 THEN c ELSE Refused

MomentumConfig(raw) == WithDefaults(MomentumParse(raw), Known(0, 30, 5, 5))

YieldConfig(raw) == WithDefaults(YieldParse(raw), Known(50, 30, 3, 10))

\* There is no default size.
MakerConfig(raw) ==
    LET c == WithDefaults(MakerParse(raw), Known(1, 0, 0, 0))
    IN  IF c["size"] > 0 /\ c["cadence"] > 0 THEN c ELSE Refused

\* The constructor registered for a name.
New(kind, raw) ==
    CASE kind = "dca_buy"            -> DcaBuyConfig(raw)
      [] kind = "alpha_dca"          -> AlphaDcaConfig(raw)
      [] kind = "alpha_momentum"     -> MomentumConfig(raw)
      [] kind = "alpha_yield"        -> YieldConfig(raw)
      [] kind = "market_maker_basic" -> MakerConfig(raw)
=============================================================================
