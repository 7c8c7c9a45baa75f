-------------------------------- MODULE Distrib --------------------------------
(***************************************************************************)
(* pd_spec_t: a distribution of times, parsed from an option and sampled by  *)
(* main() for every job.  A double is a whole number of parts of a            *)
(* microsecond, FRAC parts to each.  A pseudo random generator may draw any  *)
(* value of Draws, and a geometric ramp grows by whole factors.              *)
(***************************************************************************)
EXTENDS Arith, Sequences

CONSTANTS FRAC,     \* parts of a microsecond
          NAN,      \* the value of a parameter that was not given
          Probs,    \* the kinds of distribution in use
          Values,   \* what val, min and max may be
          Steps,    \* what std may be
          Traces,   \* trace files: the numbers in the column read
          Draws     \* what the random kinds may draw

Random == {"EXPON", "NORM", "LOGNORM", "GAMMA"}
Ramps == {"ARITH_SEQ", "GEO_SEQ"}

\* The parser checks no sign: any value may be negative.
ASSUME DistribAssumption ==
    /\ Probs \subseteq Random \cup Ramps \cup {"FIXED", "UNIF", "SFILE"}
    /\ FRAC \in Nat \ {0} /\ NAN \notin Int
    /\ Values \subseteq Int /\ Steps \subseteq Int /\ Draws \subseteq Int
    /\ Traces \subseteq Seq(Int)

VARIABLE pd   \* the pd_spec_t being sampled

-------------------------------------------------------------------------------
(* Parsing *)

\* What the tokens of an option may say, once the trace file they name is read and
\* the k and scale of a GAMMA have become its val and std.
Tokens == [prob : Probs \ {"SFILE"}, val : Values \cup {NAN}, std : Steps \cup {NAN},
           min : Values \cup {NAN}, max : Values \cup {NAN},
           samples : {<<>>}, cur_sample : {0}]
          \cup
          [prob : Probs \cap {"SFILE"}, val : {NAN}, std : {NAN},
           min : Values \cup {NAN}, max : Values \cup {NAN},
           samples : Traces, cur_sample : {0}]

\* A ramp goes up by adding 0 or more, or by multiplying with 1 or more.
Rising(p) == p.std >= (IF p.prob = "ARITH_SEQ" THEN 0 ELSE 1)

\* A ramp that was given no step or no first value gets one.
WithStep(p) == IF p.prob \in Ramps /\ p.std = NAN
               THEN [p EXCEPT !.std = IF p.prob = "ARITH_SEQ" THEN FRAC ELSE 2]
               ELSE p

WithStart(p) == IF p.prob \in Ramps /\ p.val = NAN
                THEN [p EXCEPT !.val = IF Rising(p) THEN p.min ELSE p.max]
                ELSE p

\* The checks at the end of the parser; a file without numbers ends the
\* program when its memory is cut to size.
Accepted(p) ==
    /\ p.prob \in Random \cup Ramps \cup {"FIXED"} => p.val # NAN
    /\ p.prob = "UNIF" => p.min # NAN /\ p.max # NAN
    /\ p.prob \in Random => (p.std = NAN <=> p.prob = "EXPON")
    /\ p.prob \in Ramps => IF Rising(p) THEN p.max # NAN ELSE p.min # NAN
    /\ p.prob = "SFILE" => p.samples # <<>>

pd_parse_internal == {p \in {WithStart(WithStep(t)) : t \in Tokens} : Accepted(p)}

-------------------------------------------------------------------------------
(* Sampling: one pass of pd_sample(), which passes again while it is out of range *)

\* Every comparison with NAN is false.
AtMost(a, b) == a # NAN /\ b # NAN /\ a <= b
Less(a, b) == a # NAN /\ b # NAN /\ a < b

\* Two kinds are not checked against their bounds.
Unchecked == pd.prob \in {"FIXED", "UNIF"}

\* Faulty: the range is half open.
HalfOpen(v) == Unchecked \/ ~(Less(v, pd.min) \/ AtMost(pd.max, v))

InBounds(v) == Unchecked \/ ~(Less(v, pd.min) \/ Less(pd.max, v))

\* The check of distr_gamma(): val^2 / std^2 is within 1 / 100000 of a whole number k.
Sampleable ==
    pd.prob = "GAMMA" =>
        LET v2 == pd.val * pd.val
            s2 == pd.std * pd.std
        IN  \E k \in 0 .. v2 : Abs(k * s2 - v2) * 100000 < s2

\* The value of this pass.
Drawable == CASE pd.prob = "FIXED" -> {pd.val}
              [] pd.prob = "UNIF" -> {pd.min} \cup (pd.min .. pd.max - 1)
                                              \cup (pd.max + 1 .. pd.min)
              [] pd.prob \in Random -> Draws
              [] pd.prob \in Ramps -> {pd.val}
              [] pd.prob = "SFILE" -> {pd.samples[pd.cur_sample + 1]}

\* A ramp stops at the bound it reaches.
Clamped(v) == IF AtMost(pd.max, v) THEN pd.max
              ELSE IF AtMost(v, pd.min) THEN pd.min
              ELSE v

\* Faulty: a ramp stops at its upper bound only.
NextOnlyCapped ==
    CASE pd.prob = "ARITH_SEQ" ->
             [pd EXCEPT !.val = IF AtMost(pd.max, pd.val + pd.std) THEN pd.max
                                ELSE pd.val + pd.std]
      [] pd.prob = "GEO_SEQ" ->
             [pd EXCEPT !.val = IF AtMost(pd.max, pd.val * pd.std) THEN pd.max
                                ELSE pd.val * pd.std]
      [] pd.prob = "SFILE" ->
             [pd EXCEPT !.cur_sample = (pd.cur_sample + 1) % Len(pd.samples)]
      [] OTHER -> pd

\* What the pass leaves for the next one.
NextSpec ==
    CASE pd.prob = "ARITH_SEQ" -> [pd EXCEPT !.val = Clamped(pd.val + pd.std)]
      [] pd.prob = "GEO_SEQ" -> [pd EXCEPT !.val = Clamped(pd.val * pd.std)]
      [] pd.prob = "SFILE" ->
             [pd EXCEPT !.cur_sample = (pd.cur_sample + 1) % Len(pd.samples)]
      [] OTHER -> pd
===============================================================================
