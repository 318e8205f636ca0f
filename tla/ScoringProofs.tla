--------------------------- MODULE ScoringProofs ---------------------------
(***************************************************************************)
(* What the roundings of the score can do, for every score.                *)
(***************************************************************************)
EXTENDS Scoring, TLAPS

\* A nearest integer is one, and at most half a unit away.
LEMMA NearestIsClose ==
    ASSUME NEW n \in Int, NEW d \in Int, n \div d \in Int, NEW m \in Nearest(n, d)
    PROVE  m \in Int /\ -d <= 2 * (n - m * d) /\ 2 * (n - m * d) <= d
  <1>1. m \in {n \div d, (n \div d) + 1} /\ 2 * (n - m * d) \in -d .. d
    BY Zenon DEF Nearest
  <1>2. m \in Int
    BY <1>1
  <1> QED BY <1>1, <1>2

\* What a score is rounded to is a whole number, of percents or of ten-thousandths.
LEMMA RoundedToInt ==
    ASSUME NEW score \in Int
    PROVE  Percent(score) \subseteq Int /\ Stored(score) \subseteq Int
  <1>1. score \div 10000 \in Int /\ score \div 100 \in Int
    OBVIOUS
  <1>2. Percent(score) \subseteq Int
    BY <1>1, NearestIsClose DEF Percent
  <1>3. Stored(score) \subseteq Int
    BY <1>1, NearestIsClose DEF Stored
  <1> QED BY <1>2, <1>3

\* What the three roundings of a score say of each other.
LEMMA Roundings ==
    ASSUME NEW score \in Int, NEW p \in Percent(score), NEW f \in Stored(score),
           NEW q \in RebuiltPercent(f)
    PROVE  /\ p \in Int /\ f \in Int /\ q \in Int
           /\ -10000 <= 2 * (score - p * 10000) /\ 2 * (score - p * 10000) <= 10000
           /\ -100 <= 2 * (score - f * 100) /\ 2 * (score - f * 100) <= 100
           /\ -100 <= 2 * (f - q * 100) /\ 2 * (f - q * 100) <= 100
  <1>1. score \div 10000 \in Int /\ score \div 100 \in Int
    OBVIOUS
  <1>2. p \in Int /\ -10000 <= 2 * (score - p * 10000) /\ 2 * (score - p * 10000) <= 10000
    BY <1>1, NearestIsClose DEF Percent
  <1>3. f \in Int /\ -100 <= 2 * (score - f * 100) /\ 2 * (score - f * 100) <= 100
    BY <1>1, NearestIsClose DEF Stored
  <1>4. f \div 100 \in Int
    BY <1>3
  <1>5. q \in Int /\ -100 <= 2 * (f - q * 100) /\ 2 * (f - q * 100) <= 100
    BY <1>3, <1>4, NearestIsClose DEF RebuiltPercent
  <1> QED BY <1>2, <1>3, <1>5

\* The percentage Alice reads from a rebuilt event, rounded twice, is at most
\* one off the percentage Bob was told, rounded once.
THEOREM RebuiltScoreIsClose ==
    \A score \in Int : \A p \in Percent(score), f \in Stored(score) :
        \A q \in RebuiltPercent(f) : q - p \in -1 .. 1
  <1> SUFFICES ASSUME NEW score \in Int, NEW p \in Percent(score), NEW f \in Stored(score),
                      NEW q \in RebuiltPercent(f)
               PROVE  q - p \in -1 .. 1
    OBVIOUS
  <1> QED BY Roundings

\* An answer that passed is never shown with less than the threshold, on either
\* side, and one that failed never with more (but it may be shown with 75%).
THEOREM ShownScoreFitsVerdict ==
    \A score \in Int : \A p \in Percent(score), f \in Stored(score) :
        \A q \in RebuiltPercent(f) :
            /\ Passes(score) => p >= 75 /\ q >= 75
            /\ ~Passes(score) => p <= 75 /\ q <= 75
  <1> SUFFICES ASSUME NEW score \in Int, NEW p \in Percent(score), NEW f \in Stored(score),
                      NEW q \in RebuiltPercent(f)
               PROVE  /\ Passes(score) => p >= 75 /\ q >= 75
                      /\ ~Passes(score) => p <= 75 /\ q <= 75
    OBVIOUS
  <1> QED BY Roundings DEF Passes, Threshold
=============================================================================
