------------------------------ MODULE Confidence ------------------------------
(***************************************************************************)
(* Confidence (packages/domains/evidence/confidence.py): the level that    *)
(* goes with a heuristic score.  A score is a number of units of which     *)
(* `unit' make up 1.0, so that it is exact; `unit' is any positive number. *)
(***************************************************************************)
EXTENDS Integers

Levels == {"HIGH", "MEDIUM", "LOW", "SPECULATIVE", "INSUFFICIENT"}

(* The levels from_score can give, from the lowest. *)
Rank == [level \in Levels |->
            CASE level = "HIGH" -> 3 [] level = "MEDIUM" -> 2 [] level = "LOW" -> 1
              [] level = "SPECULATIVE" -> 0 [] OTHER -> -1]

(* A score within [0.0, 1.0]; from_score raises ValueError for any other.  *)
InRange(score, unit) == 0 <= score /\ score <= unit

AtLeast(score, hundredths, unit) == 100 * score >= hundredths * unit

FromScore(score, unit) ==
    IF ~InRange(score, unit) THEN "ValueError"
    ELSE IF AtLeast(score, 85, unit) THEN "HIGH"
    ELSE IF AtLeast(score, 60, unit) THEN "MEDIUM"
    ELSE IF AtLeast(score, 35, unit) THEN "LOW"
    ELSE "SPECULATIVE"

Insufficient == [score |-> 0, level |-> "INSUFFICIENT"]
=============================================================================
