--------------------------- MODULE WeightedMatch ---------------------------
(***************************************************************************)
(* The score with which the PM workbench ranks a candidate for a project   *)
(* position (lib/weighted-match.ts over lib/jaccard.ts).  Pure: no state.  *)
(*                                                                         *)
(* A ratio of the code is a float; here it is a number of tenths (levels,  *)
(* industries, salaries) or a quotient of two cardinalities (skills), and  *)
(* only the points, which the code rounds, are integers in both.           *)
(* NoAmount stands for a salary that is null and "null" for a null text.   *)
(***************************************************************************)
EXTENDS Integers, FiniteSets

NoAmount == -1

Levels == <<"junior", "mid", "senior", "staff">>

\* Math.round of a / b, for a natural a and a positive b: halves go up.
Round(a, b) == (2 * a + b) \div (2 * b)

Least(a, b) == IF a <= b THEN a ELSE b

AbsDiff(a, b) == IF a <= b THEN b - a ELSE a - b

Common(a, b) == Cardinality(a \cap b)

Either(a, b) == Cardinality(a \cup b)

\* weight * |a \cap b| / |a \cup b|, rounded; no skills on a side, no points.
SkillPoints(a, b, weight) ==
  IF a = {} \/ b = {} THEN 0 ELSE Round(weight * Common(a, b), Either(a, b))

LevelIndexes(level) == {i \in DOMAIN Levels : Levels[i] = level}

\* Tenths: 10 for the same level, 5 for a neighbouring one, 0 for a level that
\* is far, null or outside the four the workbench knows.
LevelTenths(position, candidate) ==
  CASE \E i \in LevelIndexes(position) : i \in LevelIndexes(candidate) -> 10
    [] \E i \in LevelIndexes(position), j \in LevelIndexes(candidate) :
          AbsDiff(i, j) = 1 -> 5
    [] OTHER -> 0

IndustryTenths(position, candidate) ==
  CASE position = "null" \/ candidate = "null" -> 5
    [] position = candidate -> 10
    [] OTHER -> 0

\* The candidate's expectation is one column: its minimum and its maximum.
SalaryTenths(min, max, expected) ==
  CASE min = NoAmount \/ max = NoAmount \/ expected = NoAmount -> 5
    [] expected > max -> 0
    [] expected < min -> 5
    [] OTHER -> 10

\* A declared education counts in full, none is the neutral half.
EducationPoints(education) == IF education = "null" THEN 5 ELSE 10

\* Mutant: the points of a location come on top of those of working remotely.
LocationPoints_both(location, remote_ok) ==
  (IF remote_ok THEN 8 ELSE 0) + (IF location # "null" THEN 7 ELSE 5)

LocationPoints(location, remote_ok) ==
  CASE remote_ok -> 8
    [] ~remote_ok /\ location # "null" -> 7
    [] OTHER -> 5

\* A position is [skills, level, industry, min, max]; a candidate is
\* [skills, level, industry, salary, education, location, remote_ok].
calculateMatch(p, c) ==
  LET industry == IF p.industry = "null" /\ c.industry = "null" THEN 0
                  ELSE Round(15 * IndustryTenths(p.industry, c.industry), 10)
      salary == IF p.min = NoAmount /\ p.max = NoAmount /\ c.salary = NoAmount
                THEN 0 ELSE SalaryTenths(p.min, p.max, c.salary)
  IN  Least(100, SkillPoints(p.skills, c.skills, 40)
                 + Round(15 * LevelTenths(p.level, c.level), 10)
                 + industry
                 + salary
                 + EducationPoints(c.education)
                 + LocationPoints(c.location, c.remote_ok))
=============================================================================
