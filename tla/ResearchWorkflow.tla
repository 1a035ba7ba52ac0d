-------------------------- MODULE ResearchWorkflow --------------------------
(***************************************************************************)
(* One research cycle (modules/research/workflow.py): the market matrix,   *)
(* run_matrix, which settles each requested lane by itself, and the older  *)
(* run, which settles categories together.                                 *)
(*                                                                         *)
(* Scores are measured from the data and adjusted by agents one after the  *)
(* other; any agent may fail or ask for a reassessment.  When every lane   *)
(* has its result, the winners are ranked against each other so that they  *)
(* spread over markets.  Scores count five points as one.  Symbols and     *)
(* lanes are numbered in the order of their names.                         *)
(***************************************************************************)
EXTENDS Integers, Sequences, FiniteSets

CONSTANTS
  Requested,   \* sequence of lanes of the run
  SymbolsOf,   \* SymbolsOf[lane]: symbols its provider can list
  Underlying,  \* Underlying[symbol]
  Exposure,    \* Exposure[symbol]: signed currencies of a forex pair
  Base,        \* scores the data can measure
  Offer,       \* adjustments agents send
  Analysts,    \* number of roles before the critic in a lane
  Category     \* categories of the older run

TopScore == 20
MaxStep == 2
MaxDrift == 3

Lane == {Requested[i] : i \in DOMAIN Requested}
Symbol == UNION {SymbolsOf[l] : l \in Lane}

ASSUME WorkflowAssumption ==
  /\ Requested \in Seq(Nat) /\ Cardinality(Lane) = Len(Requested)
  /\ Symbol \subseteq Nat \ {0} /\ \A s \in Symbol : IsFiniteSet(Exposure[s])
  /\ Base \subseteq 0..TopScore /\ Offer \subseteq Int /\ Analysts \in Nat \ {0}

VARIABLES
  byLane,    \* run_matrix (TRUE) or run
  turn,      \* roles that have reviewed the group at hand; 0: none yet
  at,        \* the lane at hand, an index of Requested
  measured,  \* base_scores of the eligible symbols at hand
  adjusted,  \* adjusted_scores
  reviews,   \* statuses of the reviews of the lane at hand
  results,   \* lane results so far
  ranking,   \* results whose candidates are still to be ranked
  taken,     \* underlyings and exposures of the winners so far
  todo,      \* categories of the older run without a verdict
  picked, missing, degraded

laneVars == <<turn, at, measured, adjusted, reviews, results, ranking, taken>>
categoryVars == <<todo, picked, missing, degraded>>
cycleVars == <<byLane, laneVars, categoryVars>>

Scores(S) == [S -> 0..TopScore]
Empty == <<>>

WorkflowInit ==
  /\ byLane \in BOOLEAN
  /\ turn = 0 /\ at = 1 /\ measured = Empty /\ adjusted = Empty
  /\ reviews = <<>> /\ results = <<>> /\ ranking = {} /\ taken = {}
  /\ todo = Category /\ picked = {} /\ missing = {} /\ degraded = FALSE

----------------------------------------------------------------------------
(* run_matrix                                                              *)

AtLane == byLane /\ at <= Len(Requested)

Result(status) ==
  [lane |-> Requested[at], status |-> status, reviews |-> reviews', measured |-> measured',
   score |-> adjusted', winner |-> 0]

NextLane(status) ==
  /\ results' = Append(results, Result(status))
  /\ at' = at + 1 /\ turn' = 0
  /\ ranking' = IF status = "READY" THEN ranking \cup {Len(results) + 1} ELSE ranking

(* No provider method, or one that fails.                                  *)
GatherFails ==
  /\ AtLane /\ turn = 0
  /\ measured' = Empty /\ adjusted' = Empty /\ reviews' = <<>>
  /\ \E status \in {"NOT_CONFIGURED", "UNAVAILABLE"} : NextLane(status)
  /\ UNCHANGED <<byLane, taken, categoryVars>>

(* Symbols whose evidence is stale or corrupt are not eligible.            *)
Gather ==
  /\ AtLane /\ turn = 0
  /\ \E eligible \in SUBSET SymbolsOf[Requested[at]] : measured' \in [eligible -> Base]
  /\ adjusted' = measured' /\ reviews' = <<>>
  /\ IF DOMAIN measured' = {}
       THEN NextLane("NO_TRADE")
       ELSE turn' = 1 /\ UNCHANGED <<at, results, ranking>>
  /\ UNCHANGED <<byLane, taken, categoryVars>>

Least(x, y) == IF x < y THEN x ELSE y
Most(x, y) == IF x > y THEN x ELSE y

(* _bounded_adjustments, and the bounds of every adjustment's effect.      *)
Bounded(offer) == Most(-MaxStep, Least(MaxStep, offer))

MutAdjust(base, score, offer) == Most(0, Least(TopScore, score + Bounded(offer)))
Adjust(base, score, offer) ==
  Most(Most(0, base - MaxDrift),
       Least(TopScore, Least(base + MaxDrift, score + Bounded(offer))))

Passes ==
  /\ reviews' = Append(reviews, "PASS")
  /\ \E offer \in [DOMAIN measured -> Offer] :
       adjusted' = [s \in DOMAIN measured |-> Adjust(measured[s], adjusted[s], offer[s])]

Analyst ==
  /\ AtLane /\ turn \in 1..Analysts
  /\ Passes
  /\ turn' = turn + 1
  /\ UNCHANGED <<byLane, measured, at, results, ranking, taken, categoryVars>>

(* The first role that asks for a reassessment or cannot be reached ends   *)
(* the lane; the critic's words are weighed like the others'.              *)
Stops ==
  /\ AtLane /\ turn \in 1..Analysts + 1
  /\ UNCHANGED <<measured, adjusted>>
  /\ \/ reviews' = Append(reviews, "REASSESS") /\ NextLane("NO_TRADE")
     \/ reviews' = Append(reviews, "UNAVAILABLE") /\ NextLane("UNAVAILABLE")
  /\ UNCHANGED <<byLane, taken, categoryVars>>

Critic ==
  /\ AtLane /\ turn = Analysts + 1
  /\ UNCHANGED measured
  /\ Passes
  /\ NextLane("READY")
  /\ UNCHANGED <<byLane, taken, categoryVars>>

(* Winners across lanes: the best candidate first; whatever it takes up    *)
(* costs the candidates of the later ones.                                 *)
Best(score) ==
  CHOOSE s \in DOMAIN score :
    \A t \in DOMAIN score : score[t] < score[s] \/ (score[t] = score[s] /\ s <= t)

Foremost(i) ==
  \A j \in ranking :
    LET mine == results[i].score[Best(results[i].score)]
        other == results[j].score[Best(results[j].score)]
    IN mine > other \/ (mine = other /\ results[i].lane <= results[j].lane)

Takes(s) == {Underlying[s]} \cup Exposure[s]
Penalty(s) ==
  Least(MaxDrift, (IF Underlying[s] \in taken THEN 2 ELSE 0) + Cardinality(Exposure[s] \cap taken))

Penalised(score) == [s \in DOMAIN score |-> Most(0, score[s] - Penalty(s))]

RankNext ==
  /\ byLane /\ at > Len(Requested)
  /\ \E i \in ranking :
       LET winner == Best(Penalised(results[i].score)) IN
       /\ Foremost(i)
       /\ results' = [results EXCEPT ![i].winner = winner]
       /\ ranking' = ranking \ {i}
       /\ taken' = taken \cup Takes(winner)
  /\ UNCHANGED <<byLane, turn, at, measured, adjusted, reviews, categoryVars>>

----------------------------------------------------------------------------
(* run: every category is gathered, the analysts see all candidates at     *)
(* once and only degrade the run, then each category has its specialist    *)
(* and the critic, and either selects its best candidate or is missing.    *)

GatherAll ==
  /\ ~byLane /\ turn = 0
  /\ \E silent \in SUBSET Category :
       /\ missing' = silent /\ todo' = Category \ silent
       /\ degraded' = (silent # {})
  /\ turn' = 1
  /\ UNCHANGED <<byLane, at, measured, adjusted, reviews, results, ranking, taken, picked>>

AnalystsReview ==
  /\ ~byLane /\ turn = 1
  /\ turn' = 2
  /\ degraded' \in IF todo = {} THEN {degraded} ELSE {degraded, TRUE}
  /\ UNCHANGED <<byLane, at, measured, adjusted, reviews, results, ranking, taken,
                 todo, picked, missing>>

Settle(c, passed) ==
  /\ ~byLane /\ turn = 2 /\ c \in todo
  /\ todo' = todo \ {c}
  /\ IF passed THEN picked' = picked \cup {c} /\ UNCHANGED <<missing, degraded>>
               ELSE missing' = missing \cup {c} /\ degraded' = TRUE /\ UNCHANGED picked
  /\ UNCHANGED <<byLane, laneVars>>

WorkflowNext ==
  \/ GatherFails \/ Gather \/ Analyst \/ Stops \/ Critic \/ RankNext
  \/ GatherAll \/ AnalystsReview
  \/ \E c \in Category, passed \in BOOLEAN : Settle(c, passed)

WorkflowSteps == WorkflowInit /\ [][WorkflowNext]_cycleVars

----------------------------------------------------------------------------
LaneStatus == {"NOT_CONFIGURED", "UNAVAILABLE", "NO_TRADE", "READY"}

WorkflowTypeOK ==
  /\ byLane \in BOOLEAN /\ degraded \in BOOLEAN
  /\ turn \in 0..Analysts + 1 /\ at \in 1..Len(Requested) + 1
  /\ DOMAIN measured \subseteq Symbol /\ measured \in Scores(DOMAIN measured)
  /\ adjusted \in Scores(DOMAIN measured)
  /\ \A i \in DOMAIN results : results[i].status \in LaneStatus
  /\ ranking \subseteq DOMAIN results
  /\ todo \subseteq Category /\ picked \subseteq Category /\ missing \subseteq Category

(* Every lane that was dealt with has one result, whatever failed in it or *)
(* in the lanes before ("always persist one terminal result per lane",     *)
(* workflow.py:278).                                                       *)
OneResultPerLane == [i \in DOMAIN results |-> results[i].lane] = SubSeq(Requested, 1, at - 1)

(* A lane is READY exactly when the critic and every role before it passed *)
(* it, and no score was moved by more than fifteen points from the         *)
(* measured one (docs/market-research.md:49), however many agents spoke.   *)
Unanimous(r) == Len(r.reviews) = Analysts + 1 /\ \A k \in DOMAIN r.reviews : r.reviews[k] = "PASS"
ReadyIsEarned ==
  \A i \in DOMAIN results :
    LET r == results[i] IN
    /\ r.status = "READY" <=> Unanimous(r)
    /\ r.status = "READY" =>
         \A s \in DOMAIN r.score : r.score[s] - r.measured[s] \in -MaxDrift..MaxDrift

(* Two lanes share the market of their winners only if, in one of them,    *)
(* the shared one leads every candidate that overlaps with no other winner *)
(* by the ten points that sharing costs.                                   *)
SharedOnlyIfAhead ==
  \A i, j \in DOMAIN results :
    LET w(k) == results[k].winner
        Free(s, k) == \A m \in DOMAIN results \ {k} : w(m) # 0 => Takes(s) \cap Takes(w(m)) = {}
        Ahead(k) ==
          LET score == results[k].score IN
          \A s \in DOMAIN score : Free(s, k) => score[w(k)] >= score[s] + 2 \/ score[s] = 0
    IN (i # j /\ w(i) # 0 /\ w(j) # 0 /\ Underlying[w(i)] = Underlying[w(j)])
         => Ahead(i) \/ Ahead(j)

(* A category of the older run is selected or missing, never both and      *)
(* never forgotten, and a run that reports no trouble selected them all.   *)
CategoriesAreDecided ==
  /\ picked \cap missing = {}
  /\ turn = 2 /\ ~byLane => picked \cup missing \cup todo = Category
  /\ ~degraded => missing = {}

(* A cycle decides everything it was asked about, once, and its verdicts   *)
(* rest on all the reviews.                                                *)
CycleIsDecided ==
  OneResultPerLane /\ ReadyIsEarned /\ SharedOnlyIfAhead /\ CategoriesAreDecided
=============================================================================
