----------------------------- MODULE MCWhirBudget -----------------------------
(***************************************************************************)
(* The three computations of scripts/whir-mca-budget.py in one model: the  *)
(* ladder's shape with the deployed constants over the whole window, the   *)
(* search for the slacks on ladders of two levels with two candidates and  *)
(* of three levels with three, and the exact counts on codes of up to 64   *)
(* positions with doubles of 8 bits.  A behaviour is one of the three; the *)
(* variables of the others rest at 0.                                      *)
(***************************************************************************)
EXTENDS Integers, SequencesExt

CONSTANTS
  INITIAL_K, SUBSEQ_K, INIT_RED, SUBSEQ_RED, RESIDUAL_MAX_LOG, MIN_MU, MAX_MU, MIN_R, MAX_R,
  MAX_M, LOG_Q, TARGET, RING_DEGREE, MAX_OOD,
  PRECISION, GRID_LOG, MAX_EXACT_M, MAX_COLS, MAX_RATE, M_MAX, B_MAX

VARIABLES
  part,    \* "ladder", "slack" or "exact"
  R, mu, shape, n_running, reduction, residuals, mismatches,
  levels, config, prev_q, m, best, failed,
  cols, rate, exact_m, sqrt_rho, eta, A, k, certificate, phase

ladderVars == <<R, mu, shape, n_running, reduction, residuals, mismatches>>
slackVars  == <<levels, config, prev_q, m, best, failed>>
exactVars  == <<cols, rate, exact_m, sqrt_rho, eta, A, k, certificate, phase>>
vars == <<part, ladderVars, slackVars, exactVars>>

(* The rows of WHIR_QUERIES have the same lengths for the four rates.      *)
TableLengths == [r \in 1..4 |-> <<2, 3, 3, 3, 3, 4, 4, 4, 4, 5, 5, 5, 5, 6>>]

-----------------------------------------------------------------------------
Ms == 3..MAX_M

C(e, q, l) == [beyond |-> FALSE, eps |-> e, queries |-> q, list |-> l]
Beyond == [beyond |-> TRUE, eps |-> 9, queries |-> 1, list |-> 1]
Never == C(0, 1, 1)

(* The proximity error grows as eta shrinks.                               *)
Monotone(c) == \A p, n \in Ms : p < n /\ ~c[p].beyond => ~c[n].beyond /\ c[n].eps <= c[p].eps

Cands == {Beyond} \cup {C(4, q, l) : q \in {0, 1, 2, 5}, l \in {1, 3}} \cup {C(4, 1, 4), C(3, 1, 1)}
Small == {c \in {<<0, 0>> \o <<p, n, Never>> : p, n \in Cands} : Monotone(c)}
Large == {c \in {<<0, 0>> \o <<p, n, r>> : p, n, r \in {Beyond} \cup {C(4, q, l) : q \in {1, 3}, l \in {1, 3}}} :
            Monotone(c) /\ c[5].list >= c[4].list}

LevelOf(c) == [block_len |-> 4, log_mu |-> 2, cands |-> [n \in Ms |-> c[n]]]
Ladders == {<<LevelOf(a), LevelOf(b)>> : a, b \in Small}
           \cup {<<LevelOf(a), LevelOf(b), LevelOf(b)>> : a, b \in Large}

-----------------------------------------------------------------------------
Ladder == INSTANCE WhirLadder WITH levels <- shape
Slack  == INSTANCE EtaSearch
Exact  == INSTANCE ExactLevel WITH m <- exact_m, MAX_M <- MAX_EXACT_M

ASSUME ConstantsAssumption ==
  /\ INIT_RED <= INITIAL_K /\ SUBSEQ_RED <= SUBSEQ_K /\ SUBSEQ_K \in 1..RESIDUAL_MAX_LOG + 1
  /\ INITIAL_K < MIN_MU /\ MIN_MU <= MAX_MU /\ MIN_R <= MAX_R
  /\ MAX_M >= 3 /\ MAX_EXACT_M >= 3
  /\ Slack!RingDegreeLeads /\ Exact!PrecisionIsEnough

LadderRests == R = 0 /\ mu = 0 /\ shape = 0 /\ n_running = 0 /\ reduction = 0 /\ residuals = 0 /\ mismatches = 0
SlackRests  == levels = 0 /\ config = 0 /\ prev_q = 0 /\ m = 0 /\ best = 0 /\ failed = 0
ExactRests  == /\ cols = 0 /\ rate = 0 /\ exact_m = 0 /\ sqrt_rho = 0 /\ eta = 0 /\ A = 0 /\ k = 0
               /\ certificate = 0 /\ phase = 0

Init ==
  \/ part = "ladder" /\ Ladder!Init /\ SlackRests /\ ExactRests
  \/ part = "slack" /\ Slack!Init /\ LadderRests /\ ExactRests
  \/ part = "exact" /\ Exact!Init /\ LadderRests /\ SlackRests

Next ==
  /\ UNCHANGED part
  /\ \/ part = "ladder" /\ Ladder!Next /\ UNCHANGED <<slackVars, exactVars>>
     \/ part = "slack" /\ Slack!Next /\ UNCHANGED <<ladderVars, exactVars>>
     \/ part = "exact" /\ Exact!Next /\ UNCHANGED <<ladderVars, slackVars>>

Spec == Init /\ [][Next]_vars

-----------------------------------------------------------------------------
(* The levels the budget is computed on are the ones the verifier opens,   *)
(* and every pair of the survey ends with the verifier's residual and with *)
(* as many levels as the table of queries has counts (WhirLadder).         *)
LevelsAreTheVerifiers == part = "ladder" => Ladder!LevelsAreTheVerifiers /\ Ladder!SurveyAgrees

(* The slacks meet every bound, and no level could do with fewer queries   *)
(* (EtaSearch).                                                            *)
GreedIsLeast == part = "slack" => Slack!GreedIsLeast

(* The assertion on the slack holds, the slack is within one double of the *)
(* least, and the agreement threshold is the least for it (ExactLevel).    *)
SlackAndThresholdAreLeast == part = "exact" => Exact!SlackAndThresholdAreLeast

(* The certificate kept is the least in the range searched (ExactLevel).   *)
CertificateIsLeast == part = "exact" => Exact!CertificateIsLeast

=============================================================================
