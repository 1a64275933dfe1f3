------------------------------ MODULE WhirLadder ------------------------------
(***************************************************************************)
(* The geometry of a WHIR opening is derived twice: by the loop            *)
(* derive_ladder_shape of scripts/whir-mca-budget.py, which the budget is  *)
(* computed on, and by the recursion shape of LeanerVM/Parameters/Whir,    *)
(* which the verifier is proved about.  The script compares only query     *)
(* counts; here the whole geometry is compared, and with it the lengths of *)
(* the table of counts both copy.                                          *)
(***************************************************************************)
EXTENDS Integers, SequencesExt

CONSTANTS INITIAL_K, SUBSEQ_K, INIT_RED, SUBSEQ_RED, RESIDUAL_MAX_LOG,
          MIN_MU, MAX_MU, MIN_R, MAX_R,
          TableLengths   \* the number of counts in WHIR_QUERIES[R - 1][mu - MIN_MU]

VARIABLES
  R, mu,            \* the pair of the survey
  levels,           \* records [rate, cols, ilv]
  n_running, reduction,
  residuals,        \* the pairs surveyed: the residual of each
  mismatches        \* the pairs whose number of levels is not the table's

vars == <<R, mu, levels, n_running, reduction, residuals, mismatches>>

FirstLevel(m, r) == <<[rate |-> r, cols |-> m - INITIAL_K, ilv |-> INITIAL_K]>>

Init ==
  /\ R = MIN_R /\ mu = MIN_MU
  /\ levels = FirstLevel(MIN_MU, MIN_R) /\ n_running = MIN_MU - INITIAL_K /\ reduction = INIT_RED
  /\ residuals = <<>> /\ mismatches = {}

(* Wrong: the first reduction stays in force.                              *)
AddLevelSameReduction ==
  /\ R <= MAX_R /\ n_running > RESIDUAL_MAX_LOG
  /\ LET k == Min({SUBSEQ_K, n_running})
     IN  /\ levels' = Append(levels, [rate |-> Last(levels).rate + (Last(levels).ilv - reduction),
                                      cols |-> n_running - k, ilv |-> k])
         /\ n_running' = n_running - k
  /\ UNCHANGED <<R, mu, reduction, residuals, mismatches>>

(* One turn of the loop of derive_ladder_shape.                            *)
AddLevel ==
  /\ R <= MAX_R /\ n_running > RESIDUAL_MAX_LOG
  /\ LET k == Min({SUBSEQ_K, n_running})
     IN  /\ levels' = Append(levels, [rate |-> Last(levels).rate + (Last(levels).ilv - reduction),
                                      cols |-> n_running - k, ilv |-> k])
         /\ n_running' = n_running - k
  /\ reduction' = SUBSEQ_RED
  /\ UNCHANGED <<R, mu, residuals, mismatches>>

(* The loops of main over R and mu.                                        *)
NextPair ==
  /\ R <= MAX_R /\ n_running <= RESIDUAL_MAX_LOG
  /\ residuals' = Append(residuals, <<R, mu, n_running>>)
  /\ mismatches' = mismatches \cup
       (IF Len(levels) = TableLengths[R - MIN_R + 1][mu - MIN_MU + 1] THEN {} ELSE {<<R, mu>>})
  /\ R' = IF mu = MAX_MU THEN R + 1 ELSE R
  /\ mu' = IF mu = MAX_MU THEN MIN_MU ELSE mu + 1
  /\ levels' = FirstLevel(mu', R') /\ n_running' = mu' - INITIAL_K /\ reduction' = INIT_RED

Next == AddLevel \/ NextPair

Spec == Init /\ [][Next]_vars

-----------------------------------------------------------------------------
(* The Lean definitions: pairs <<fold, rate>>.                             *)
levelsFrom(fuel, remaining, prevFold, prevRate, red) ==
  LET from[f \in 0..fuel, n \in 0..remaining, fold \in Nat, rate \in Nat, r \in Nat] ==
        IF f = 0 \/ n <= RESIDUAL_MAX_LOG THEN <<>>
        ELSE LET k == Min({SUBSEQ_K, n})
             IN  <<<<k, rate + fold - r>>>> \o from[f - 1, n - k, k, rate + fold - r, SUBSEQ_RED]
  IN  from[fuel, remaining, prevFold, prevRate, red]

shape(m, logInvRate) ==
  <<<<INITIAL_K, logInvRate>>>> \o levelsFrom(m, m - INITIAL_K, INITIAL_K, logInvRate, INIT_RED)

residualLog(m, logInvRate) == m - FoldLeft(LAMBDA n, g : n + g[1], 0, shape(m, logInvRate))

blockLogs(m, ladder) ==
  LET logs[n \in 1..Len(ladder)] ==
        [left |-> (IF n = 1 THEN m ELSE logs[n - 1].left) - ladder[n][1],
         log |-> (IF n = 1 THEN m ELSE logs[n - 1].left) - ladder[n][1] + ladder[n][2]]
  IN  [n \in DOMAIN ladder |-> logs[n].log]

(* The levels the budget is computed on are the ones the verifier opens:   *)
(* folds, rates and code sizes, level by level, from the first turn on.    *)
LevelsAreTheVerifiers ==
  R <= MAX_R =>
    /\ IsPrefix([n \in DOMAIN levels |-> <<levels[n].ilv, levels[n].rate>>], shape(mu, R))
    /\ \A n \in DOMAIN levels : levels[n].cols + levels[n].rate = blockLogs(mu, shape(mu, R))[n]
    /\ n_running <= RESIDUAL_MAX_LOG => Len(levels) = Len(shape(mu, R))

(* Every pair of the window ends with the residual the verifier expects in *)
(* the clear, at most RESIDUAL_MAX_LOG variables, and its table row has a  *)
(* count for each level and no more.                                       *)
SurveyAgrees ==
  /\ mismatches = {}
  /\ \A n \in DOMAIN residuals :
       LET p == residuals[n]
       IN  p[3] = residualLog(p[2], p[1]) /\ p[3] <= RESIDUAL_MAX_LOG
  /\ R > MAX_R => Len(residuals) = (MAX_R - MIN_R + 1) * (MAX_MU - MIN_MU + 1)

=============================================================================
