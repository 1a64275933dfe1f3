------------------------------- MODULE EtaSearch -------------------------------
(***************************************************************************)
(* derive_config and optimize_johnson_level of scripts/whir-mca-budget.py: *)
(* level by level, the least number of queries over the slacks eta(m) that *)
(* meet the target.  The search over m stops at the first proximity error  *)
(* that is too large.  A level's queries enter the algebraic bound of the  *)
(* next, but only behind the degree of the ring switch, which is larger    *)
(* than any of them.                                                       *)
(*                                                                         *)
(* The doubles are abstracted to integers: a candidate m of a level is     *)
(* whether its eta is out of range (beyond), its proximity bits (eps), its *)
(* queries (0 if the bits of a query are not positive) and its log2 list   *)
(* size (list).                                                            *)
(***************************************************************************)
EXTENDS Integers, SequencesExt

CONSTANTS
  Ladders,      \* sequences of levels: records [block_len, log_mu, cands]
  MAX_M,        \* JOHNSON_ETA_SEARCH_MAX_M
  LOG_Q, TARGET, RING_DEGREE, MAX_OOD

(* 2^31 and more, against blocks of at most 2^26 positions.                *)
RingDegreeLeads ==
  \A ladder \in Ladders : \A i \in DOMAIN ladder : RING_DEGREE >= ladder[i].block_len + MAX_OOD

Ms == 3..MAX_M

VARIABLES
  levels,    \* the ladder
  config,    \* the candidates chosen for the levels so far
  prev_q,    \* the queries of the level before
  m,         \* the next candidate of the level, MAX_M + 1 behind the last
  best,      \* the best so far: [m, queries, ood], queries = 0 for None
  failed     \* RuntimeError

vars == <<levels, config, prev_q, m, best, failed>>

None == [m |-> 0, queries |-> 0, ood |-> 0]

level == Len(config)                 \* the level's index in the script, from 0
Level == levels[level + 1]
Cand == Level.cands[m]

Log2(n) == Min({k \in 0..n : 2^k >= n})
paper_ood_bits(l, log_mu, samples) ==
  IF samples = 0 THEN LOG_Q - l - log_mu ELSE samples * (LOG_Q - log_mu) - (2 * l - 1)
algebraic_bits(l, queries, samples) == LOG_Q - Log2(Max({RING_DEGREE, queries + samples, 2})) - l

(* The out-of-domain samples a candidate takes, -1 if none are enough.     *)
OodOf(l, log_mu) ==
  LET enough == {s \in 1..MAX_OOD : paper_ood_bits(l, log_mu, s) >= TARGET}
  IN  IF level = 0 THEN 0 ELSE IF enough = {} THEN -1 ELSE Min(enough)

-----------------------------------------------------------------------------
Init ==
  /\ levels \in Ladders
  /\ config = <<>> /\ prev_q = 0 /\ m = 3 /\ best = None /\ failed = FALSE

Searching == ~failed /\ level < Len(levels) /\ m <= MAX_M

TooClose == ~Cand.beyond /\ Cand.eps < TARGET

Meets ==
  /\ ~Cand.beyond /\ Cand.queries \in 1..Level.block_len
  /\ LET ood == OodOf(Cand.list, Level.log_mu)
     IN  /\ ood >= 0
         /\ paper_ood_bits(Cand.list, Level.log_mu, ood) >= TARGET
         /\ algebraic_bits(Cand.list, prev_q, ood) >= TARGET

(* Wrong: a candidate that meets no other bound ends the search as well.   *)
BreakAtAny ==
  /\ Searching /\ (TooClose \/ ~Meets)
  /\ m' = MAX_M + 1
  /\ UNCHANGED <<levels, config, prev_q, best, failed>>

(* break                                                                   *)
Break ==
  /\ Searching /\ TooClose
  /\ m' = MAX_M + 1
  /\ UNCHANGED <<levels, config, prev_q, best, failed>>

(* continue                                                                *)
Continue ==
  /\ Searching /\ ~TooClose /\ ~Meets
  /\ m' = m + 1
  /\ UNCHANGED <<levels, config, prev_q, best, failed>>

Try ==
  /\ Searching /\ ~TooClose /\ Meets
  /\ best' = IF best = None \/ Cand.queries < best.queries
               THEN [m |-> m, queries |-> Cand.queries, ood |-> OodOf(Cand.list, Level.log_mu)] ELSE best
  /\ m' = m + 1
  /\ UNCHANGED <<levels, config, prev_q, failed>>

TakeLevel ==
  /\ ~failed /\ level < Len(levels) /\ m > MAX_M /\ best # None
  /\ config' = Append(config, best)
  /\ prev_q' = best.queries
  /\ m' = 3 /\ best' = None
  /\ UNCHANGED <<levels, failed>>

NoCandidate ==
  /\ ~failed /\ level < Len(levels) /\ m > MAX_M /\ best = None
  /\ failed' = TRUE
  /\ UNCHANGED <<levels, config, prev_q, m, best>>

Next == Break \/ Continue \/ Try \/ TakeLevel \/ NoCandidate

Spec == Init /\ [][Next]_vars

-----------------------------------------------------------------------------
(* What a level may choose: any m of the range and any number of samples   *)
(* that meet every bound, with the degree of the ring switch alone.        *)
Feasible(i) ==
  {n \in Ms :
     LET c == levels[i].cands[n]
     IN  /\ ~c.beyond /\ c.eps >= TARGET /\ c.queries \in 1..levels[i].block_len
         /\ LOG_Q - Log2(RING_DEGREE) - c.list >= TARGET
         /\ \E s \in IF i = 1 THEN {0} ELSE 1..MAX_OOD : paper_ood_bits(c.list, levels[i].log_mu, s) >= TARGET}

(* The choices meet the bounds they have as a chain, each with the queries *)
(* of the level before; none has more queries than another m of its level  *)
(* that meets the bounds by itself; and the search fails only at a level   *)
(* without any such m: neither the early stop nor the order of the levels  *)
(* costs anything.                                                         *)
GreedIsLeast ==
  /\ failed => Feasible(level + 1) = {}
  /\ \A i \in DOMAIN config :
       LET c      == levels[i].cands[config[i].m]
           before == IF i = 1 THEN 0 ELSE config[i - 1].queries
       IN  /\ config[i].m \in Feasible(i) /\ config[i].queries = c.queries
           /\ paper_ood_bits(c.list, levels[i].log_mu, config[i].ood) >= TARGET
           /\ algebraic_bits(c.list, before, config[i].ood) >= TARGET
           /\ \A n \in Feasible(i) : c.queries <= levels[i].cands[n].queries

=============================================================================
