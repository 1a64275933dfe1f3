------------------------------ MODULE ExactLevel ------------------------------
(***************************************************************************)
(* johnson_eta_for_m, exact_level and weighted_best of                     *)
(* scripts/whir-mca-budget.py: from a double eta, exact counts.  First the *)
(* slack is nudged upward until its parameter is m, then the agreement     *)
(* threshold A is found by counting up from a floor, then the least        *)
(* certificate is searched with an early stop.                             *)
(*                                                                         *)
(* Doubles have PRECISION bits where the script's have 53, and every root  *)
(* and quotient of two of them is the nearest double, ties to even.  Those *)
(* below 1 are integers over GRID = 2^GRID_LOG; those below 2^PRECISION,   *)
(* over 2^PRECISION.  A rational is a record [num, den].                   *)
(***************************************************************************)
EXTENDS Integers, SequencesExt

CONSTANTS PRECISION, GRID_LOG, MAX_M, MAX_COLS, MAX_RATE, M_MAX, B_MAX

(* No slack is so small that GRID cuts bits of it off, and m is small      *)
(* enough for the quotients of neighbouring doubles to differ by less than *)
(* 1 (4096 against 2^51).                                                  *)
PrecisionIsEnough ==
  /\ MAX_COLS <= PRECISION /\ MAX_M * MAX_M * 2^(2 * PRECISION + MAX_RATE - 1) <= 2^(2 * GRID_LOG)
  /\ MAX_M <= 2^(PRECISION - 2) /\ MAX_COLS + MAX_RATE <= GRID_LOG

VARIABLES
  cols, rate, m,
  sqrt_rho,      \* the double near the root of rho
  eta,           \* 0 before its start
  A,             \* 0 before its start
  k,             \* the multiplicity being searched
  certificate,   \* the best so far: [count, m, B, H]
  phase

vars == <<cols, rate, m, sqrt_rho, eta, A, k, certificate, phase>>

GRID == 2^GRID_LOG
D == 2^cols - 1
n == 2^(cols + rate)

(* math.isqrt, by halving; no argument here reaches 46340^2.               *)
isqrt(x) ==
  LET root[low \in Nat, high \in Nat] ==
        IF high - low = 1 THEN low
        ELSE LET mid == (low + high) \div 2
             IN  IF mid * mid <= x THEN root[mid, high] ELSE root[low, mid]
  IN  root[0, 46340]
(* The floor of the root of num/den; the script takes the root of num*den. *)
floor_sqrt(x) == isqrt(x.num \div x.den)

ceil_sqrt(x) == LET s == floor_sqrt(x) IN IF s * s * x.den = x.num THEN s ELSE s + 1
ceil_fr(x) == -((-x.num) \div x.den)

-----------------------------------------------------------------------------
(* The distance from a number to the next double: its unit in last place.  *)
ulp(v) == Max({1} \cup {2^(b - PRECISION) : b \in {c \in PRECISION..30 : 2^(c - 1) <= v}})
IsDouble(v) == v % ulp(v) = 0

(* The double nearest to num/den.                                          *)
fl(num, den) ==
  LET unit == ulp(num \div den)
      last == (num \div den) \div unit
      twice == 2 * (num - last * unit * den)
  IN  unit * IF twice > unit * den \/ (twice = unit * den /\ last % 2 = 1) THEN last + 1 ELSE last

(* math.sqrt of rho = D/n, which is a double itself; no root is midway     *)
(* between two doubles.                                                    *)
RootOfRho ==
  LET low  == floor_sqrt([num |-> D * GRID * (GRID \div n), den |-> 1])
      unit == ulp(low)
      down == (low \div unit) * unit
  IN  IF (2 * down + unit) * (2 * down + unit) > 4 * D * GRID * (GRID \div n) THEN down ELSE down + unit

johnson_m_param(e) == Max({ceil_fr([num |-> fl(sqrt_rho * 2^PRECISION, e), den |-> 2^PRECISION]), 3})

(* exact_level's m_exact, from the root itself.                            *)
m_exact == Max({ceil_sqrt([num |-> D * GRID * (GRID \div n), den |-> eta * eta]), 3})

None == [count |-> 0, m |-> 0, B |-> 0, H |-> 0]

-----------------------------------------------------------------------------
Init ==
  /\ cols \in 1..MAX_COLS /\ rate \in 1..MAX_RATE /\ m \in 3..MAX_M
  /\ sqrt_rho = RootOfRho
  /\ eta = 0 /\ A = 0 /\ k = 1 /\ certificate = None /\ phase = "eta"

StartEta ==
  /\ phase = "eta" /\ eta = 0
  /\ eta' = fl(sqrt_rho, m)
  /\ UNCHANGED <<cols, rate, m, sqrt_rho, A, k, certificate, phase>>

(* math.nextafter                                                          *)
NudgeEta ==
  /\ phase = "eta" /\ eta > 0 /\ johnson_m_param(eta) > m
  /\ eta' = eta + ulp(eta)
  /\ UNCHANGED <<cols, rate, m, sqrt_rho, A, k, certificate, phase>>

(* Wrong: both terms are rounded up.                                       *)
StartAAbove ==
  /\ phase = "eta" /\ eta > 0 /\ johnson_m_param(eta) = m
  /\ A' = ceil_sqrt([num |-> D * n, den |-> 1]) + ceil_fr([num |-> eta * n, den |-> GRID])
  /\ phase' = "A"
  /\ UNCHANGED <<cols, rate, m, sqrt_rho, eta, k, certificate>>

(* The assertion of johnson_eta_for_m, then the floor.                     *)
StartA ==
  /\ phase = "eta" /\ eta > 0 /\ johnson_m_param(eta) = m
  /\ A' = floor_sqrt([num |-> D * n, den |-> 1]) + (eta * n) \div GRID
  /\ phase' = "A"
  /\ UNCHANGED <<cols, rate, m, sqrt_rho, eta, k, certificate>>

(* A >= (root of rho + eta) n, without the root; GRID is a multiple of n.  *)
Agrees(a) ==
  LET step == GRID \div n
  IN  a * step >= eta /\ (a * step - eta) * (a * step - eta) >= D * GRID * step

RaiseA ==
  /\ phase = "A" /\ ~Agrees(A)
  /\ A' = A + 1
  /\ UNCHANGED <<cols, rate, m, sqrt_rho, eta, k, certificate, phase>>

(* The exception count of a level, over the denominator A - D.             *)
M_ark == Max({ceil_sqrt([num |-> D * GRID * GRID, den |-> 4 * n * eta * eta]), 3})
t2(M) == [num |-> (2 * M + 1) * (2 * M + 1) * n, den |-> 4 * D]      \* t^2 / rho
mu_ark == ceil_sqrt(t2(M_ark)) - 1
h == ceil_fr([t2(M_ark) EXCEPT !.den = 3 * @]) - 1
E0num == ((2 * mu_ark - 1) * h + (n - D - 1) * mu_ark) * (A - D)
           + (n - D) * (h + mu_ark + 4 * D * mu_ark * h)
E0refnum == ((2 * mu_ark - 1) * h + (n - D - 1) * mu_ark) * (A - D)
           + (n - D) * (h + mu_ark + (2 * D - 1) * h * (2 * mu_ark - 1))

(* A certificate's count for multiplicity k and degree B, over A - D.      *)
u(B)  == Min({B, k - 1})
N(B)  == (B + 1) * k * A - (D * B * (B + 1)) \div 2
W(B)  == (k * A * B * (B + 1)) \div 2 - (D * B * (B + 1) * (2 * B + 1)) \div 6
R(B)  == (u(B) + 1) * k - (u(B) * (u(B) + 1)) \div 2
T(B)  == (k * u(B) * (u(B) + 1)) \div 2 - (u(B) * (u(B) + 1) * (2 * u(B) + 1)) \div 6
slope(B) == N(B) - n * R(B)
H(B) == Max({B, (W(B) - n * T(B)) \div slope(B)})
count(B) == ((2 * B - 1) * H(B) + (n - D - 1) * B) * (A - D)
              + (n - D) * (H(B) + B + (2 * D - 1) * H(B) * (2 * B - 1))

Bs == 1..Min({2 * D + 1, B_MAX})
StartSearch ==
  /\ phase = "A" /\ Agrees(A) /\ phase' = "weighted"
  /\ UNCHANGED <<cols, rate, m, sqrt_rho, eta, A, k, certificate>>

(* Wrong: no slope ends the search like a degree that is too large.        *)
StopWithoutSlope == {B \in Bs : D * B >= k * A \/ slope(B) <= 0}

Stop == {B \in Bs : D * B >= k * A}

(* The loop over B for one multiplicity: it breaks off at the first degree *)
(* that is too large and passes over those without a slope.                *)
SearchMultiplicity ==
  /\ phase = "weighted" /\ k <= M_MAX
  /\ LET last == Min(Stop \cup {Max(Bs) + 1}) - 1
         better(best, B) ==
           IF slope(B) > 0 /\ (best = None \/ count(B) < best.count)
             THEN [count |-> count(B), m |-> k, B |-> B, H |-> H(B)] ELSE best
     IN  certificate' = FoldLeft(better, certificate, [B \in 1..last |-> B])
  /\ k' = k + 1
  /\ UNCHANGED <<cols, rate, m, sqrt_rho, eta, A, phase>>

Next == StartEta \/ NudgeEta \/ StartA \/ RaiseA \/ StartSearch \/ SearchMultiplicity

Spec == Init /\ [][Next]_vars

-----------------------------------------------------------------------------
(* Whatever the root and the quotients round to, the assertion behind the  *)
(* loop holds: the nudges do not overshoot.  The slack chosen is then      *)
(* within one double of the least whose parameter is at most m (its        *)
(* quotient may still round down to m one double below), and its exact     *)
(* parameter is m or m + 1.  The threshold is the least agreement for it;  *)
(* under the hypothesis that the script checks (root of rho + eta at most  *)
(* 1) it is a number of positions between the degree and the length, so    *)
(* that no denominator is 0.  The refined exception count is below the one *)
(* the budget is judged by.                                                *)
SlackAndThresholdAreLeast ==
  /\ eta > 0 => johnson_m_param(eta) >= m
  /\ phase # "eta" =>
       /\ \A e \in 1..eta - 1 : IsDouble(e) /\ e + ulp(e) < eta => johnson_m_param(e) > m
       /\ m_exact \in {m, m + 1}
  /\ phase = "weighted" =>
       /\ Agrees(A) /\ \A a \in 0..A - 1 : ~Agrees(a)
       /\ D < A
       /\ eta <= GRID /\ (GRID - eta) * (GRID - eta) >= D * GRID * (GRID \div n) => A <= n
       /\ E0refnum <= E0num

(* The weights of the certificates as they are defined, by sums.           *)
SumOver(S, f(_)) == MapThenSumSet(f, S)
SlopeOf(j, B) == SumOver(0..B, LAMBDA b : j * A - D * b) - n * SumOver(0..Min({B, j - 1}), LAMBDA b : j - b)
HeightOf(j, B) ==
  Max({B, (SumOver(0..B, LAMBDA b : b * (j * A - D * b))
             - n * SumOver(0..Min({B, j - 1}), LAMBDA b : b * (j - b))) \div SlopeOf(j, B)})

(* The early stop and the closed forms lose nothing: the certificate kept  *)
(* has the least count of all that are in the range searched so far.       *)
CertificateIsLeast ==
  phase = "weighted" =>
    LET weight(B, height) == ((2 * B - 1) * height + (n - D - 1) * B) * (A - D)
                               + (n - D) * (height + B + (2 * D - 1) * height * (2 * B - 1))
        counts == {weight(p[2], HeightOf(p[1], p[2])) :
                     p \in {q \in (1..k - 1) \X Bs : D * q[2] < q[1] * A /\ SlopeOf(q[1], q[2]) > 0}}
    IN  IF counts = {} THEN certificate = None ELSE certificate.count = Min(counts)

=============================================================================
