---------------------------- MODULE PortsProofs ----------------------------
(***************************************************************************)
(* Theorems about the timer ports, readTimeBaseReg, the 64 bit division    *)
(* and alm_get_stamp on a clock that is set back, for every width of the   *)
(* registers and every rate that the assumptions of MCPorts allow.         *)
(***************************************************************************)
EXTENDS MCPorts, QueueLemmas
-----------------------------------------------------------------------------
(* Powers of two.  That a recursive definition has a value at all is shown   *)
(* by gluing its finite beginnings together.                                 *)

Doubles(f, n) ==
  f \in [0..n -> Nat] /\ f[0] = 1 /\ \A m \in 1..n : f[m] = 2 * f[m - 1]

\* There are beginnings of every length, ...
LEMMA BeginningExists == \A n \in Nat : \E f : Doubles(f, n)
<1> DEFINE T == {n \in Nat : ~ \E f : Doubles(f, n)}
<1>1. SUFFICES ASSUME T # {} PROVE FALSE
  OBVIOUS
<1>2. PICK m \in T : \A k \in T : m <= k
  <2>1. T \in SUBSET Nat
    OBVIOUS
  <2> HIDE DEF T
  <2>2. QED BY <1>1, <2>1, LeastNatural
<1>3. m # 0
  <2>1. Doubles([i \in 0..0 |-> 1], 0)
    BY DEF Doubles
  <2>2. QED BY <2>1
<1>4. m - 1 \in Nat /\ m - 1 \notin T
  BY <1>2, <1>3
<1>5. PICK f : Doubles(f, m - 1)
  BY <1>4
<1> DEFINE g == [i \in 0..m |-> IF i = m THEN 2 * f[m - 1] ELSE f[i]]
<1>6. Doubles(g, m)
  <2>1. \A i \in 0..(m - 1) : g[i] = f[i] /\ f[i] \in Nat
    BY <1>2, <1>5 DEF Doubles
  <2>2. g[m] = 2 * f[m - 1] /\ f[m - 1] \in Nat
    BY <1>2, <1>4, <1>5 DEF Doubles
  <2>3. \A i \in 0..m : i = m \/ i \in 0..(m - 1)
    BY <1>2
  <2>4. g \in [0..m -> Nat]
    <3>1. 2 * f[m - 1] \in Nat
      BY <2>2
    <3>2. \A i \in 0..m : i # m => f[i] \in Nat
      BY <2>1, <2>3
    <3>3. QED BY <3>1, <3>2
  <2>5. f[0] = 1 /\ \A i \in 1..(m - 1) : f[i] = 2 * f[i - 1]
    BY <1>5 DEF Doubles
  <2> HIDE DEF g
  <2>6. \A i \in 1..m : g[i] = 2 * g[i - 1]
    <3>1. SUFFICES ASSUME NEW i \in 1..m PROVE g[i] = 2 * g[i - 1]
      OBVIOUS
    <3>2. i - 1 \in 0..(m - 1)
      BY <1>2
    <3>3. CASE i = m
      BY <2>1, <2>2, <3>2, <3>3
    <3>4. CASE i # m
      <4>1. i \in 1..(m - 1) /\ i \in 0..(m - 1)
        BY <1>2, <3>4
      <4>2. QED BY <2>1, <2>5, <3>2, <4>1
    <3>5. QED BY <3>3, <3>4
  <2>7. 0 \in 0..(m - 1)
    BY <1>4
  <2>8. QED BY <2>1, <2>4, <2>5, <2>6, <2>7 DEF Doubles
<1>7. QED BY <1>2, <1>6

\* ... and they agree.
LEMMA BeginningsAgree ==
  ASSUME NEW n \in Nat, NEW k \in Nat, NEW f, NEW g, Doubles(f, n), Doubles(g, k),
         NEW i \in Nat, i <= n, i <= k
  PROVE  f[i] = g[i]
<1> DEFINE T == {m \in Nat : m <= n /\ m <= k /\ f[m] # g[m]}
<1>1. SUFFICES ASSUME T # {} PROVE FALSE
  OBVIOUS
<1>2. PICK m \in T : \A j \in T : m <= j
  <2>1. T \in SUBSET Nat
    OBVIOUS
  <2> HIDE DEF T
  <2>2. QED BY <1>1, <2>1, LeastNatural
<1>3. m # 0
  BY <1>2 DEF Doubles
<1>4. m - 1 \in Nat /\ m - 1 \notin T /\ m - 1 <= n /\ m - 1 <= k /\ m \in 1..n /\ m \in 1..k
  BY <1>2, <1>3
<1>5. f[m] = 2 * f[m - 1] /\ g[m] = 2 * g[m - 1] /\ f[m - 1] = g[m - 1]
  BY <1>4 DEF Doubles
<1>6. QED BY <1>2, <1>5

\* The recursion of Pow2.
LEMMA Pow2Def == Pow2 = [n \in Nat |-> IF n = 0 THEN 1 ELSE 2 * Pow2[n - 1]]
<1> DEFINE Is(f) == f = [n \in Nat |-> IF n = 0 THEN 1 ELSE 2 * f[n - 1]]
           begin(n) == CHOOSE f : Doubles(f, n)
           F == [n \in Nat |-> begin(n)[n]]
<1>1. \A n \in Nat : Doubles(begin(n), n)
  BY BeginningExists
<1> HIDE DEF begin
<1>2. \A n \in Nat : F[n] = IF n = 0 THEN 1 ELSE 2 * F[n - 1]
  <2>1. SUFFICES ASSUME NEW n \in Nat PROVE F[n] = IF n = 0 THEN 1 ELSE 2 * F[n - 1]
    OBVIOUS
  <2>2. CASE n = 0
    BY <1>1, <2>2 DEF Doubles
  <2>3. CASE n # 0
    <3>1. n - 1 \in Nat /\ n \in 1..n
      BY <2>3
    <3>2. F[n] = 2 * begin(n)[n - 1]
      BY <1>1, <3>1 DEF Doubles
    <3>3. begin(n)[n - 1] = begin(n - 1)[n - 1]
      BY <1>1, <3>1, BeginningsAgree
    <3>4. QED BY <2>3, <3>1, <3>2, <3>3
  <2>4. QED BY <2>2, <2>3
<1>3. F = [n \in Nat |-> F[n]]
  OBVIOUS
<1> HIDE DEF F
<1>4. Is(F)
  BY <1>2, <1>3
<1>5. Pow2 = CHOOSE f : Is(f)
  BY DEF Pow2
<1> HIDE DEF Is
<1>6. Is(Pow2)
  BY <1>4, <1>5
<1>7. QED BY <1>6 DEF Is

\* Powers of two are positive, and each is twice the one before.
LEMMA Pow2Properties ==
  /\ Pow2[0] = 1
  /\ \A n \in Nat : Pow2[n] \in Nat /\ Pow2[n] > 0 /\ Pow2[n + 1] = 2 * Pow2[n]
<1>1. Pow2[0] = 1 /\ \A n \in Nat : n # 0 => Pow2[n] = 2 * Pow2[n - 1]
  <2> DEFINE g == Pow2
  <2>1. g = [n \in Nat |-> IF n = 0 THEN 1 ELSE 2 * g[n - 1]]
    BY Pow2Def
  <2> HIDE DEF g
  <2>2. \A n \in Nat : g[n] = IF n = 0 THEN 1 ELSE 2 * g[n - 1]
    BY <2>1
  <2>3. QED BY <2>2 DEF g
<1>2. \A n \in Nat : Pow2[n + 1] = 2 * Pow2[n]
  <2>1. \A n \in Nat : n + 1 \in Nat /\ n + 1 # 0 /\ (n + 1) - 1 = n
    OBVIOUS
  <2>2. QED BY <1>1, <2>1
<1> DEFINE T == {n \in Nat : ~(Pow2[n] \in Nat /\ Pow2[n] > 0)}
<1>3. T = {}
  <2>1. SUFFICES ASSUME T # {} PROVE FALSE
    OBVIOUS
  <2>2. PICK m \in T : \A k \in T : m <= k
    <3>1. T \in SUBSET Nat
      OBVIOUS
    <3> HIDE DEF T
    <3>2. QED BY <2>1, <3>1, LeastNatural
  <2>3. m # 0
    BY <1>1, <2>2
  <2>4. m - 1 \in Nat /\ m - 1 \notin T
    BY <2>2, <2>3
  <2>5. Pow2[m] = 2 * Pow2[m - 1]
    BY <1>1, <2>2, <2>3
  <2>6. QED BY <2>2, <2>4, <2>5
<1>4. QED BY <1>1, <1>2, <1>3
-----------------------------------------------------------------------------
(* Division. *)

\* Quotient and remainder are unique.
LEMMA DivisionUnique ==
  ASSUME NEW X \in Nat, NEW Y \in Nat, NEW q \in Nat, NEW r \in Nat, r + Y * q = X, r < Y
  PROVE  X \div Y = q /\ X % Y = r
<1>1. Y > 0 /\ X = Y * q + r
  OBVIOUS
<1>2. QED BY <1>1

\* Whole laps do not change what is left.
LEMMA LapsVanish ==
  ASSUME NEW t \in Nat, NEW q \in Nat, NEW n \in Nat, n > 0
  PROVE  (t + q * n) % n = t % n /\ t % n \in Nat /\ t % n < n
<1> DEFINE a == t \div n
           r == t % n
<1>1. a \in Nat /\ r \in Nat /\ r < n /\ t = a * n + r
  OBVIOUS
<1> HIDE DEF a, r
<1>2. q * n \in Nat /\ n * (a + q) = a * n + q * n /\ a + q \in Nat
  BY <1>1
<1>3. r + n * (a + q) = t + q * n /\ t + q * n \in Nat
  BY <1>1, <1>2
<1>4. (t + q * n) % n = r
  BY <1>1, <1>2, <1>3, DivisionUnique
<1>5. QED BY <1>1, <1>4 DEF r
-----------------------------------------------------------------------------
(* Microseconds and ticks. *)

\* Timestamps count the ticks in units of D.
LEMMA StampOf ==
  ASSUME NEW t \in Nat, NEW D \in Nat, D > 0
  PROVE  /\ t \div D \in Nat
         /\ (t \div D) * D <= t /\ t < (t \div D + 1) * D
         /\ (t + 1) \div D # t \div D => (t + 1) \div D = t \div D + 1 /\ t + 1 = (t \div D + 1) * D
OBVIOUS

\* When the ticks of n microseconds have passed, timestamps have reached n.
LEMMA StampReached ==
  ASSUME NEW t \in Nat, NEW D \in Nat, D > 0, NEW n \in Nat, n * D <= t
  PROVE  n <= t \div D
OBVIOUS

\* Rounding up loses no tick.
LEMMA RoundedUpCovers ==
  ASSUME NEW n \in Nat, NEW D \in Nat, D > 0
  PROVE  RoundedUp(n, D) \in Nat /\ n <= RoundedUp(n, D) * D
<1>1. n + D - 1 \in Nat
  OBVIOUS
<1>2. RoundedUp(n, D) = (n + D - 1) \div D
  BY DEF RoundedUp
<1> DEFINE q == (n + D - 1) \div D
<1>3. q \in Nat /\ n + D - 1 < (q + 1) * D
  BY <1>1, StampOf
<1> HIDE DEF q
<1>4. (q + 1) * D = q * D + D
  BY <1>3
<1>5. n <= q * D
  BY <1>3, <1>4
<1>6. QED BY <1>2, <1>3, <1>5 DEF q

\* An interrupt that comes in the microsecond after its due date, or n ticks
\* after that microsecond, is no later than n rounded up.
LEMMA InTime ==
  ASSUME NEW t \in Nat, NEW D \in Nat, D > 0, NEW n \in Nat, NEW E \in Nat, NEW due_ \in Nat,
         t < E, E < (due_ + 1) * D + n, (t + 1) \div D # t \div D
  PROVE  t \div D < due_ + RoundedUp(n, D)
<1> DEFINE s == t \div D
           L == RoundedUp(n, D)
<1>1. s \in Nat /\ t + 1 = (s + 1) * D
  BY StampOf
<1>2. L \in Nat /\ n <= L * D
  BY RoundedUpCovers
<1> HIDE DEF s, L
<1>3. (s + 1) * D < (due_ + 1) * D + L * D
  BY <1>1, <1>2
<1>4. (due_ + 1) * D + L * D = (due_ + 1 + L) * D
  BY <1>2
<1>5. s + 1 < due_ + 1 + L
  BY <1>1, <1>2, <1>3, <1>4
<1>6. s < due_ + L
  BY <1>1, <1>2, <1>5
<1>7. QED BY <1>6 DEF s, L

\* The delay that timer_setup is given.
LEMMA LimitedDelay ==
  ASSUME NEW asked \in Int, NEW max \in Nat, MIN_WAIT <= max
  PROVE  /\ Limited(asked, max) \in Nat /\ MIN_WAIT <= Limited(asked, max)
         /\ Limited(asked, max) <= max
         /\ asked <= MAX_WAIT => Limited(asked, max) <= Limited(MAX_WAIT, max)
BY PortAssumption DEF Limited, Least

\* A delay in ticks does not overflow the register.
LEMMA TicksFit ==
  ASSUME NEW n \in Nat, NEW D \in Nat, D > 0, NEW m \in Nat, m <= (n - 1) \div D, n > 0
  PROVE  m * D < n
<1>1. n - 1 \in Nat
  OBVIOUS
<1> DEFINE q == (n - 1) \div D
<1>2. q \in Nat /\ q * D <= n - 1
  BY <1>1, StampOf
<1> HIDE DEF q
<1>3. m * D <= q * D
  BY <1>2 DEF q
<1>4. QED BY <1>2, <1>3

\* timer_get_max_delay is no shorter than the delay that fits.
LEMMA MaxFits ==
  ASSUME NEW n \in Nat, NEW D \in Nat, D > 0, NEW m \in Nat, m * D < n
  PROVE  m <= (n - 1) \div D /\ (n - 1) \div D \in Nat
<1>1. n - 1 \in Nat /\ m * D <= n - 1
  OBVIOUS
<1>2. QED BY <1>1, StampReached, StampOf
-----------------------------------------------------------------------------
(* What all ports share. *)

PortTyped ==
  /\ ticks \in Nat /\ delay \in Nat /\ until \in Nat /\ due \in Nat \cup {Off}
  /\ spent \in Nat
  /\ request \in BOOLEAN /\ handler \in BOOLEAN

\* Inside alm_init and timer_setup: what alm_init reports later.
Initialising(first, setup, open) ==
  /\ init_state = "none" => pc = "idle"
  /\ pc \in first => init_state = "failed"
  /\ pc \in {"ack", "handler"} => init_state = "ok"
  /\ pc = "enable" => handler
  /\ pc \in {"init"} \cup setup \/ init_state = "ok" => handler /\ open
  /\ init_state # "ok" => ~request /\ due = Off
  /\ init_state = "ok" /\ pc = "idle" => request \/ due # Off

\* A delay has been asked for at a timestamp, in units of D ticks, at most Slack
\* ticks ago.
SetupAsked(D) ==
  /\ MIN_WAIT <= delay /\ delay <= until
  /\ (until - delay) * D <= ticks
  /\ ticks < (until - delay + 1) * D + spent /\ spent <= Slack

\* A port is typed when the library has been loaded.
LEMMA PortInitTyped == PortInit => PortTyped
<1> SUFFICES ASSUME PortInit PROVE PortTyped
  OBVIOUS
<1>1. ticks \in Nat /\ delay \in Nat /\ until \in Nat /\ due \in Nat \cup {Off}
  BY DEF PortInit
<1>2. spent \in Nat
  BY DEF PortInit
<1>3. request \in BOOLEAN /\ handler \in BOOLEAN
  BY Zenon DEF PortInit
<1>4. QED BY <1>1, <1>2, <1>3 DEF PortTyped

\* The delay fits into the register of a port whose timer has D ticks per
\* microsecond.
LEMMA FittingDelay ==
  ASSUME NEW a \in Int, NEW D \in Nat, D > 0, MIN_WAIT * D < Pow2[Bits - 1],
         NEW n, n = Limited(a, (Pow2[Bits - 1] - 1) \div D)
  PROVE  n \in Nat /\ MIN_WAIT <= n /\ n * D < Pow2[Bits - 1] /\ n * D \in Nat
<1> DEFINE H == Pow2[Bits - 1]
           max == (H - 1) \div D
<1>1. H \in Nat /\ H > 0
  <2>1. Bits - 1 \in Nat
    BY PartsAssumption
  <2>2. QED BY <2>1, Pow2Properties
<1>2. MIN_WAIT \in Nat /\ MIN_WAIT * D < H
  BY PortAssumption
<1> HIDE DEF H
<1>3. max \in Nat /\ MIN_WAIT <= max
  BY <1>1, <1>2, MaxFits
<1>4. n \in Nat /\ MIN_WAIT <= n /\ n <= max
  <2>1. n = Limited(a, max)
    BY DEF H
  <2> HIDE DEF max
  <2>2. QED BY <1>3, <2>1, LimitedDelay
<1>5. n * D < H /\ n * D \in Nat
  BY <1>1, <1>4, TicksFit
<1>6. QED BY <1>4, <1>5 DEF H

\* When alm_setup_alarm calls timer_setup, its timestamp is up to date.
LEMMA AskedNow ==
  ASSUME NEW t \in Nat, NEW D \in Nat, D > 0, NEW l \in Nat, NEW u, u = t \div D + l,
         NEW n, n = 0
  PROVE  u \in Nat /\ l <= u /\ (u - l) * D <= t /\ t < (u - l + 1) * D + n /\ n <= Slack
<1> DEFINE s == t \div D
<1>1. s \in Nat /\ s * D <= t /\ t < (s + 1) * D
  BY StampOf
<1>2. u = s + l
  OBVIOUS
<1> HIDE DEF s
<1>3. u - l = s /\ u \in Nat /\ l <= u
  BY <1>1, <1>2
<1>4. (s + 1) * D \in Nat
  BY <1>1
<1>5. t < (s + 1) * D + n /\ n <= Slack
  BY <1>1, <1>4, PortAssumption
<1>6. QED BY <1>1, <1>3, <1>5

\* When timer_setup returns after n ticks, the delay ends in the microsecond after
\* the due date, or n ticks after that microsecond.
LEMMA DelayEnds ==
  ASSUME NEW t \in Nat, NEW D \in Nat, D > 0, NEW l \in Nat, NEW u \in Nat, NEW n \in Nat,
         l <= u, (u - l) * D <= t, t < (u - l + 1) * D + n
  PROVE  u * D <= t + l * D /\ t + l * D < (u + 1) * D + n
<1>1. PICK k \in Nat : k = u - l
  OBVIOUS
<1>2. k * D <= t /\ t < (k + 1) * D + n /\ u = k + l
  BY <1>1
<1>3. u * D = k * D + l * D /\ (u + 1) * D = (k + 1) * D + l * D
  BY <1>2
<1>4. k * D \in Nat /\ (k + 1) * D \in Nat /\ l * D \in Nat
  OBVIOUS
<1>5. QED BY <1>2, <1>3, <1>4
-----------------------------------------------------------------------------
(* TimerPpcDec. *)

PpcSetup == {"stop", "load"}

PpcRegisters == [off : BOOLEAN, base : Nat, count : Nat, masked : BOOLEAN]

PpcTyped ==
  /\ PortTyped
  /\ dev \in PpcRegisters
  /\ init_state \in {"none", "failed", "ok"}
  /\ pc \in {"idle", "level", "mutex", "install", "enable", "init", "ack", "handler"}
            \cup PpcSetup

\* A count that nobody waits for goes on after its request only.
PpcState ==
  /\ Initialising({"level", "mutex", "install", "enable", "init"}, PpcSetup, ~dev.masked)
  /\ pc = "load" => dev.off
  /\ dev.off => due = Off
  /\ ~dev.off /\ due = Off => request

\* The count changes with every second tick of the time base.
PpcTiming ==
  /\ pc \in PpcSetup => SetupAsked(2 * TmrTicks) /\ delay * TmrTicks < Pow2[Bits - 1]
  /\ due # Off =>
       /\ due * (2 * TmrTicks) <= 2 * (ticks \div 2 + dev.count)
       /\ 2 * (ticks \div 2 + dev.count) < (due + 1) * (2 * TmrTicks) + Slack

\* TimerPpcDec and this module mean the same powers of two.
LEMMA PpcPow2 == Ppc!Pow2 = Pow2
BY DEF Ppc!Pow2, Pow2

\* timer_get_max_delay keeps the ticks of a delay within the 31 bits of the count.
LEMMA PpcDelay ==
  ASSUME NEW a \in Int
  PROVE  LET n == Ppc!Limited(a, Ppc!timer_get_max_delay)
         IN  n \in Nat /\ MIN_WAIT <= n /\ n * TmrTicks < Pow2[Bits - 1] /\ n * TmrTicks \in Nat
<1> DEFINE n == Limited(a, (Pow2[Bits - 1] - 1) \div TmrTicks)
<1>1. Ppc!Limited(a, Ppc!timer_get_max_delay) = n
  BY PpcPow2 DEF Ppc!timer_get_max_delay, Ppc!timer_timerticks_to_usec, Ppc!Limited, Limited,
     Ppc!Least, Least
<1>2. TmrTicks \in Nat /\ TmrTicks > 0 /\ MIN_WAIT * TmrTicks < Pow2[Bits - 1]
  BY PartsAssumption
<1>3. n \in Nat /\ MIN_WAIT <= n /\ n * TmrTicks < Pow2[Bits - 1] /\ n * TmrTicks \in Nat
  BY <1>2, FittingDelay
<1> HIDE DEF n
<1>4. QED BY <1>1, <1>3

\* The registers after a write to the base count.
LEMMA PpcBaseCount ==
  ASSUME dev \in PpcRegisters
  PROVE  /\ LET r == Ppc!BaseCount(Ppc!TIMER_DISABLE)
            IN  r \in PpcRegisters /\ r.off /\ r.count = dev.count /\ r.masked = dev.masked
         /\ \A n \in Nat : n < Pow2[Bits - 1] =>
              LET r == Ppc!BaseCount(n)
              IN  /\ r \in PpcRegisters /\ ~r.off /\ r.masked = dev.masked
                  /\ dev.off => r.count = n
<1> DEFINE H == Pow2[Bits - 1]
<1>1. H \in Nat /\ H > 0 /\ Ppc!TIMER_DISABLE = H
  <2>1. Bits - 1 \in Nat
    BY PartsAssumption
  <2>2. QED BY <2>1, Pow2Properties, PpcPow2 DEF Ppc!TIMER_DISABLE
<1> HIDE DEF H
<1>2. H >= H /\ H % H = 0
  BY <1>1
<1>3. \A n \in Nat : n < H => ~(n >= H) /\ n % H = n
  BY <1>1
<1>4. Ppc!BaseCount(H) = [dev EXCEPT !.off = TRUE, !.base = 0, !.count = dev.count]
  BY <1>1, <1>2 DEF Ppc!BaseCount, PpcRegisters
<1>5. ASSUME NEW n \in Nat, n < H
      PROVE  Ppc!BaseCount(n) =
               [dev EXCEPT !.off = FALSE, !.base = n, !.count = IF dev.off THEN n ELSE dev.count]
  <2>1. (n >= H) = FALSE /\ n % H = n
    BY <1>3, <1>5
  <2>2. Ppc!BaseCount(n) =
          [dev EXCEPT !.off = FALSE, !.base = n,
                      !.count = IF dev.off /\ ~FALSE THEN n ELSE dev.count]
    BY <1>1, <2>1 DEF Ppc!BaseCount, PpcRegisters
  <2>3. QED BY <2>2
<1> DEFINE stopped == Ppc!BaseCount(H)
<1>6. stopped \in PpcRegisters /\ stopped.off /\ stopped.count = dev.count
      /\ stopped.masked = dev.masked
  <2>1. PICK r : r = stopped
    OBVIOUS
  <2>2. r = [dev EXCEPT !.off = TRUE, !.base = 0, !.count = dev.count]
    BY <1>4, <2>1
  <2>3. r.off = TRUE /\ r.count = dev.count /\ r.masked = dev.masked
    BY <2>2 DEF PpcRegisters
  <2>4. r \in PpcRegisters
    BY <2>2 DEF PpcRegisters
  <2>5. QED BY <2>1, <2>3, <2>4
<1>7. ASSUME NEW n \in Nat, n < H
      PROVE  LET r == Ppc!BaseCount(n)
             IN  /\ r \in PpcRegisters /\ ~r.off /\ r.masked = dev.masked
                 /\ dev.off => r.count = n
  BY <1>5, <1>7 DEF PpcRegisters
<1>8. QED BY <1>1, <1>6, <1>7 DEF H

\* timer_setup starts the count, and no bit of it is lost.
LEMMA PpcLoads ==
  ASSUME PpcTyped, Ppc!Load
  PROVE  /\ dev' \in PpcRegisters /\ ~dev'.off /\ dev'.masked = dev.masked
         /\ dev.off /\ delay * TmrTicks < Pow2[Bits - 1] => dev'.count = delay * TmrTicks
<1> DEFINE m == delay * TmrTicks
           P == Pow2[Bits]
           H == Pow2[Bits - 1]
           n == (m % P) % H
<1>1. m \in Nat /\ P \in Nat /\ P > 0 /\ H \in Nat /\ H > 0 /\ H < P
  <2>1. Bits \in Nat /\ Bits - 1 \in Nat /\ (Bits - 1) + 1 = Bits /\ TmrTicks \in Nat
    BY PartsAssumption
  <2>2. QED BY <2>1, Pow2Properties DEF PpcTyped, PortTyped
<1>2. dev' = Ppc!BaseCount(n)
  BY PpcPow2 DEF Ppc!Load, Ppc!timer_usec_to_timerticks, Ppc!TIMER_DISABLE
<1> HIDE DEF m, P, H
<1>3. m % P \in Nat
  BY <1>1
<1>4. n \in Nat /\ n < H
  BY <1>1, <1>3
<1>5. m < H => n = m
  BY <1>1
<1> HIDE DEF n
<1>6. /\ dev' \in PpcRegisters /\ ~dev'.off /\ dev'.masked = dev.masked
      /\ dev.off => dev'.count = n
  BY <1>2, <1>4, PpcBaseCount DEF H, PpcTyped
<1>7. QED BY <1>5, <1>6 DEF m, H

\* The port's invariant holds when the library has been loaded.
LEMMA PpcInit == Ppc!Init => PpcTyped /\ PpcState /\ PpcTiming
<1> SUFFICES ASSUME Ppc!Init PROVE PpcTyped /\ PpcState /\ PpcTiming
  OBVIOUS
<1>1. /\ ticks = 1 /\ request = FALSE /\ pc = "idle" /\ delay = 0 /\ until = 0 /\ due = Off
      /\ spent = 0 /\ init_state = "none" /\ handler = FALSE
      /\ dev = [off |-> TRUE, base |-> 0, count |-> 0, masked |-> TRUE]
  BY DEF Ppc!Init, Ppc!PortInit, Ppc!Off, Off
<1>2. Slack \in Nat
  BY PortAssumption
<1>3. PpcTyped
  <2>1. PortTyped
    BY PortInitTyped DEF Ppc!Init, Ppc!PortInit, PortInit, Ppc!Off, Off
  <2>2. dev \in PpcRegisters
    BY <1>1 DEF PpcRegisters
  <2>3. QED BY <1>1, <2>1, <2>2 DEF PpcTyped
<1>4. PpcState /\ PpcTiming
  BY <1>1 DEF PpcState, PpcTiming, Initialising, PpcSetup, Off
<1>5. QED BY <1>3, <1>4

\* Every step of the port keeps its registers typed, ...
LEMMA PpcTypedNext ==
  ASSUME PpcTyped, PpcState, [Ppc!Next]_vars
  PROVE  PpcTyped'
<1> USE DEF PpcTyped, PpcRegisters, PortTyped, PpcSetup, Ppc!initVars, Ppc!Off, Off
<1>1. Slack \in Nat /\ MIN_WAIT \in Nat /\ MAX_WAIT \in Nat
  BY PortAssumption
<1>2. CASE Ppc!Expire
  BY <1>2 DEF Ppc!Expire
<1>3. CASE ~Ppc!Expired /\ Ppc!Tick
  BY <1>1, <1>3 DEF Ppc!Expired, Ppc!Tick, Ppc!Pass
<1>4. CASE \/ Ppc!CallInit("level") \/ Ppc!SetIntLevel \/ Ppc!CreateMutex \/ Ppc!Installed
           \/ Ppc!InstallFails \/ Ppc!EnableInt
  <2>1. CASE Ppc!CallInit("level")
    BY <1>1, <2>1 DEF Ppc!CallInit
  <2>2. CASE Ppc!CreateMutex \/ Ppc!InstallFails
    BY <2>2 DEF Ppc!CreateMutex, Ppc!InstallFails, Ppc!InitStep
  <2>3. CASE Ppc!Installed
    BY <2>3 DEF Ppc!Installed, Ppc!InitStep
  <2>4. CASE Ppc!EnableInt \/ Ppc!SetIntLevel
    BY <2>4 DEF Ppc!EnableInt, Ppc!SetIntLevel, Ppc!InitStep
  <2>5. QED BY <1>4, <2>1, <2>2, <2>3, <2>4
<1>5. CASE Ppc!CallSetup(Ppc!timer_get_stamp, Ppc!timer_get_max_delay, "stop")
  <2>1. PICK a \in Int : delay' = Ppc!Limited(a, Ppc!timer_get_max_delay)
    BY <1>1, <1>5 DEF Ppc!CallSetup, Ppc!Asked
  <2>2. delay' \in Nat
    BY <2>1, PpcDelay
  <2>3. Ppc!timer_get_stamp \in Nat
    BY PartsAssumption, StampOf DEF Ppc!timer_get_stamp, Ppc!timer_timebase_to_usec, Ppc!DecTicks
  <2>4. QED BY <1>1, <1>5, <2>2, <2>3 DEF Ppc!CallSetup
<1>6. CASE Ppc!Stop \/ Ppc!IntAck
  <2>2. dev' \in PpcRegisters
    BY <1>6, PpcBaseCount DEF Ppc!Stop, Ppc!IntAck
  <2>3. CASE Ppc!Stop
    BY <2>2, <2>3 DEF Ppc!Stop, Ppc!StopStep
  <2>4. CASE Ppc!IntAck
    BY <2>2, <2>4 DEF Ppc!IntAck
  <2>5. QED BY <1>6, <2>3, <2>4
<1>7. CASE Ppc!Load
  <2>1. dev' \in PpcRegisters /\ ~dev'.off /\ dev'.masked = dev.masked
    BY <1>7, PpcLoads
  <2>3. QED BY <1>7, <2>1 DEF Ppc!Load, Ppc!LastStep
<1>8. CASE Ppc!Interrupt(~dev.masked) \/ UNCHANGED vars
  BY <1>8 DEF Ppc!Interrupt, vars, initVars
<1>9. QED BY <1>2, <1>3, <1>4, <1>5, <1>6, <1>7, <1>8 DEF Ppc!Next

\* ... keeps device and driver in step, ...
LEMMA PpcStateNext ==
  ASSUME PpcTyped, PpcState, [Ppc!Next]_vars
  PROVE  PpcState'
<1> USE DEF PpcTyped, PortTyped, PpcState, Initialising, PpcSetup, Ppc!initVars, Ppc!Off, Off
<1>1. until # Off
  OBVIOUS
<1>2. CASE Ppc!Expire
  BY <1>2 DEF Ppc!Expire, Ppc!Expired
<1>3. CASE ~Ppc!Expired /\ Ppc!Tick
  BY <1>3 DEF Ppc!Tick, Ppc!Pass
<1>4. CASE Ppc!CallInit("level")
  BY <1>4 DEF Ppc!CallInit
<1>5. CASE Ppc!CreateMutex \/ Ppc!InstallFails
  BY <1>5 DEF Ppc!CreateMutex, Ppc!InstallFails, Ppc!InitStep
<1>6. CASE Ppc!Installed
  BY <1>6 DEF Ppc!Installed, Ppc!InitStep
<1>7. CASE Ppc!EnableInt
  BY <1>7 DEF Ppc!EnableInt, Ppc!InitStep
<1>8. CASE Ppc!SetIntLevel
  BY <1>8 DEF Ppc!SetIntLevel, Ppc!InitStep
<1>9. CASE Ppc!CallSetup(Ppc!timer_get_stamp, Ppc!timer_get_max_delay, "stop")
  BY <1>9 DEF Ppc!CallSetup
<1>10. CASE Ppc!Stop \/ Ppc!IntAck
  <2>1. dev'.off /\ dev'.masked = dev.masked
    BY <1>10, PpcBaseCount DEF Ppc!Stop, Ppc!IntAck
  <2>2. CASE Ppc!Stop
    BY <2>1, <2>2 DEF Ppc!Stop, Ppc!StopStep
  <2>3. CASE Ppc!IntAck
    BY <2>1, <2>3 DEF Ppc!IntAck
  <2>4. QED BY <1>10, <2>2, <2>3
<1>11. CASE Ppc!Load
  <2>1. ~dev'.off /\ dev'.masked = dev.masked
    BY <1>11, PpcLoads
  <2>2. QED BY <1>1, <1>11, <2>1 DEF Ppc!Load, Ppc!LastStep
<1>12. CASE Ppc!Interrupt(~dev.masked)
  BY <1>12 DEF Ppc!Interrupt
<1>13. CASE UNCHANGED vars
  BY <1>13 DEF vars, initVars
<1>14. QED
  BY <1>2, <1>3, <1>4, <1>5, <1>6, <1>7, <1>8, <1>9, <1>10, <1>11, <1>12, <1>13 DEF Ppc!Next

\* The count is lowered at even ticks.
LEMMA HalfTicks ==
  ASSUME NEW t \in Nat
  PROVE  /\ t \div 2 \in Nat /\ 2 * (t \div 2) <= t /\ t <= 2 * (t \div 2) + 1
         /\ (t + 1) % 2 = 0 => (t + 1) \div 2 = t \div 2 + 1
         /\ (t + 1) % 2 # 0 => (t + 1) \div 2 = t \div 2
OBVIOUS

\* ... and keeps the due date.
\* While alm_setup_alarm is on its way at most Slack ticks pass; from then on the
\* count falls as the time base rises.
LEMMA PpcTimingNext ==
  ASSUME PpcTyped, PpcState, PpcTiming, [Ppc!Next]_vars
  PROVE  PpcTiming'
<1> USE DEF PortTyped, PpcSetup, PpcRegisters, Ppc!initVars, Ppc!Off, Off
<1> DEFINE D == 2 * TmrTicks
<1>1. /\ TmrTicks \in Nat /\ D \in Nat /\ D > 0 /\ Slack \in Nat /\ MIN_WAIT \in Nat
      /\ MAX_WAIT \in Nat
  BY PartsAssumption, PortAssumption
<1>2. /\ ticks \in Nat /\ delay \in Nat /\ until \in Nat /\ due \in Nat \cup {Off}
      /\ spent \in Nat /\ dev.count \in Nat
  BY DEF PpcTyped
<1>3. CASE Ppc!Expire
  <2>1. due' = Off /\ UNCHANGED <<ticks, pc, delay, until, spent>>
    BY <1>3 DEF Ppc!Expire
  <2>2. QED BY <2>1 DEF PpcTiming, SetupAsked
<1>4. CASE ~Ppc!Expired /\ Ppc!Tick
  <2>1. /\ ticks' = ticks + 1 /\ UNCHANGED <<pc, delay, until, due>>
        /\ pc \in PpcSetup => spent' = spent + 1 /\ spent < Slack
        /\ dev'.count = IF ~dev.off /\ ticks' % 2 = 0 THEN dev.count - 1 ELSE dev.count
    BY <1>4 DEF Ppc!Tick, Ppc!Pass, Ppc!Pressed, Ppc!SettingUp, PpcTyped
  <2>2. pc \in PpcSetup => SetupAsked(2 * TmrTicks)'
    <3>1. SUFFICES ASSUME pc \in PpcSetup PROVE SetupAsked(2 * TmrTicks)'
      OBVIOUS
    <3>2. SetupAsked(D) /\ spent' = spent + 1 /\ spent < Slack /\ ticks' = ticks + 1
        /\ UNCHANGED <<delay, until>>
      BY <2>1, <3>1 DEF PpcTiming
    <3> HIDE DEF D
    <3>3. SetupAsked(D)'
      BY <1>1, <1>2, <3>2 DEF SetupAsked
    <3>4. QED BY <3>3 DEF D, SetupAsked
  <2>3. ASSUME due # Off PROVE ticks' \div 2 + dev'.count = ticks \div 2 + dev.count
    <3>1. ~dev.off
      BY <2>3 DEF PpcState
    <3>2. CASE ticks' % 2 = 0
      BY <1>2, <2>1, <3>1, <3>2, HalfTicks
    <3>3. CASE ticks' % 2 # 0
      BY <1>2, <2>1, <3>1, <3>3, HalfTicks
    <3>4. QED BY <3>2, <3>3
  <2>4. QED BY <2>1, <2>2, <2>3 DEF PpcTiming
<1>5. CASE \/ Ppc!CallInit("level") \/ Ppc!SetIntLevel \/ Ppc!CreateMutex \/ Ppc!Installed
           \/ Ppc!InstallFails \/ Ppc!EnableInt
  <2>1. pc' \notin PpcSetup /\ UNCHANGED <<ticks, due, dev.count>>
    BY <1>5 DEF Ppc!CallInit, Ppc!SetIntLevel, Ppc!CreateMutex, Ppc!Installed, Ppc!InstallFails,
       Ppc!EnableInt, Ppc!InitStep, PpcTyped
  <2>2. QED BY <2>1 DEF PpcTiming
<1>6. CASE Ppc!CallSetup(Ppc!timer_get_stamp, Ppc!timer_get_max_delay, "stop")
  <2>1. PICK a \in Int : delay' = Ppc!Limited(a, Ppc!timer_get_max_delay)
    BY <1>1, <1>2, <1>6 DEF Ppc!CallSetup, Ppc!Asked
  <2>2. delay' \in Nat /\ MIN_WAIT <= delay' /\ delay' * TmrTicks < Pow2[Bits - 1]
    BY <2>1, PpcDelay
  <2>3. /\ until' = ticks \div (2 * TmrTicks) + delay' /\ pc' = "stop" /\ spent' = 0
        /\ UNCHANGED <<ticks, due, dev>>
    BY <1>2, <1>6 DEF Ppc!CallSetup, Ppc!timer_get_stamp, Ppc!timer_timebase_to_usec,
       Ppc!DecTicks
  <2>4. SetupAsked(2 * TmrTicks)'
    BY <1>1, <1>2, <2>2, <2>3, AskedNow DEF SetupAsked
  <2>5. QED BY <2>2, <2>3, <2>4 DEF PpcTiming
<1>7. CASE Ppc!Stop
  <2>1. pc = "stop" /\ pc' = "load" /\ due' = Off /\ UNCHANGED <<ticks, delay, until, spent>>
    BY <1>7 DEF Ppc!Stop, Ppc!StopStep
  <2>2. QED BY <2>1 DEF PpcTiming, SetupAsked
<1>8. CASE Ppc!Load
  <2>1. pc = "load" /\ pc' = "idle" /\ due' = until /\ ticks' = ticks
    BY <1>8 DEF Ppc!Load, Ppc!LastStep
  <2>2. SetupAsked(D) /\ delay * TmrTicks < Pow2[Bits - 1] /\ dev.off
    BY <2>1 DEF PpcTiming, PpcState
  <2> DEFINE c == delay * TmrTicks
             l == delay * D
             v == until * TmrTicks
             u == until * D
             w == (until + 1) * D
             h == ticks \div 2
  <2>3. dev'.count = c
    BY <1>8, <2>2, PpcLoads
  <2>4. u <= ticks + l /\ ticks + l < w + spent /\ spent <= Slack
    <3> HIDE DEF D
    <3>1. QED BY <1>1, <1>2, <2>2, DelayEnds DEF SetupAsked
  <2>5. l = 2 * c /\ u = 2 * v /\ c \in Nat /\ v \in Nat /\ w \in Nat
    BY <1>1, <1>2
  <2>6. h \in Nat /\ 2 * h <= ticks /\ ticks <= 2 * h + 1
    BY <1>2, HalfTicks
  <2> HIDE DEF D, c, l, v, u, w, h
  <2>7. u <= 2 * (h + c)
    BY <1>2, <2>4, <2>5, <2>6
  <2>8. 2 * (h + c) < w + Slack
    BY <1>1, <1>2, <2>4, <2>5, <2>6
  <2>9. QED BY <2>1, <2>3, <2>7, <2>8 DEF PpcTiming, D, h, u, w
<1>9. CASE Ppc!IntAck
  <2>1. pc' = "handler" /\ due' = Off
    BY <1>9 DEF Ppc!IntAck
  <2>2. QED BY <2>1 DEF PpcTiming
<1>10. CASE Ppc!Interrupt(~dev.masked)
  <2>1. pc' = "ack" /\ UNCHANGED <<ticks, due, dev>>
    BY <1>10 DEF Ppc!Interrupt
  <2>2. QED BY <2>1 DEF PpcTiming
<1>11. CASE UNCHANGED vars
  BY <1>11 DEF vars, initVars, PpcTiming, SetupAsked
<1>12. QED
  BY <1>3, <1>4, <1>5, <1>6, <1>7, <1>8, <1>9, <1>10, <1>11 DEF Ppc!Next

\* Hence it is a step of OneShot, or none.
LEMMA PpcContract ==
  ASSUME PpcTyped, PpcState, PpcTiming, [Ppc!Next]_vars
  PROVE  [PpcShot!Next]_<<PpcShot!vars>>
<1> USE DEF PortTyped, PpcSetup, PpcRegisters, Ppc!initVars, Ppc!Off, Off, PpcShot!Off
<1> DEFINE D == 2 * TmrTicks
           now_ == ticks \div D
           h == ticks \div 2
<1>1. D \in Nat /\ D > 0 /\ Slack \in Nat
  BY PartsAssumption, PortAssumption
<1>2. Ppc!timer_get_stamp = now_ /\ Ppc!timer_get_stamp' = now_' /\ Ppc!DecTicks = D
  BY DEF Ppc!timer_get_stamp, Ppc!timer_timebase_to_usec, Ppc!DecTicks
<1>3. /\ ticks \in Nat /\ until \in Nat /\ due \in Nat \cup {Off} /\ dev.count \in Nat
      /\ request \in BOOLEAN
  BY DEF PpcTyped
<1>4. h \in Nat /\ 2 * h <= ticks /\ ticks <= 2 * h + 1
  BY <1>3, HalfTicks
<1>5. ASSUME due # Off
      PROVE  /\ due \in Nat /\ due * D <= 2 * (h + dev.count)
             /\ 2 * (h + dev.count) < (due + 1) * D + Slack
             /\ ~dev.off
  BY <1>3, <1>5 DEF PpcTiming, PpcState
<1> HIDE DEF D, h
<1>6. CASE Ppc!Expire
  <2>1. /\ ~dev.off /\ dev.count = 0 /\ request' = TRUE /\ due' = Off /\ ticks' = ticks
    BY <1>6 DEF Ppc!Expire, Ppc!Expired
  <2>2. CASE due # Off
    <3>1. due \in Nat /\ due * D <= ticks
      <4>1. due * D \in Nat
        BY <1>1, <1>5, <2>2
      <4>2. QED BY <1>3, <1>4, <1>5, <2>1, <2>2, <4>1
    <3>2. due <= now_
      BY <1>1, <1>3, <3>1, StampReached
    <3> HIDE DEF now_
    <3>3. PpcShot!Expire
      BY <1>2, <2>1, <2>2, <3>2 DEF PpcShot!Expire, now_
    <3>4. QED BY <3>3 DEF PpcShot!Next
  <2>3. CASE due = Off
    <3>1. request = TRUE
      BY <1>3, <2>1, <2>3 DEF PpcState
    <3>2. UNCHANGED PpcShot!vars
      BY <1>2, <2>1, <2>3, <3>1 DEF PpcShot!vars
    <3>3. QED BY <3>2
  <2>4. QED BY <2>2, <2>3
<1>7. CASE ~Ppc!Expired /\ Ppc!Tick
  <2>1. ticks' = ticks + 1 /\ UNCHANGED <<due, request>>
    BY <1>7 DEF Ppc!Tick, Ppc!Pass
  <2>2. CASE now_' = now_
    <3>1. UNCHANGED PpcShot!vars
      BY <1>2, <2>1, <2>2 DEF PpcShot!vars
    <3>2. QED BY <3>1
  <2>3. CASE now_' # now_
    <3>0. D' = D
      BY DEF D
    <3>1. now_' = now_ + 1
      BY <1>1, <1>3, <2>1, <2>3, <3>0, StampOf
    <3>2. ASSUME due # Off PROVE now_ < due + RoundedUp(Slack, D)
      <4>1. due \in Nat /\ dev.count > 0
        BY <1>3, <1>5, <1>7, <3>2 DEF Ppc!Expired
      <4> DEFINE E == 2 * (h + dev.count)
      <4>2. E \in Nat /\ ticks < E /\ E < (due + 1) * D + Slack
        BY <1>3, <1>4, <1>5, <3>2, <4>1
      <4>3. (ticks + 1) \div D # ticks \div D
        BY <1>3, <2>1, <2>3, <3>0
      <4> HIDE DEF E
      <4>4. QED BY <1>1, <1>3, <4>1, <4>2, <4>3, InTime
    <3> HIDE DEF now_
    <3>3. PpcShot!Tick
      BY <1>2, <2>1, <3>1, <3>2 DEF PpcShot!Tick
    <3>4. QED BY <3>3 DEF PpcShot!Next
  <2>4. QED BY <2>2, <2>3
<1>8. CASE \/ Ppc!CallInit("level") \/ Ppc!SetIntLevel \/ Ppc!CreateMutex \/ Ppc!Installed
           \/ Ppc!InstallFails \/ Ppc!EnableInt
           \/ Ppc!CallSetup(Ppc!timer_get_stamp, Ppc!timer_get_max_delay, "stop")
           \/ Ppc!Interrupt(~dev.masked) \/ UNCHANGED vars
  <2>1. UNCHANGED <<ticks, due, request>>
    BY <1>8 DEF Ppc!CallInit, Ppc!SetIntLevel, Ppc!CreateMutex, Ppc!Installed, Ppc!InstallFails,
       Ppc!EnableInt, Ppc!InitStep, Ppc!CallSetup, Ppc!Interrupt, vars
  <2>2. UNCHANGED PpcShot!vars
    BY <1>2, <2>1 DEF PpcShot!vars
  <2>3. QED BY <2>2
<1>9. CASE Ppc!Stop
  <2>1. PpcShot!Stop
    BY <1>2, <1>9 DEF Ppc!Stop, Ppc!StopStep, PpcShot!Stop
  <2>2. QED BY <2>1 DEF PpcShot!Next
<1>10. CASE Ppc!Load
  <2>1. PpcShot!Setup
    BY <1>2, <1>3, <1>10 DEF Ppc!Load, Ppc!LastStep, PpcShot!Setup
  <2>2. QED BY <2>1 DEF PpcShot!Next
<1>11. CASE Ppc!IntAck
  <2>1. PpcShot!Ack
    BY <1>2, <1>11 DEF Ppc!IntAck, PpcShot!Ack
  <2>2. QED BY <2>1 DEF PpcShot!Next
<1>12. QED BY <1>6, <1>7, <1>8, <1>9, <1>10, <1>11 DEF Ppc!Next
-----------------------------------------------------------------------------
(* TimerMcc. *)

MccLap == Pow2[MccBits]
MccLate == Slack + MccAdds
MccSetup == {"read", "compare", "control"}
MccRegisters ==
  [cmp : Nat, value : Nat, age : Nat, equal : BOOLEAN, CEN : BOOLEAN, IEN : BOOLEAN]

MccTyped ==
  /\ PortTyped
  /\ dev \in MccRegisters
  /\ init_state \in {"none", "failed", "ok"}
  /\ pc \in {"idle", "level", "mutex", "install", "enable", "init", "ack", "handler"}
            \cup MccSetup

MccState ==
  /\ Initialising({"level", "mutex", "install", "enable", "init"}, MccSetup, dev.IEN)
  /\ dev.CEN <=> init_state = "ok"
  /\ dev.equal => dev.CEN
  /\ pc = "control" => due = Off

\* timer_setup has been called with a delay that is shorter than a lap.
MccAsked ==
  /\ MIN_WAIT <= delay /\ delay < MccLap /\ delay <= until
  /\ until - delay <= ticks /\ ticks <= (until - delay) + spent /\ spent <= Slack

\* t is a moment for which timer_setup, which has read the counter, may set the
\* compare register.
MccChosen(t) ==
  /\ until <= t /\ t <= until + MccLate
  /\ ticks + int_inhibit <= t + dev.age /\ dev.age <= SetupTicks
  /\ t <= ticks + MccLap

\* t is the moment at which counter and compare register are equal next.
MccMeets(t) ==
  /\ t % MccLap = dev.cmp
  /\ t <= ticks + MccLap
  /\ IF dev.equal THEN t = ticks ELSE ticks < t

\* What that moment means.  An old compare value has been met a short time ago, if
\* there is no due date.
MccMeaning(t) ==
  /\ due # Off => due <= t /\ t <= due + MccLate
  /\ pc = "control" => MccChosen(t)
  /\ due = Off /\ pc \in {"read", "compare"} => ticks + MccLap <= t + spent + Response
  /\ due = Off /\ pc \notin MccSetup => ticks + MccLap <= t + spent

MccTiming ==
  /\ IF pc \in MccSetup THEN MccAsked ELSE spent <= Response
  /\ pc = "compare" => \E t \in Nat : dev.value = t % MccLap /\ MccChosen(t)
  /\ dev.CEN \/ pc = "control" => \E t \in Nat : MccMeets(t) /\ MccMeaning(t)

\* TimerMcc and this module mean the same powers of two.
LEMMA MccPow2 == Mcc!Pow2 = Pow2
BY DEF Mcc!Pow2, Pow2

\* While timer_setup locks interrupts the counter passes fewer ticks than int_inhibit,
\* and from one interrupt to the next compare value less than a lap.
LEMMA MccConstants ==
  /\ MccLap \in Nat /\ MccLap > 0 /\ int_inhibit \in Nat /\ Slack \in Nat
  /\ SetupTicks \in Nat /\ SetupTicks < int_inhibit /\ int_inhibit <= MccLap
  /\ Response \in Nat /\ Response + Slack < MccLap
  /\ MIN_WAIT \in Nat /\ MAX_WAIT \in Nat /\ MIN_WAIT < MccLap
  /\ MccAdds \in Nat /\ MccLate \in Nat /\ int_inhibit - MIN_WAIT <= MccAdds
<1>1. /\ MccBits \in Nat /\ int_inhibit \in Nat /\ Slack \in Nat
      /\ SetupTicks \in Nat /\ SetupTicks < int_inhibit /\ int_inhibit <= Pow2[MccBits]
      /\ Response \in Nat /\ Response + Slack < Pow2[MccBits]
      /\ MIN_WAIT \in Nat /\ MAX_WAIT \in Nat /\ MIN_WAIT < Pow2[MccBits]
  BY PartsAssumption, PortAssumption
<1>2. MccLap \in Nat /\ MccLap > 0
  BY <1>1, Pow2Properties DEF MccLap
<1>3. MccAdds \in Nat /\ int_inhibit - MIN_WAIT <= MccAdds
  BY <1>1 DEF MccAdds
<1>4. QED BY <1>1, <1>2, <1>3 DEF MccLap, MccLate

\* The counter has no value twice in a lap.
LEMMA LapOnce ==
  ASSUME NEW n \in Nat, n > 0, NEW s \in Nat, NEW t \in Nat
  PROVE  /\ t % n \in Nat
         /\ (t + n) % n = t % n
         /\ s < t /\ t < s + n => s % n # t % n
<1>1. t % n \in Nat /\ (t + n) % n = t % n
  <2>1. t + 1 * n = t + n
    OBVIOUS
  <2>2. (t + 1 * n) % n = t % n /\ t % n \in Nat
    BY LapsVanish
  <2>3. QED BY <2>1, <2>2
<1>2. ASSUME s < t, t < s + n PROVE s % n # t % n
  <2> DEFINE a == s \div n
             b == t \div n
             r == s % n
             u == t % n
  <2>1. a \in Nat /\ b \in Nat /\ r \in Nat /\ u \in Nat /\ s = a * n + r /\ t = b * n + u
    OBVIOUS
  <2> HIDE DEF a, b, r, u
  <2>2. SUFFICES ASSUME r = u PROVE FALSE
    BY DEF r, u
  <2>3. a * n < b * n /\ b * n < a * n + n
    <3>1. a * n \in Nat /\ b * n \in Nat
      BY <2>1
    <3>2. QED BY <1>2, <2>1, <2>2, <3>1
  <2>4. a * n + n = (a + 1) * n
    BY <2>1
  <2>5. \A k, l \in Nat : k * n < l * n => k < l
    OBVIOUS
  <2>6. a < b /\ b < a + 1
    BY <2>1, <2>3, <2>4, <2>5
  <2>7. QED BY <2>1, <2>6
<1>3. QED BY <1>1, <1>2

\* The port's invariant holds when the library has been loaded.
LEMMA MccInit == Mcc!Init => MccTyped /\ MccState /\ MccTiming
<1> SUFFICES ASSUME Mcc!Init PROVE MccTyped /\ MccState /\ MccTiming
  OBVIOUS
<1>1. /\ request = FALSE /\ pc = "idle" /\ due = Off /\ init_state = "none" /\ handler = FALSE
      /\ dev = [cmp |-> 0, value |-> 0, age |-> 0, equal |-> FALSE, CEN |-> FALSE, IEN |-> FALSE]
  BY DEF Mcc!Init, Mcc!PortInit, Mcc!Off, Off
<1>2. MccTyped
  <2>1. PortTyped
    BY PortInitTyped DEF Mcc!Init, Mcc!PortInit, PortInit, Mcc!Off, Off
  <2>2. dev \in MccRegisters
    BY <1>1 DEF MccRegisters
  <2>3. QED BY <1>1, <2>1, <2>2 DEF MccTyped
<1>3. MccState /\ MccTiming
  <2>1. dev.CEN = FALSE /\ dev.equal = FALSE
    BY <1>1
  <2>2. spent <= Response
    BY MccConstants DEF Mcc!Init, Mcc!PortInit
  <2>3. QED BY <1>1, <2>1, <2>2 DEF MccState, MccTiming, MccSetup, Initialising
<1>4. QED BY <1>2, <1>3

\* timer_get_max_delay keeps a delay below one lap of the counter.
LEMMA MccDelay ==
  ASSUME NEW a \in Int
  PROVE  LET n == Mcc!Limited(a, Mcc!timer_get_max_delay)
         IN  n \in Nat /\ MIN_WAIT <= n /\ n < MccLap
<1>1. MccLap - 1 \in Nat /\ MIN_WAIT <= MccLap - 1
  BY MccConstants
<1>2. Mcc!Limited(a, Mcc!timer_get_max_delay) = Limited(a, MccLap - 1)
  BY MccPow2 DEF Mcc!timer_get_max_delay, MccLap, Mcc!Limited, Limited, Mcc!Least, Least
<1> DEFINE n == Limited(a, MccLap - 1)
<1>3. n \in Nat /\ MIN_WAIT <= n /\ n <= MccLap - 1
  BY <1>1, LimitedDelay
<1> HIDE DEF n
<1>4. n < MccLap
  BY <1>3, MccConstants
<1>5. QED BY <1>2, <1>3, <1>4 DEF n

\* What ReadCnt makes of the counter: the moment that is at least int_inhibit ticks
\* ahead.
LEMMA MccReadCnt ==
  ASSUME MccTyped, MccTiming, Mcc!ReadCnt
  PROVE  \E t \in Nat : /\ dev' = [dev EXCEPT !.value = t % MccLap, !.age = 0]
                        /\ until <= t /\ t <= until + MccLate
                        /\ ticks + int_inhibit <= t /\ t <= ticks + MccLap
<1> DEFINE k == IF delay > int_inhibit THEN delay ELSE int_inhibit
           t == ticks + k
<1>1. /\ ticks \in Nat /\ delay \in Nat /\ until \in Nat /\ spent \in Nat
  BY DEF MccTyped, PortTyped
<1>2. MccAsked
  BY DEF MccTiming, MccSetup, Mcc!ReadCnt, Mcc!Step
<1>3. k \in Nat /\ delay <= k /\ int_inhibit <= k /\ k <= MccLap /\ k - delay <= MccAdds
  BY <1>1, <1>2, MccConstants DEF MccAsked
<1>4. dev' = [dev EXCEPT !.value = t % MccLap, !.age = 0]
  <2>1. Mcc!CNT + k = (ticks % MccLap) + k
    BY MccPow2 DEF Mcc!CNT, MccLap
  <2>2. Mcc!CompareValue = ((ticks % MccLap) + k) % MccLap
    BY <2>1, MccPow2 DEF Mcc!CompareValue, MccLap
  <2> HIDE DEF k
  <2>3. ((ticks % MccLap) + k) % MccLap = t % MccLap
    <3> DEFINE r == ticks % MccLap
               q == ticks \div MccLap
    <3>1. r \in Nat /\ q \in Nat /\ ticks = r + q * MccLap
      BY <1>1, MccConstants
    <3> HIDE DEF r, q
    <3>2. r + k \in Nat /\ t = (r + k) + q * MccLap
      <4>1. q * MccLap \in Nat
        BY <3>1, MccConstants
      <4>2. QED BY <1>3, <3>1, <4>1
    <3>3. ((r + k) + q * MccLap) % MccLap = (r + k) % MccLap
      <4>1. r + k \in Nat /\ q \in Nat /\ MccLap \in Nat /\ MccLap > 0
        BY <3>1, <3>2, MccConstants
      <4>2. QED BY <4>1, LapsVanish
    <3>4. QED BY <3>2, <3>3 DEF r
  <2>4. QED BY <2>2, <2>3 DEF Mcc!ReadCnt
<1> HIDE DEF k
<1>5. t \in Nat /\ until <= t
  BY <1>1, <1>2, <1>3 DEF MccAsked
<1>6. t <= until + MccLate
  BY <1>1, <1>2, <1>3, MccConstants DEF MccAsked, MccLate
<1>7. ticks + int_inhibit <= t /\ t <= ticks + MccLap
  BY <1>1, <1>3, MccConstants
<1>8. QED BY <1>4, <1>5, <1>6, <1>7

\* Every step of the port keeps its registers typed.
LEMMA MccTypedNext ==
  ASSUME MccTyped, MccState, MccTiming, [Mcc!Next]_vars
  PROVE  MccTyped'
<1> USE DEF MccTyped, PortTyped, MccSetup, Mcc!initVars, Mcc!Off, Off
<1>1. Slack \in Nat /\ MIN_WAIT \in Nat /\ MAX_WAIT \in Nat
  BY PortAssumption
<1>2. CASE Mcc!Expire
  <2>1. dev' \in MccRegisters
    BY <1>2 DEF Mcc!Expire, MccRegisters
  <2>2. QED BY <1>2, <2>1 DEF Mcc!Expire
<1>3. CASE ~dev.equal /\ Mcc!Tick
  <2>1. dev' \in MccRegisters
    <3>1. dev' = [dev EXCEPT !.equal = dev'.equal, !.age = dev'.age]
          /\ dev'.equal \in BOOLEAN /\ dev'.age \in Nat
      BY <1>3 DEF Mcc!Tick, MccRegisters
    <3>2. QED BY <3>1 DEF MccRegisters
  <2>2. QED BY <1>1, <1>3, <2>1 DEF Mcc!Tick, Mcc!Pass
<1>4. CASE Mcc!CallInit("level")
  BY <1>1, <1>4 DEF Mcc!CallInit
<1>5. CASE Mcc!SetIntLevel \/ Mcc!CreateMutex \/ Mcc!Installed \/ Mcc!InstallFails
  <2>1. CASE Mcc!SetIntLevel
    BY <2>1 DEF Mcc!SetIntLevel, Mcc!InitStep
  <2>2. CASE Mcc!CreateMutex \/ Mcc!InstallFails
    BY <2>2 DEF Mcc!CreateMutex, Mcc!InstallFails, Mcc!InitStep
  <2>3. CASE Mcc!Installed
    BY <2>3 DEF Mcc!Installed, Mcc!InitStep
  <2>4. QED BY <1>5, <2>1, <2>2, <2>3
<1>6. CASE Mcc!EnableInt
  <2>1. dev' \in MccRegisters
    BY <1>6 DEF Mcc!EnableInt, MccRegisters
  <2>2. QED BY <1>6, <2>1 DEF Mcc!EnableInt, Mcc!InitStep
<1>7. CASE Mcc!CallSetup(ticks, Mcc!timer_get_max_delay, "read")
  <2>1. PICK a \in Int : delay' = Mcc!Limited(a, Mcc!timer_get_max_delay)
    BY <1>1, <1>7 DEF Mcc!CallSetup, Mcc!Asked
  <2>2. delay' \in Nat
    BY <2>1, MccDelay
  <2>3. QED BY <1>1, <1>7, <2>2 DEF Mcc!CallSetup
<1>8. CASE Mcc!ReadCnt
  <2>1. PICK t \in Nat : dev' = [dev EXCEPT !.value = t % MccLap, !.age = 0]
    BY <1>8, MccReadCnt
  <2>2. t % MccLap \in Nat
    BY MccConstants, LapOnce
  <2>3. dev' \in MccRegisters
    BY <2>1, <2>2 DEF MccRegisters
  <2>4. QED BY <1>8, <2>3 DEF Mcc!ReadCnt, Mcc!Step
<1>9. CASE Mcc!WriteCmp
  <2>1. dev' \in MccRegisters
    BY <1>9 DEF Mcc!WriteCmp, MccRegisters
  <2>2. QED BY <1>9, <2>1 DEF Mcc!WriteCmp, Mcc!StopStep
<1>10. CASE Mcc!WriteCtrl
  <2>1. dev' \in MccRegisters
    BY <1>10 DEF Mcc!WriteCtrl, MccRegisters
  <2>2. QED BY <1>10, <2>1 DEF Mcc!WriteCtrl, Mcc!LastStep
<1>11. CASE Mcc!Interrupt(dev.IEN) \/ Mcc!IntAck \/ UNCHANGED vars
  BY <1>11 DEF Mcc!Interrupt, Mcc!IntAck, vars, initVars
<1>12. QED
  BY <1>2, <1>3, <1>4, <1>5, <1>6, <1>7, <1>8, <1>9, <1>10, <1>11 DEF Mcc!Next

\* An old compare value is not met again before the next one is written.
LEMMA MccEqual ==
  ASSUME MccTyped, MccState, MccTiming, dev.equal
  PROVE  due # Off /\ pc # "control"
<1>1. /\ ticks \in Nat /\ spent \in Nat /\ dev.age \in Nat
  BY DEF MccTyped, PortTyped, MccRegisters
<1>2. PICK t \in Nat : t = ticks /\ MccMeaning(t)
  BY DEF MccState, MccTiming, MccMeets
<1>3. pc # "control"
  <2>1. SUFFICES ASSUME pc = "control" PROVE FALSE
    OBVIOUS
  <2>2. ticks + int_inhibit <= ticks + dev.age /\ dev.age <= SetupTicks
    BY <1>2, <2>1 DEF MccMeaning, MccChosen
  <2>3. QED BY <1>1, <2>2, MccConstants
<1>4. due # Off
  <2>1. SUFFICES ASSUME due = Off PROVE FALSE
    OBVIOUS
  <2>2. \/ ticks + MccLap <= ticks + spent + Response /\ spent <= Slack
        \/ ticks + MccLap <= ticks + spent /\ spent <= Response
    BY <1>2, <1>3, <2>1 DEF MccMeaning, MccSetup, MccTiming, MccAsked
  <2>3. QED BY <1>1, <2>2, MccConstants
<1>5. QED BY <1>3, <1>4

\* Every step keeps device and driver in step, ...
LEMMA MccStateNext ==
  ASSUME MccTyped, MccState, MccTiming, [Mcc!Next]_vars
  PROVE  MccState'
<1> USE DEF PortTyped, MccState, Initialising, MccSetup, Mcc!initVars, Mcc!Off, Off
<1>1. dev \in MccRegisters /\ until # Off /\ request \in BOOLEAN
  BY DEF MccTyped
<1>2. CASE Mcc!Expire
  <2>1. /\ dev'.equal = FALSE /\ dev'.CEN = dev.CEN /\ dev'.IEN = dev.IEN
        /\ request' = TRUE /\ due' = Off /\ dev.equal
        /\ UNCHANGED <<pc, init_state, handler>>
    BY <1>1, <1>2 DEF Mcc!Expire, MccRegisters
  <2>2. QED BY <2>1
<1>3. CASE ~dev.equal /\ Mcc!Tick
  <2>1. /\ dev'.CEN = dev.CEN /\ dev'.IEN = dev.IEN /\ dev.CEN
        /\ UNCHANGED <<pc, init_state, handler, request, due>>
    BY <1>1, <1>3 DEF Mcc!Tick, Mcc!Pass, MccRegisters
  <2>2. QED BY <2>1
<1>4. CASE Mcc!CallInit("level")
  BY <1>4 DEF Mcc!CallInit
<1>5. CASE Mcc!SetIntLevel
  BY <1>5 DEF Mcc!SetIntLevel, Mcc!InitStep
<1>6. CASE Mcc!CreateMutex \/ Mcc!InstallFails
  BY <1>6 DEF Mcc!CreateMutex, Mcc!InstallFails, Mcc!InitStep
<1>7. CASE Mcc!Installed
  BY <1>7 DEF Mcc!Installed, Mcc!InitStep
<1>8. CASE Mcc!EnableInt
  <2>1. /\ dev'.equal = dev.equal /\ dev'.CEN = dev.CEN /\ dev'.IEN
        /\ pc = "enable" /\ pc' = "init" /\ UNCHANGED <<init_state, handler, request, due>>
    BY <1>1, <1>8 DEF Mcc!EnableInt, Mcc!InitStep, MccRegisters
  <2>2. QED BY <2>1
<1>9. CASE Mcc!CallSetup(ticks, Mcc!timer_get_max_delay, "read")
  <2>1. /\ pc \in {"init", "handler"} \/ (pc = "idle" /\ init_state = "ok")
        /\ pc' = "read" /\ UNCHANGED <<init_state, handler, request, due, dev>>
    BY <1>9 DEF Mcc!CallSetup
  <2>2. QED BY <2>1
<1>10. CASE Mcc!ReadCnt
  <2>1. /\ dev'.equal = dev.equal /\ dev'.CEN = dev.CEN /\ dev'.IEN = dev.IEN
        /\ pc = "read" /\ pc' = "compare" /\ UNCHANGED <<init_state, handler, request, due>>
    BY <1>1, <1>10 DEF Mcc!ReadCnt, Mcc!Step, MccRegisters
  <2>2. QED BY <2>1
<1>11. CASE Mcc!WriteCmp
  <2>1. /\ dev'.equal = dev.equal /\ dev'.CEN = dev.CEN /\ dev'.IEN = dev.IEN
        /\ pc = "compare" /\ pc' = "control" /\ due' = Off
        /\ UNCHANGED <<init_state, handler, request>>
    BY <1>1, <1>11 DEF Mcc!WriteCmp, Mcc!StopStep, MccRegisters
  <2>2. QED BY <2>1
<1>12. CASE Mcc!WriteCtrl
  <2>1. /\ dev'.equal = dev.equal /\ dev'.CEN /\ dev'.IEN = dev.IEN
        /\ pc = "control" /\ pc' = "idle" /\ due' = until /\ init_state' = "ok"
        /\ UNCHANGED <<handler, request>>
    BY <1>1, <1>12 DEF Mcc!WriteCtrl, Mcc!LastStep, MccRegisters
  <2>2. QED BY <1>1, <2>1
<1>13. CASE Mcc!Interrupt(dev.IEN)
  BY <1>13 DEF Mcc!Interrupt
<1>14. CASE Mcc!IntAck
  <2>1. /\ pc = "ack" /\ pc' = "handler" /\ request' = FALSE
        /\ UNCHANGED <<init_state, handler, due, dev>>
    BY <1>14 DEF Mcc!IntAck
  <2>2. QED BY <2>1
<1>15. CASE UNCHANGED vars
  BY <1>15 DEF vars, initVars
<1>16. QED
  BY <1>2, <1>3, <1>4, <1>5, <1>6, <1>7, <1>8, <1>9, <1>10, <1>11, <1>12, <1>13, <1>14, <1>15
  DEF Mcc!Next

\* The counter goes on; a moment ahead comes nearer.
LEMMA MccTick ==
  ASSUME MccTyped, MccState, MccTiming, ~dev.equal, Mcc!Tick
  PROVE  MccTiming'
<1> USE DEF PortTyped, MccSetup, Mcc!initVars, Mcc!Off, Off
<1>1. /\ ticks \in Nat /\ delay \in Nat /\ until \in Nat /\ due \in Nat \cup {Off}
      /\ spent \in Nat /\ dev \in MccRegisters
  BY DEF MccTyped
<1>2. /\ ticks' = ticks + 1 /\ UNCHANGED <<pc, delay, until, due, init_state, handler, request>>
      /\ pc # "idle" \/ request =>
           spent' = spent + 1 /\ spent < (IF pc \in MccSetup THEN Slack ELSE Response)
      /\ pc = "idle" /\ ~request => spent' = 0
      /\ pc \in {"compare", "control"} => dev.age < SetupTicks
      /\ dev.CEN
      /\ dev' = [dev EXCEPT !.equal = (ticks' % Pow2[MccBits] = dev.cmp),
                            !.age = IF pc \in {"compare", "control"} THEN dev.age + 1 ELSE 0]
  BY MccPow2 DEF Mcc!Tick, Mcc!Pass, Mcc!Pressed, Mcc!SettingUp, Mcc!Locked, MccTyped
<1>3. /\ dev'.cmp = dev.cmp /\ dev'.value = dev.value /\ dev'.CEN = dev.CEN
      /\ dev'.equal = ((ticks + 1) % MccLap = dev.cmp)
      /\ pc \in {"compare", "control"} => dev'.age = dev.age + 1
  BY <1>1, <1>2 DEF MccRegisters, MccLap
<1>4. due = Off => pc # "idle" \/ request
  BY <1>2 DEF MccState, Initialising
<1>5. MccLap' = MccLap /\ MccLate' = MccLate
  BY DEF MccLap, MccLate, MccAdds
<1>6. ASSUME NEW t \in Nat, MccChosen(t), pc \in {"compare", "control"} PROVE MccChosen(t)'
  <2>1. dev'.age = dev.age + 1 /\ dev.age < SetupTicks /\ dev.age \in Nat
    BY <1>1, <1>2, <1>3, <1>6 DEF MccRegisters
  <2>2. QED BY <1>1, <1>2, <1>5, <1>6, <2>1, MccConstants DEF MccChosen
<1>7. IF pc' \in MccSetup THEN MccAsked' ELSE spent' <= Response
  <2>1. CASE pc \in MccSetup
    BY <1>1, <1>2, <1>5, <2>1, MccConstants DEF MccTiming, MccAsked
  <2>2. CASE pc \notin MccSetup
    BY <1>1, <1>2, <2>2, MccConstants DEF MccTiming
  <2>3. QED BY <2>1, <2>2
<1>8. PICK t \in Nat : MccMeets(t) /\ MccMeaning(t)
  BY <1>2 DEF MccTiming
<1>9. t % MccLap = dev.cmp /\ t <= ticks + MccLap /\ ticks < t
  BY <1>8 DEF MccMeets
<1>10. MccMeets(t)'
  <2>1. t <= (ticks + 1) + MccLap
    BY <1>1, <1>9, MccConstants
  <2>2. CASE t = ticks + 1
    <3>1. dev'.equal = TRUE
      BY <1>3, <1>9, <2>2
    <3>2. QED BY <1>2, <1>3, <1>5, <1>9, <2>1, <2>2, <3>1 DEF MccMeets
  <2>3. CASE t # ticks + 1
    <3>1. ticks + 1 < t /\ t < (ticks + 1) + MccLap /\ ticks + 1 \in Nat
      BY <1>1, <1>9, <2>3, MccConstants
    <3>2. (ticks + 1) % MccLap # t % MccLap
      BY <3>1, MccConstants, LapOnce
    <3>3. dev'.equal = FALSE
      BY <1>3, <1>9, <3>2
    <3>4. QED BY <1>2, <1>3, <1>5, <1>9, <2>1, <3>1, <3>3 DEF MccMeets
  <2>4. QED BY <2>2, <2>3
<1>11. MccMeaning(t)'
  <2>1. due' # Off => due' <= t /\ t <= due' + MccLate'
    BY <1>2, <1>5, <1>8 DEF MccMeaning
  <2>2. pc' = "control" => MccChosen(t)'
    BY <1>2, <1>6, <1>8 DEF MccMeaning
  <2>3. ASSUME due = Off, ticks + MccLap <= t + spent + Response
        PROVE  ticks' + MccLap <= t + spent' + Response
    BY <1>1, <1>2, <1>4, <2>3, MccConstants
  <2>4. ASSUME due = Off, ticks + MccLap <= t + spent
        PROVE  ticks' + MccLap <= t + spent'
    BY <1>1, <1>2, <1>4, <2>4, MccConstants
  <2>5. due' = Off /\ pc' \in {"read", "compare"} => ticks' + MccLap' <= t + spent' + Response
    BY <1>2, <1>5, <1>8, <2>3 DEF MccMeaning
  <2>6. due' = Off /\ pc' \notin MccSetup => ticks' + MccLap' <= t + spent'
    BY <1>2, <1>5, <1>8, <2>4 DEF MccMeaning
  <2>7. QED BY <2>1, <2>2, <2>5, <2>6 DEF MccMeaning
<1>12. pc' = "compare" => \E u \in Nat : dev'.value = u % MccLap' /\ MccChosen(u)'
  <2>1. SUFFICES ASSUME pc = "compare"
                 PROVE  \E u \in Nat : dev'.value = u % MccLap' /\ MccChosen(u)'
    BY <1>2
  <2>2. PICK u \in Nat : dev.value = u % MccLap /\ MccChosen(u)
    BY <2>1 DEF MccTiming
  <2>3. QED BY <1>3, <1>5, <1>6, <2>1, <2>2
<1>13. QED BY <1>2, <1>7, <1>10, <1>11, <1>12 DEF MccTiming

\* ... and keeps the due date.
\* The moment of the next meeting stays the same while the counter counts, moves by
\* one lap when it is met, and is chosen anew by timer_setup.
LEMMA MccTimingNext ==
  ASSUME MccTyped, MccState, MccTiming, [Mcc!Next]_vars
  PROVE  MccTiming'
<1> USE DEF PortTyped, MccSetup, Mcc!initVars, Mcc!Off, Off
<1>1. /\ ticks \in Nat /\ delay \in Nat /\ until \in Nat /\ due \in Nat \cup {Off}
      /\ spent \in Nat /\ dev \in MccRegisters
  BY DEF MccTyped
<1>2. MccLap' = MccLap /\ MccLate' = MccLate
  BY DEF MccLap, MccLate, MccAdds
<1>3. CASE Mcc!Expire
  <2>1. /\ due' = Off /\ UNCHANGED <<ticks, pc, delay, until, spent>>
        /\ dev.equal /\ dev' = [dev EXCEPT !.equal = FALSE]
    BY <1>3 DEF Mcc!Expire
  <2>2. /\ dev'.cmp = dev.cmp /\ dev'.value = dev.value /\ dev'.equal = FALSE
        /\ dev'.age = dev.age
    BY <1>1, <2>1 DEF MccRegisters
  <2>3. pc # "control"
    BY <2>1, MccEqual
  <2>4. PICK t \in Nat : t = ticks /\ t % MccLap = dev.cmp
    BY <2>1 DEF MccState, MccTiming, MccMeets
  <2> DEFINE u == ticks + MccLap
  <2>5. u \in Nat /\ u % MccLap = dev.cmp /\ ticks < u
    <3>1. (ticks + MccLap) % MccLap = ticks % MccLap
      BY <1>1, MccConstants, LapOnce
    <3>2. u \in Nat /\ ticks < u
      BY <1>1, MccConstants
    <3>3. QED BY <2>4, <3>1, <3>2
  <2>6. MccMeets(u)'
    BY <1>2, <2>1, <2>2, <2>5 DEF MccMeets
  <2>7. MccMeaning(u)'
    <3>1. u <= u + spent + Response /\ u <= u + spent
      BY <1>1, <2>5, MccConstants
    <3>2. QED BY <1>2, <2>1, <2>3, <3>1 DEF MccMeaning
  <2> HIDE DEF u
  <2>8. \E w \in Nat : MccMeets(w)' /\ MccMeaning(w)'
    <3>1. u' = u
      BY <1>2, <2>1 DEF u
    <3>2. QED BY <2>5, <2>6, <2>7, <3>1 DEF MccMeets, MccMeaning, MccChosen
  <2>9. IF pc' \in MccSetup THEN MccAsked' ELSE spent' <= Response
    BY <1>2, <2>1 DEF MccTiming, MccAsked
  <2>10. pc' = "compare" => \E w \in Nat : dev'.value = w % MccLap' /\ MccChosen(w)'
    BY <1>2, <2>1, <2>2 DEF MccTiming, MccChosen
  <2>11. QED BY <2>8, <2>9, <2>10 DEF MccTiming
<1>4. CASE ~dev.equal /\ Mcc!Tick
  BY <1>4, MccTick
<1>5. CASE \/ Mcc!CallInit("level") \/ Mcc!SetIntLevel \/ Mcc!CreateMutex \/ Mcc!Installed
           \/ Mcc!InstallFails \/ Mcc!EnableInt
  <2>1. /\ pc' \notin MccSetup /\ dev'.CEN = dev.CEN
        /\ (pc = "idle" /\ init_state = "none") \/ pc \in {"level", "mutex", "install", "enable"}
    <3>1. CASE Mcc!EnableInt
      BY <1>1, <3>1 DEF Mcc!EnableInt, Mcc!InitStep, MccRegisters
    <3>2. CASE Mcc!CallInit("level") \/ Mcc!SetIntLevel \/ Mcc!CreateMutex \/ Mcc!Installed
               \/ Mcc!InstallFails
      BY <3>2 DEF Mcc!CallInit, Mcc!SetIntLevel, Mcc!CreateMutex, Mcc!Installed,
         Mcc!InstallFails, Mcc!InitStep
    <3>3. QED BY <1>5, <3>1, <3>2
  <2>2. ~dev.CEN
    BY <2>1 DEF MccState, Initialising
  <2>4. spent' <= Response
    <3>1. spent' = 0 \/ (spent' = spent /\ spent <= Response)
      BY <1>5, <2>1 DEF MccTiming, Mcc!CallInit, Mcc!SetIntLevel, Mcc!CreateMutex,
         Mcc!Installed, Mcc!InstallFails, Mcc!EnableInt, Mcc!InitStep
    <3>2. QED BY <3>1, MccConstants
  <2>3. QED BY <2>1, <2>2, <2>4 DEF MccTiming
<1>6. CASE Mcc!CallSetup(ticks, Mcc!timer_get_max_delay, "read")
  <2>1. PICK a \in Int : delay' = Mcc!Limited(a, Mcc!timer_get_max_delay)
    BY <1>1, <1>6, MccConstants DEF Mcc!CallSetup, Mcc!Asked
  <2>2. delay' \in Nat /\ MIN_WAIT <= delay' /\ delay' < MccLap
    BY <2>1, MccDelay
  <2>3. /\ until' = ticks + delay' /\ pc' = "read" /\ spent' = 0
        /\ pc \in {"init", "handler"} \/ (pc = "idle" /\ init_state = "ok")
        /\ UNCHANGED <<ticks, due, dev>>
    BY <1>1, <1>6 DEF Mcc!CallSetup
  <2>4. MccAsked'
    <3>1. \A k, l \in Nat : l <= k + l /\ (k + l) - l <= k /\ k <= ((k + l) - l) + 0
      OBVIOUS
    <3>2. /\ delay' <= ticks + delay' /\ (ticks + delay') - delay' <= ticks
          /\ ticks <= ((ticks + delay') - delay') + 0 /\ 0 <= Slack
      <4>1. PICK l \in Nat : l = delay'
        BY <2>2
      <4>2. l <= ticks + l /\ (ticks + l) - l <= ticks /\ ticks <= ((ticks + l) - l) + 0
        BY <1>1, <3>1
      <4>3. QED BY <4>1, <4>2, MccConstants
    <3>3. QED BY <1>2, <2>2, <2>3, <3>2 DEF MccAsked
  <2>5. ASSUME dev.CEN PROVE \E t \in Nat : MccMeets(t)' /\ MccMeaning(t)'
    <3>1. PICK t \in Nat : MccMeets(t) /\ MccMeaning(t)
      BY <2>5 DEF MccTiming
    <3>2. MccMeets(t)'
      BY <1>2, <2>3, <3>1 DEF MccMeets
    <3>3. due' = Off => ticks + MccLap <= t + spent' + Response
      <4>1. SUFFICES ASSUME due = Off PROVE ticks + MccLap <= t + 0 + Response
        BY <2>3
      <4>2. ticks + MccLap <= t + spent /\ spent <= Response
        BY <2>3, <3>1, <4>1 DEF MccMeaning, MccTiming
      <4>3. QED BY <1>1, <4>2, MccConstants
    <3>4. MccMeaning(t)'
      BY <1>2, <2>3, <3>1, <3>3 DEF MccMeaning
    <3>5. QED BY <3>2, <3>4
  <2>6. QED BY <2>3, <2>4, <2>5 DEF MccTiming
<1>7. CASE Mcc!ReadCnt
  <2>1. pc = "read" /\ pc' = "compare" /\ UNCHANGED <<ticks, due, delay, until, spent>>
    BY <1>7 DEF Mcc!ReadCnt, Mcc!Step
  <2>2. PICK t \in Nat : /\ dev' = [dev EXCEPT !.value = t % MccLap, !.age = 0]
                         /\ until <= t /\ t <= until + MccLate
                         /\ ticks + int_inhibit <= t /\ t <= ticks + MccLap
    BY <1>7, MccReadCnt
  <2>3. /\ dev'.value = t % MccLap /\ dev'.cmp = dev.cmp /\ dev'.equal = dev.equal
        /\ dev'.CEN = dev.CEN /\ dev'.age = 0
    BY <1>1, <2>2 DEF MccRegisters
  <2>4. MccChosen(t)'
    BY <1>1, <1>2, <2>1, <2>2, <2>3, MccConstants DEF MccChosen
  <2>5. ASSUME dev.CEN PROVE \E w \in Nat : MccMeets(w)' /\ MccMeaning(w)'
    BY <1>2, <2>1, <2>3, <2>5 DEF MccTiming, MccMeets, MccMeaning
  <2>6. MccAsked'
    BY <1>2, <2>1 DEF MccTiming, MccAsked
  <2>7. QED BY <1>2, <2>1, <2>3, <2>4, <2>5, <2>6 DEF MccTiming
<1>8. CASE ~dev.equal /\ Mcc!WriteCmp
  <2>1. /\ pc = "compare" /\ pc' = "control" /\ due' = Off
        /\ UNCHANGED <<ticks, delay, until, spent>>
        /\ dev' = [dev EXCEPT !.cmp = dev.value]
    BY <1>8 DEF Mcc!WriteCmp, Mcc!StopStep
  <2>2. PICK t \in Nat : dev.value = t % MccLap /\ MccChosen(t)
    BY <2>1 DEF MccTiming
  <2>3. dev'.cmp = t % MccLap /\ dev'.equal = FALSE /\ dev'.age = dev.age /\ dev.age \in Nat
    BY <1>1, <1>8, <2>1, <2>2 DEF MccRegisters
  <2>4. MccChosen(t)'
    BY <1>2, <2>1, <2>2, <2>3 DEF MccChosen
  <2>5. ticks < t /\ t <= ticks + MccLap
    BY <1>1, <2>2, <2>3, MccConstants DEF MccChosen
  <2>6. MccMeets(t)' /\ MccMeaning(t)'
    BY <1>2, <2>1, <2>3, <2>4, <2>5 DEF MccMeets, MccMeaning
  <2>7. MccAsked'
    BY <1>2, <2>1 DEF MccTiming, MccAsked
  <2>8. QED BY <2>1, <2>6, <2>7 DEF MccTiming
<1>9. CASE Mcc!WriteCtrl
  <2>1. /\ pc = "control" /\ pc' = "idle" /\ due' = until
        /\ UNCHANGED <<ticks, delay, until>> /\ spent' = 0
        /\ dev' = [dev EXCEPT !.CEN = TRUE]
    BY <1>9 DEF Mcc!WriteCtrl, Mcc!LastStep
  <2>2. dev'.cmp = dev.cmp /\ dev'.equal = dev.equal
    BY <1>1, <2>1 DEF MccRegisters
  <2>3. PICK t \in Nat : MccMeets(t) /\ MccChosen(t)
    BY <2>1 DEF MccTiming, MccMeaning
  <2>4. MccMeets(t)'
    BY <1>2, <2>1, <2>2, <2>3 DEF MccMeets
  <2>5. MccMeaning(t)'
    <3>1. until # Off
      BY <1>1
    <3>2. QED BY <1>2, <2>1, <2>3, <3>1 DEF MccMeaning, MccChosen
  <2>6. QED BY <2>1, <2>4, <2>5, MccConstants DEF MccTiming
<1>10. CASE Mcc!Interrupt(dev.IEN) \/ Mcc!IntAck
  <2>1. pc \notin MccSetup /\ pc' \notin MccSetup /\ UNCHANGED <<ticks, due, spent, dev>>
    BY <1>10 DEF Mcc!Interrupt, Mcc!IntAck
  <2>2. QED BY <1>2, <2>1 DEF MccTiming, MccMeets, MccMeaning
<1>11. CASE UNCHANGED vars
  BY <1>2, <1>11 DEF vars, initVars, MccTiming, MccAsked, MccMeets, MccMeaning, MccChosen
<1>12. QED
  BY <1>3, <1>4, <1>5, <1>6, <1>7, <1>8, <1>9, <1>10, <1>11 DEF Mcc!Next

\* Hence it is a step of OneShot, or none.
LEMMA MccContract ==
  ASSUME MccTyped, MccState, MccTiming, [Mcc!Next]_vars
  PROVE  [MccShot!Next]_<<MccShot!vars>>
<1> USE DEF PortTyped, MccSetup, Mcc!initVars, Mcc!Off, Off, MccShot!Off
<1>1. /\ ticks \in Nat /\ until \in Nat /\ due \in Nat \cup {Off} /\ request \in BOOLEAN
  BY DEF MccTyped
<1>2. CASE Mcc!Expire
  <2>1. /\ dev.equal /\ request' = TRUE /\ due' = Off /\ ticks' = ticks
    BY <1>2 DEF Mcc!Expire
  <2>2. due # Off /\ due <= ticks
    BY <2>1, MccEqual DEF MccState, MccTiming, MccMeets, MccMeaning
  <2>3. MccShot!Expire
    BY <2>1, <2>2 DEF MccShot!Expire
  <2>4. QED BY <2>3 DEF MccShot!Next
<1>3. CASE ~dev.equal /\ Mcc!Tick
  <2>1. ticks' = ticks + 1 /\ UNCHANGED <<due, request>> /\ dev.CEN
    BY <1>3 DEF Mcc!Tick, Mcc!Pass
  <2>2. ASSUME due # Off PROVE ticks < due + (Slack + MccAdds)
    <3>1. PICK t \in Nat : ticks < t /\ t <= due + (Slack + MccAdds)
      BY <1>3, <2>1, <2>2 DEF MccTiming, MccMeets, MccMeaning, MccLate
    <3>2. due + (Slack + MccAdds) \in Nat
      BY <1>1, <2>2, MccConstants
    <3>3. QED BY <1>1, <3>1, <3>2
  <2>3. MccShot!Tick
    BY <2>1, <2>2 DEF MccShot!Tick
  <2>4. QED BY <2>3 DEF MccShot!Next
<1>4. CASE \/ Mcc!CallInit("level") \/ Mcc!SetIntLevel \/ Mcc!CreateMutex \/ Mcc!Installed
           \/ Mcc!InstallFails \/ Mcc!EnableInt
           \/ Mcc!CallSetup(ticks, Mcc!timer_get_max_delay, "read") \/ Mcc!ReadCnt
           \/ Mcc!Interrupt(dev.IEN) \/ UNCHANGED vars
  <2>1. UNCHANGED <<ticks, due, request>>
    BY <1>4 DEF Mcc!CallInit, Mcc!SetIntLevel, Mcc!CreateMutex, Mcc!Installed, Mcc!InstallFails,
       Mcc!EnableInt, Mcc!InitStep, Mcc!CallSetup, Mcc!ReadCnt, Mcc!Step, Mcc!Interrupt, vars
  <2>2. UNCHANGED MccShot!vars
    BY <2>1 DEF MccShot!vars
  <2>3. QED BY <2>2
<1>5. CASE Mcc!WriteCmp
  <2>1. MccShot!Stop
    BY <1>5 DEF Mcc!WriteCmp, Mcc!StopStep, MccShot!Stop
  <2>2. QED BY <2>1 DEF MccShot!Next
<1>6. CASE Mcc!WriteCtrl
  <2>1. MccShot!Setup
    BY <1>1, <1>6 DEF Mcc!WriteCtrl, Mcc!LastStep, MccShot!Setup
  <2>2. QED BY <2>1 DEF MccShot!Next
<1>7. CASE Mcc!IntAck
  <2>1. MccShot!Ack
    BY <1>7 DEF Mcc!IntAck, MccShot!Ack
  <2>2. QED BY <2>1 DEF MccShot!Next
<1>8. QED BY <1>2, <1>3, <1>4, <1>5, <1>6, <1>7 DEF Mcc!Next
-----------------------------------------------------------------------------
(* TimerMv64260. *)

MvSetup == {"disable", "mode", "value", "start"}

MvTyped ==
  /\ PortTyped
  /\ dev \in [enabled : BOOLEAN, periodic : BOOLEAN, count : Nat, value : Nat, masked : BOOLEAN]
  /\ init_state \in {"none", "failed", "ok"}
  /\ pc \in {"idle", "mutex", "install", "enable", "init", "ack", "handler"} \cup MvSetup

MvState ==
  /\ Initialising({"mutex", "install", "enable", "init"}, MvSetup, ~dev.masked)
  /\ dev.enabled <=> due # Off
  /\ dev.enabled => ~dev.periodic
  /\ pc \in MvSetup \ {"disable"} => ~dev.enabled
  /\ pc \in {"value", "start"} => ~dev.periodic

\* The counter reaches zero when the delay since the timestamp has passed, and at
\* most Slack ticks later.
MvTiming ==
  /\ pc \in MvSetup => SetupAsked(BusTicks) /\ delay * BusTicks < Pow2[Bits]
  /\ pc = "start" => dev.count = delay * BusTicks
  /\ due # Off =>
       /\ due * BusTicks <= ticks + dev.count
       /\ ticks + dev.count < (due + 1) * BusTicks + Slack

\* TimerMv64260 and this module mean the same powers of two.
LEMMA MvPow2 == Mv!Pow2 = Pow2
BY DEF Mv!Pow2, Pow2

\* timer_get_max_delay keeps the ticks of a delay within the count register.
LEMMA MvDelay ==
  ASSUME NEW a \in Int, a <= MAX_WAIT
  PROVE  LET n == Mv!Limited(a, Mv!timer_get_max_delay)
         IN  n \in Nat /\ MIN_WAIT <= n /\ n * BusTicks < Pow2[Bits] /\ n * BusTicks \in Nat
<1>1. Pow2[Bits] \in Nat /\ Pow2[Bits - 1] \in Nat /\ Pow2[Bits - 1] < Pow2[Bits]
  <2>1. Bits - 1 \in Nat /\ (Bits - 1) + 1 = Bits
    BY PartsAssumption
  <2>2. QED BY <2>1, Pow2Properties
<1>2. Mv!Limited(a, Mv!timer_get_max_delay) = Limited(a, (Pow2[Bits - 1] - 1) \div BusTicks)
  BY MvPow2 DEF Mv!timer_get_max_delay, Mv!timer_timerticks_to_usec, Mv!Limited, Limited,
     Mv!Least, Least
<1> DEFINE n == Limited(a, (Pow2[Bits - 1] - 1) \div BusTicks)
<1>3. BusTicks \in Nat /\ BusTicks > 0 /\ MIN_WAIT * BusTicks < Pow2[Bits - 1]
  BY PartsAssumption
<1>4. n \in Nat /\ MIN_WAIT <= n /\ n * BusTicks < Pow2[Bits - 1] /\ n * BusTicks \in Nat
  BY <1>3, FittingDelay
<1> HIDE DEF n
<1>5. n * BusTicks < Pow2[Bits]
  BY <1>1, <1>4
<1>6. QED BY <1>2, <1>4, <1>5 DEF n

\* The port's invariant holds when the library has been loaded.
LEMMA MvInit == Mv!Init => MvTyped /\ MvState /\ MvTiming
<1> SUFFICES ASSUME Mv!Init PROVE MvTyped /\ MvState /\ MvTiming
  OBVIOUS
<1>1. /\ ticks = 1 /\ request = FALSE /\ pc = "idle" /\ delay = 0 /\ until = 0 /\ due = Off
      /\ spent = 0 /\ init_state = "none" /\ handler = FALSE
  BY DEF Mv!Init, Mv!PortInit, Mv!Off, Off
<1>2. PICK p \in BOOLEAN :
        dev = [enabled |-> FALSE, periodic |-> p, count |-> 0, value |-> 0, masked |-> TRUE]
  BY DEF Mv!Init
<1>3. Slack \in Nat
  BY PortAssumption
<1>4. MvTyped
  <2>1. PortTyped
    BY PortInitTyped DEF Mv!Init, Mv!PortInit, PortInit, Mv!Off, Off
  <2>2. dev \in [enabled : BOOLEAN, periodic : BOOLEAN, count : Nat, value : Nat, masked : BOOLEAN]
    BY <1>2
  <2>3. QED BY <1>1, <2>1, <2>2 DEF MvTyped
<1>5. MvState /\ MvTiming
  BY <1>1, <1>2 DEF MvState, MvTiming, Initialising, MvSetup, Off
<1>6. QED BY <1>4, <1>5

\* Every step of the port keeps its registers typed, ...
LEMMA MvTypedNext ==
  ASSUME MvTyped, MvState, [Mv!Next]_vars
  PROVE  MvTyped'
<1> USE DEF MvTyped, PortTyped, MvSetup, Mv!initVars, Mv!Off, Off
<1>1. Slack \in Nat /\ MIN_WAIT \in Nat /\ MAX_WAIT \in Nat
  BY PortAssumption
<1>2. CASE Mv!Expire
  BY <1>2 DEF Mv!Expire
<1>3. CASE ~Mv!Expired /\ Mv!Tick
  BY <1>1, <1>3 DEF Mv!Expired, Mv!Tick, Mv!Pass
<1>4. CASE \/ Mv!CallInit("mutex") \/ Mv!CreateMutex \/ Mv!Installed \/ Mv!InstallFails
           \/ Mv!ConnectOnly \/ Mv!EnableInt
  <2>1. CASE Mv!CallInit("mutex")
    BY <1>1, <2>1 DEF Mv!CallInit
  <2>2. CASE Mv!CreateMutex \/ Mv!InstallFails
    BY <2>2 DEF Mv!CreateMutex, Mv!InstallFails, Mv!InitStep
  <2>3. CASE Mv!Installed \/ Mv!ConnectOnly
    BY <2>3 DEF Mv!Installed, Mv!ConnectOnly, Mv!InitStep
  <2>4. CASE Mv!EnableInt
    BY <2>4 DEF Mv!EnableInt, Mv!InitStep
  <2>5. QED BY <1>4, <2>1, <2>2, <2>3, <2>4
<1>5. CASE Mv!CallSetup(Mv!timer_get_stamp, Mv!timer_get_max_delay, "disable")
  <2>1. PICK a \in Int : a <= MAX_WAIT /\ delay' = Mv!Limited(a, Mv!timer_get_max_delay)
    BY <1>1, <1>5 DEF Mv!CallSetup, Mv!Asked
  <2>2. delay' \in Nat
    BY <2>1, MvDelay
  <2>3. Mv!timer_get_stamp \in Nat
    BY PartsAssumption, StampOf DEF Mv!timer_get_stamp, Mv!timer_timebase_to_usec
  <2>4. QED BY <1>1, <1>5, <2>2, <2>3 DEF Mv!CallSetup
<1>6. CASE Mv!Disable \/ Mv!CounterMode \/ Mv!Enable \/ Mv!Interrupt(~dev.masked) \/ Mv!IntAck
  <2>1. CASE Mv!Disable \/ Mv!CounterMode
    BY <1>1, <2>1 DEF Mv!Disable, Mv!CounterMode, Mv!Step, Mv!StopStep
  <2>2. CASE Mv!Enable
    BY <1>1, <2>2 DEF Mv!Enable, Mv!LastStep
  <2>3. CASE Mv!Interrupt(~dev.masked) \/ Mv!IntAck
    BY <1>1, <2>3 DEF Mv!Interrupt, Mv!IntAck
  <2>4. QED BY <1>6, <2>1, <2>2, <2>3
<1>7. CASE Mv!WriteValue
  <2>1. Mv!timer_usec_to_timerticks(delay) \in Nat
    <3>1. delay * BusTicks \in Nat /\ Pow2[Bits] \in Nat /\ Pow2[Bits] > 0
      BY PartsAssumption, Pow2Properties
    <3>2. (delay * BusTicks) % Pow2[Bits] \in Nat
      BY <3>1
    <3>3. QED BY <3>2, MvPow2 DEF Mv!timer_usec_to_timerticks
  <2>2. QED BY <1>7, <2>1 DEF Mv!WriteValue, Mv!Step
<1>8. CASE UNCHANGED vars
  BY <1>8 DEF vars, initVars
<1>9. QED BY <1>2, <1>3, <1>4, <1>5, <1>6, <1>7, <1>8 DEF Mv!Next

\* ... keeps device and driver in step, ...
LEMMA MvStateNext ==
  ASSUME MvTyped, MvState, [Mv!Next]_vars
  PROVE  MvState'
<1> USE DEF MvTyped, PortTyped, MvState, Initialising, MvSetup, Mv!initVars, Mv!Off, Off
<1>1. until # Off
  OBVIOUS
<1>2. CASE Mv!Expire
  BY <1>2 DEF Mv!Expire, Mv!Expired
<1>3. CASE ~Mv!Expired /\ Mv!Tick
  BY <1>3 DEF Mv!Tick, Mv!Pass
<1>4. CASE Mv!CallInit("mutex")
  BY <1>4 DEF Mv!CallInit
<1>5. CASE Mv!CreateMutex \/ Mv!InstallFails
  BY <1>5 DEF Mv!CreateMutex, Mv!InstallFails, Mv!InitStep
<1>6. CASE Mv!Installed \/ Mv!ConnectOnly
  BY <1>6 DEF Mv!Installed, Mv!ConnectOnly, Mv!InitStep
<1>7. CASE Mv!EnableInt
  BY <1>7 DEF Mv!EnableInt, Mv!InitStep
<1>8. CASE Mv!CallSetup(Mv!timer_get_stamp, Mv!timer_get_max_delay, "disable")
  BY <1>8 DEF Mv!CallSetup
<1>9. CASE Mv!Disable
  BY <1>9 DEF Mv!Disable, Mv!StopStep
<1>10. CASE Mv!CounterMode \/ Mv!WriteValue
  <2>1. CASE Mv!CounterMode
    BY <2>1 DEF Mv!CounterMode, Mv!Step
  <2>2. CASE Mv!WriteValue
    BY <2>2 DEF Mv!WriteValue, Mv!Step
  <2>3. QED BY <1>10, <2>1, <2>2
<1>11. CASE Mv!Enable
  BY <1>1, <1>11 DEF Mv!Enable, Mv!LastStep
<1>12. CASE Mv!Interrupt(~dev.masked)
  BY <1>12 DEF Mv!Interrupt
<1>13. CASE Mv!IntAck
  BY <1>13 DEF Mv!IntAck
<1>14. CASE UNCHANGED vars
  BY <1>14 DEF vars, initVars
<1>15. QED
  BY <1>2, <1>3, <1>4, <1>5, <1>6, <1>7, <1>8, <1>9, <1>10, <1>11, <1>12, <1>13, <1>14 DEF Mv!Next

MvInvariant == MvTyped /\ MvState /\ (Altivec = FALSE => MvTiming)

\* ... and keeps the due date.
\* The counter falls as the time base rises; timestamps of the altivec port are not
\* in microseconds, so that nothing follows for it.
LEMMA MvTimingNext ==
  ASSUME MvTyped, MvState, MvTiming, Altivec = FALSE, [Mv!Next]_vars
  PROVE  MvTiming'
<1> USE DEF PortTyped, MvSetup, Mv!initVars, Mv!Off, Off
<1>1. /\ BusTicks \in Nat /\ BusTicks > 0 /\ Slack \in Nat /\ MIN_WAIT \in Nat /\ MAX_WAIT \in Nat
      /\ MIN_WAIT > 0
  BY PartsAssumption, PortAssumption
<1>2. /\ ticks \in Nat /\ delay \in Nat /\ until \in Nat /\ due \in Nat \cup {Off}
      /\ spent \in Nat /\ dev.count \in Nat
  BY DEF MvTyped
<1> DEFINE B == BusTicks
<1> HIDE DEF B
<1>3. CASE Mv!Expire
  <2>1. due' = Off /\ UNCHANGED <<ticks, pc, delay, until, spent>>
    BY <1>3 DEF Mv!Expire
  <2>2. pc # "start" \/ dev'.count = dev.count
    BY <1>3 DEF Mv!Expire, Mv!Expired, MvState
  <2>3. QED BY <2>1, <2>2 DEF MvTiming, SetupAsked
<1>4. CASE ~Mv!Expired /\ Mv!Tick
  <2>1. /\ ticks' = ticks + 1 /\ UNCHANGED <<pc, delay, until, due>>
        /\ pc \in MvSetup => spent' = spent + 1 /\ spent < Slack
        /\ dev'.count = IF dev.enabled THEN dev.count - 1 ELSE dev.count
    BY <1>4 DEF Mv!Tick, Mv!Pass, Mv!Pressed, Mv!SettingUp, MvTyped
  <2>2. pc \in MvSetup => SetupAsked(BusTicks)'
    BY <1>1, <1>2, <2>1 DEF MvTiming, SetupAsked
  <2>3. pc = "start" => dev'.count = delay * BusTicks
    BY <2>1 DEF MvTiming, MvState
  <2>4. due # Off => ticks' + dev'.count = ticks + dev.count
    BY <1>2, <2>1 DEF MvState
  <2>5. QED BY <2>1, <2>2, <2>3, <2>4 DEF MvTiming
<1>5. CASE \/ Mv!CallInit("mutex") \/ Mv!CreateMutex \/ Mv!Installed \/ Mv!InstallFails
           \/ Mv!ConnectOnly \/ Mv!EnableInt
  <2>1. pc' \notin MvSetup /\ UNCHANGED <<ticks, due, dev.count>>
    BY <1>5 DEF Mv!CallInit, Mv!CreateMutex, Mv!Installed, Mv!InstallFails,
       Mv!ConnectOnly, Mv!EnableInt, Mv!InitStep, MvTyped
  <2>2. QED BY <2>1 DEF MvTiming
<1>6. CASE Mv!CallSetup(Mv!timer_get_stamp, Mv!timer_get_max_delay, "disable")
  <2>1. PICK a \in Int : a <= MAX_WAIT /\ delay' = Mv!Limited(a, Mv!timer_get_max_delay)
    BY <1>1, <1>2, <1>6 DEF Mv!CallSetup, Mv!Asked
  <2>2. delay' \in Nat /\ MIN_WAIT <= delay' /\ delay' * BusTicks < Pow2[Bits]
    BY <2>1, MvDelay
  <2>3. /\ until' = ticks \div BusTicks + delay' /\ pc' = "disable" /\ spent' = 0
        /\ UNCHANGED <<ticks, due, dev>>
    BY <1>2, <1>6 DEF Mv!CallSetup, Mv!timer_get_stamp, Mv!timer_timebase_to_usec
  <2>4. SetupAsked(BusTicks)'
    BY <1>1, <1>2, <2>2, <2>3, AskedNow DEF SetupAsked
  <2>5. QED BY <2>2, <2>3, <2>4 DEF MvTiming
<1>7. CASE Mv!Disable
  <2>1. pc = "disable" /\ pc' = "mode" /\ due' = Off /\ UNCHANGED <<ticks, delay, until, spent>>
    BY <1>7 DEF Mv!Disable, Mv!StopStep
  <2>2. QED BY <2>1 DEF MvTiming, SetupAsked
<1>8. CASE Mv!CounterMode
  <2>1. pc = "mode" /\ pc' = "value" /\ UNCHANGED <<ticks, delay, until, spent, due>>
        /\ dev'.count = dev.count
    BY <1>8 DEF Mv!CounterMode, Mv!Step, MvTyped
  <2>2. QED BY <2>1 DEF MvTiming, SetupAsked
<1>9. CASE Mv!WriteValue
  <2>1. /\ pc = "value" /\ pc' = "start" /\ UNCHANGED <<ticks, delay, until, spent, due>>
        /\ dev'.count = (delay * BusTicks) % Pow2[Bits]
    BY <1>9, MvPow2 DEF Mv!WriteValue, Mv!Step, MvTyped, Mv!timer_usec_to_timerticks
  <2>2. delay * BusTicks \in Nat /\ delay * BusTicks < Pow2[Bits] /\ Pow2[Bits] \in Nat
    BY <1>1, <1>2, <2>1, Pow2Properties, PartsAssumption DEF MvTiming
  <2>3. dev'.count = delay * BusTicks
    BY <2>1, <2>2
  <2>4. due = Off
    BY <2>1 DEF MvState
  <2>5. QED BY <2>1, <2>3, <2>4 DEF MvTiming, SetupAsked
<1>10. CASE Mv!Enable
  <2>1. pc = "start" /\ pc' = "idle" /\ due' = until /\ ticks' = ticks /\ dev'.count = dev.count
    BY <1>10 DEF Mv!Enable, Mv!LastStep, MvTyped
  <2>2. SetupAsked(BusTicks) /\ dev.count = delay * BusTicks
    BY <2>1 DEF MvTiming
  <2>3. until * BusTicks <= ticks + dev.count /\ ticks + dev.count < (until + 1) * BusTicks + spent
        /\ spent <= Slack
    BY <1>1, <1>2, <2>2, DelayEnds DEF SetupAsked
  <2>4. (until + 1) * BusTicks \in Nat
    BY <1>1, <1>2
  <2>5. ticks + dev.count < (until + 1) * BusTicks + Slack
    BY <1>1, <1>2, <2>3, <2>4
  <2>6. QED BY <2>1, <2>3, <2>5 DEF MvTiming
<1>11. CASE Mv!Interrupt(~dev.masked) \/ Mv!IntAck
  <2>1. pc' \notin MvSetup /\ UNCHANGED <<ticks, due, dev>>
    BY <1>11 DEF Mv!Interrupt, Mv!IntAck
  <2>2. QED BY <2>1 DEF MvTiming
<1>12. CASE UNCHANGED vars
  BY <1>12 DEF vars, initVars, MvTiming, SetupAsked
<1>13. QED
  BY <1>3, <1>4, <1>5, <1>6, <1>7, <1>8, <1>9, <1>10, <1>11, <1>12 DEF Mv!Next

\* Hence it is a step of OneShot, or none.
LEMMA MvContract ==
  ASSUME MvTyped, MvState, MvTiming, Altivec = FALSE, [Mv!Next]_vars
  PROVE  [MvShot!Next]_<<MvShot!vars>>
<1> USE DEF PortTyped, MvSetup, Mv!initVars, Mv!Off, Off, MvShot!Off
<1> DEFINE now_ == ticks \div BusTicks
<1>1. BusTicks \in Nat /\ BusTicks > 0 /\ Slack \in Nat
  BY PartsAssumption, PortAssumption
<1>2. Mv!timer_get_stamp = now_ /\ Mv!timer_get_stamp' = now_'
  BY DEF Mv!timer_get_stamp, Mv!timer_timebase_to_usec
<1>3. ticks \in Nat /\ until \in Nat /\ due \in Nat \cup {Off} /\ dev.count \in Nat
  BY DEF MvTyped
<1>4. CASE Mv!Expire
  <2>1. /\ dev.enabled /\ dev.count = 0 /\ request' = TRUE /\ due' = Off /\ ticks' = ticks
    BY <1>4 DEF Mv!Expire, Mv!Expired
  <2>2. due # Off /\ due \in Nat /\ due * BusTicks <= ticks
    BY <1>3, <2>1 DEF MvState, MvTiming
  <2>3. due <= now_
    BY <1>1, <1>3, <2>2, StampReached
  <2> HIDE DEF now_
  <2>4. MvShot!Expire
    BY <1>2, <2>1, <2>2, <2>3 DEF MvShot!Expire, now_
  <2>5. QED BY <2>4 DEF MvShot!Next
<1>5. CASE ~Mv!Expired /\ Mv!Tick
  <2>1. ticks' = ticks + 1 /\ UNCHANGED <<due, request>>
    BY <1>5 DEF Mv!Tick, Mv!Pass
  <2>2. CASE now_' = now_
    <3>1. UNCHANGED MvShot!vars
      BY <1>2, <2>1, <2>2 DEF MvShot!vars
    <3>2. QED BY <3>1
  <2>3. CASE now_' # now_
    <3>1. now_' = now_ + 1
      BY <1>1, <1>3, <2>1, <2>3, StampOf
    <3>2. ASSUME due # Off PROVE now_ < due + RoundedUp(Slack, BusTicks)
      <4>1. due \in Nat /\ dev.count > 0
        BY <1>3, <1>5, <3>2 DEF Mv!Expired, MvState
      <4>2. ticks < ticks + dev.count /\ ticks + dev.count < (due + 1) * BusTicks + Slack
        BY <1>3, <3>2, <4>1 DEF MvTiming
      <4>3. (ticks + 1) \div BusTicks # ticks \div BusTicks /\ ticks + dev.count \in Nat
        BY <1>3, <2>1, <2>3
      <4>4. QED BY <1>1, <1>3, <4>1, <4>2, <4>3, InTime
    <3> HIDE DEF now_
    <3>3. MvShot!Tick
      BY <1>2, <2>1, <3>1, <3>2 DEF MvShot!Tick
    <3>4. QED BY <3>3 DEF MvShot!Next
  <2>4. QED BY <2>2, <2>3
<1>6. CASE \/ Mv!CallInit("mutex") \/ Mv!CreateMutex \/ Mv!Installed \/ Mv!InstallFails
           \/ Mv!ConnectOnly \/ Mv!EnableInt
           \/ Mv!CallSetup(Mv!timer_get_stamp, Mv!timer_get_max_delay, "disable")
           \/ Mv!CounterMode \/ Mv!WriteValue \/ Mv!Interrupt(~dev.masked) \/ UNCHANGED vars
  <2>1. UNCHANGED <<ticks, due, request>>
    BY <1>6 DEF Mv!CallInit, Mv!CreateMutex, Mv!Installed, Mv!InstallFails, Mv!ConnectOnly,
       Mv!EnableInt, Mv!InitStep, Mv!CallSetup, Mv!CounterMode, Mv!WriteValue, Mv!Step,
       Mv!Interrupt, vars
  <2>2. UNCHANGED MvShot!vars
    BY <1>2, <2>1 DEF MvShot!vars
  <2>3. QED BY <2>2
<1>7. CASE Mv!Disable
  <2>1. MvShot!Stop
    BY <1>2, <1>7 DEF Mv!Disable, Mv!StopStep, MvShot!Stop
  <2>2. QED BY <2>1 DEF MvShot!Next
<1>8. CASE Mv!Enable
  <2>1. MvShot!Setup
    BY <1>2, <1>3, <1>8 DEF Mv!Enable, Mv!LastStep, MvShot!Setup
  <2>2. QED BY <2>1 DEF MvShot!Next
<1>9. CASE Mv!IntAck
  <2>1. MvShot!Ack
    BY <1>2, <1>9 DEF Mv!IntAck, MvShot!Ack
  <2>2. QED BY <2>1 DEF MvShot!Next
<1>10. QED BY <1>4, <1>5, <1>6, <1>7, <1>8, <1>9 DEF Mv!Next
-----------------------------------------------------------------------------
(* TimerBeatnik. *)

BeatnikRegisters ==
  [done : {"no", "set", "number", "rate", "yes"}, alarm_timer_no : {-1, 3},
   alarm_ticks_per_usec : Nat, alarm_max : Nat,
   isr : BOOLEAN, running : BOOLEAN, count : Nat, hasty : BOOLEAN]

BeatnikTyped ==
  /\ PortTyped
  /\ dev \in BeatnikRegisters
  /\ init_state \in {"none", "failed", "ok"}
  /\ pc \in {"idle", "timer_init", "mutex", "install", "enable", "init", "ack", "handler", "start"}

\* The statics that have been written; if alm_init has not been hasty, that is all
\* of them as soon as it goes on.
BeatnikStatics ==
  /\ dev.done \in {"number", "rate", "yes"} => dev.alarm_timer_no = 3
  /\ dev.done \in {"rate", "yes"} => dev.alarm_ticks_per_usec = Beatnik!alarm_ticks_per_usec
  /\ dev.done = "yes" => dev.alarm_max = Beatnik!AlarmMax

BeatnikState ==
  /\ init_state = "none" \/ pc = "timer_init" => ~dev.hasty
  /\ ~dev.hasty =>
    /\ Initialising({"timer_init", "mutex", "install", "enable", "init"}, {"start"}, dev.isr)
    /\ \/ pc \in {"mutex", "install", "enable", "init", "start"}
       \/ init_state = "ok"
       => dev.done = "yes"
    /\ dev.running <=> due # Off

\* The timer has no fewer ticks per microsecond than timestamps have, and what
\* that adds to the delay is bounded.
BeatnikTiming ==
  ~dev.hasty =>
    /\ pc = "start" =>
         /\ SetupAsked(BeatnikUnit)
         /\ delay <= Beatnik!AlarmMax /\ delay <= Limited(MAX_WAIT, Beatnik!AlarmMax)
    /\ due # Off =>
         /\ due * BeatnikUnit <= ticks + dev.count
         /\ ticks + dev.count < (due + 1) * BeatnikUnit + (Slack + BeatnikAdds)

\* TimerBeatnik and this module mean the same powers of two.
LEMMA BeatnikPow2 == Beatnik!Pow2 = Pow2
BY DEF Beatnik!Pow2, Pow2

\* To divide twice is to divide by the product.
LEMMA DivideTwice ==
  ASSUME NEW t \in Nat, NEW m \in Nat, m > 0, NEW n \in Nat, n > 0
  PROVE  (t \div m) \div n = t \div (m * n)
<1> DEFINE a == t \div m
           b == a \div n
           k == m * n
<1>1. a \in Nat /\ a * m <= t /\ t < (a + 1) * m
  BY StampOf
<1>2. b \in Nat /\ b * n <= a /\ a < (b + 1) * n
  BY <1>1, StampOf
<1> HIDE DEF a, b
<1>3. k \in Nat /\ k > 0
  OBVIOUS
<1>4. b * k <= t
  <2>1. (b * n) * m <= a * m
    BY <1>1, <1>2
  <2>2. (b * n) * m = b * k
    BY <1>2
  <2>3. QED BY <1>1, <1>2, <1>3, <2>1, <2>2
<1>5. t < (b + 1) * k
  <2>1. a + 1 <= (b + 1) * n
    BY <1>1, <1>2
  <2>2. (a + 1) * m <= ((b + 1) * n) * m
    BY <1>1, <1>2, <2>1
  <2>3. ((b + 1) * n) * m = (b + 1) * k
    BY <1>2
  <2>4. QED BY <1>1, <1>2, <1>3, <2>2, <2>3
<1> HIDE DEF k
<1>6. t - b * k \in Nat /\ t - b * k < k
  <2>1. (b + 1) * k = b * k + k /\ b * k \in Nat
    BY <1>2, <1>3
  <2>2. QED BY <1>2, <1>3, <1>4, <1>5, <2>1
<1>7. t \div k = b
  <2>1. (t - b * k) + k * b = t
    <3>1. b * k \in Nat /\ k * b = b * k
      BY <1>2, <1>3
    <3>2. QED BY <3>1
  <2>2. QED BY <1>2, <1>3, <1>6, <2>1, DivisionUnique
<1>8. QED BY <1>7 DEF b, a, k

\* Timer and time base.
LEMMA BeatnikRates ==
  /\ BeatnikUnit \in Nat /\ BeatnikUnit > 0
  /\ Beatnik!alarm_ticks_per_usec \in Nat /\ BeatnikUnit <= Beatnik!alarm_ticks_per_usec
  /\ \A t \in Nat :
       Beatnik!timer_timebase_to_usec(t \div Beatnik!TicksPerBase) = t \div BeatnikUnit
  /\ \A l \in Nat : l <= Beatnik!AlarmMax => l * Beatnik!alarm_ticks_per_usec < Pow2[BspBits]
  /\ Beatnik!AlarmMax \in Nat /\ MIN_WAIT <= Beatnik!AlarmMax
  /\ Pow2[BspBits] \in Nat /\ Pow2[BspBits] > 0
<1> DEFINE R == TimerRate
           B == BaseRate
           u == BspUsecs
           P == Pow2[BspBits]
           c == R \div B
           v == B \div u
           A == R \div u
           M == ((P - 1) * u) \div R
<1>1. R \in Nat /\ B \in Nat /\ u \in Nat /\ u > 0 /\ u <= B /\ B <= R /\ R % B = 0
      /\ BspBits \in Nat
  BY PartsAssumption
<1>2. P \in Nat /\ P > 0
  BY <1>1, Pow2Properties
<1> HIDE DEF R, B, u, P
<1>3. c \in Nat /\ c > 0 /\ c * B = R
  BY <1>1
<1>4. v \in Nat /\ v > 0 /\ v * u <= B
  BY <1>1
<1>5. A \in Nat /\ A * u <= R /\ R < (A + 1) * u
  BY <1>1, StampOf
<1>6. (P - 1) * u \in Nat /\ (P - 1) * u < P * u
  BY <1>1, <1>2
<1>7. M \in Nat /\ M * R <= (P - 1) * u
  BY <1>1, <1>6, StampOf
<1> HIDE DEF c, v, A, M
<1>8. c * v \in Nat /\ c * v > 0
  BY <1>3, <1>4
<1>9. c * v <= A
  <2>1. c * (v * u) <= c * B
    BY <1>1, <1>3, <1>4
  <2>2. (c * v) * u = c * (v * u)
    BY <1>1, <1>3, <1>4
  <2>3. (c * v) * u < (A + 1) * u
    BY <1>1, <1>3, <1>4, <1>5, <1>8, <2>1, <2>2
  <2>4. \A m, n \in Nat : m * u < n * u => m < n
    BY <1>1
  <2>5. c * v < A + 1
    BY <1>5, <1>8, <2>3, <2>4
  <2>6. QED BY <1>5, <1>8, <2>5
<1>10. ASSUME NEW l \in Nat, l <= M PROVE l * A < P
  <2>1. l * (A * u) <= l * R /\ l * R <= M * R
    BY <1>1, <1>5, <1>7, <1>10
  <2>2. (l * A) * u = l * (A * u) /\ l * A \in Nat
    BY <1>1, <1>5
  <2>3. (l * A) * u < P * u
    BY <1>1, <1>2, <1>5, <1>6, <1>7, <2>1, <2>2
  <2>4. \A m, n \in Nat : m * u < n * u => m < n
    BY <1>1
  <2>5. QED BY <1>2, <2>2, <2>3, <2>4
<1>11. Beatnik!TicksPerBase = c /\ BeatnikUnit = c * v /\ Beatnik!alarm_ticks_per_usec = A
  BY DEF Beatnik!TicksPerBase, BeatnikUnit, Beatnik!alarm_ticks_per_usec, c, v, A, R, B, u
<1>12. Beatnik!AlarmMax = M - 1
  BY BeatnikPow2 DEF Beatnik!AlarmMax, M, P, R, u
<1>13. M - 1 \in Nat /\ MIN_WAIT <= M - 1
  BY <1>7, <1>12, PartsAssumption, PortAssumption
<1>14. ASSUME NEW t \in Nat
       PROVE  Beatnik!timer_timebase_to_usec(t \div c) = t \div (c * v)
  <2>1. Beatnik!timer_timebase_to_usec(t \div c) = (t \div c) \div v
    BY DEF Beatnik!timer_timebase_to_usec, v, B, u
  <2>2. QED BY <1>3, <1>4, <2>1, DivideTwice
<1>15. \A l \in Nat : l <= M - 1 => l * A < P
  BY <1>7, <1>10
<1>16. QED
  BY <1>2, <1>5, <1>8, <1>9, <1>11, <1>12, <1>13, <1>14, <1>15 DEF P

\* The delay is limited by what alarm_max holds; that it is all right is known only
\* once the static has been written.
LEMMA BeatnikDelay ==
  ASSUME NEW a \in Int, dev \in BeatnikRegisters
  PROVE  LET n == Beatnik!Limited(a, Beatnik!timer_get_max_delay)
             m == Beatnik!AlarmMax
         IN  /\ n \in Nat
             /\ dev.alarm_max = m => MIN_WAIT <= n /\ n <= m
             /\ dev.alarm_max = m /\ a <= MAX_WAIT => n <= Limited(MAX_WAIT, m)
<1> DEFINE m == Beatnik!AlarmMax
           k == dev.alarm_max
<1>1. Beatnik!Limited(a, Beatnik!timer_get_max_delay) = Limited(a, k)
  BY DEF Beatnik!timer_get_max_delay, Beatnik!Limited, Limited, Beatnik!Least, Least
<1>2. k \in Nat /\ m \in Nat /\ MIN_WAIT <= m
  BY BeatnikRates DEF BeatnikRegisters
<1> HIDE DEF k, m
<1>3. Limited(a, k) \in Nat
  BY <1>2, PortAssumption DEF Limited, Least
<1>4. k = m => /\ MIN_WAIT <= Limited(a, k) /\ Limited(a, k) <= m
               /\ a <= MAX_WAIT => Limited(a, k) <= Limited(MAX_WAIT, m)
  BY <1>2, LimitedDelay
<1>5. QED BY <1>1, <1>3, <1>4 DEF k, m

\* The number of ticks that timer_setup asks for is exact.
LEMMA BeatnikStart ==
  ASSUME BeatnikTyped, Beatnik!Start
  PROVE  /\ dev' \in BeatnikRegisters
         /\ \A f \in {"done", "alarm_timer_no", "alarm_ticks_per_usec", "alarm_max", "isr",
                      "hasty"} :
              dev'[f] = dev[f]
         /\ dev.alarm_timer_no = 3 => dev'.running
         /\ /\ dev.alarm_timer_no = 3
            /\ dev.alarm_ticks_per_usec = Beatnik!alarm_ticks_per_usec
            /\ delay <= Beatnik!AlarmMax
            => dev'.count = delay * Beatnik!alarm_ticks_per_usec
<1> DEFINE p == delay * dev.alarm_ticks_per_usec
           P == Pow2[BspBits]
           n == p % P
<1>1. dev \in BeatnikRegisters /\ delay \in Nat
  BY DEF BeatnikTyped, PortTyped
<1>2. p \in Nat /\ P \in Nat /\ P > 0
  BY <1>1, BeatnikRates DEF BeatnikRegisters
<1>3. n \in Nat /\ (p < P => n = p)
  <2> HIDE DEF p, P
  <2>1. QED BY <1>2
<1>4. dev' = IF dev.alarm_timer_no = 3 THEN [dev EXCEPT !.running = TRUE, !.count = n] ELSE dev
  BY BeatnikPow2 DEF Beatnik!Start
<1>5. dev.alarm_ticks_per_usec = Beatnik!alarm_ticks_per_usec /\ delay <= Beatnik!AlarmMax
      => p < P
  BY <1>1, BeatnikRates
<1> HIDE DEF n, P
<1>6. CASE dev.alarm_timer_no = 3
  <2>1. dev' = [dev EXCEPT !.running = TRUE, !.count = n]
    BY <1>4, <1>6
  <2>2. dev' \in BeatnikRegisters /\ dev'.running /\ dev'.count = n
    BY <1>1, <1>3, <2>1 DEF BeatnikRegisters
  <2>3. \A f \in {"done", "alarm_timer_no", "alarm_ticks_per_usec", "alarm_max", "isr", "hasty"} :
          dev'[f] = dev[f]
    BY <1>1, <2>1 DEF BeatnikRegisters
  <2>4. QED BY <1>3, <1>5, <2>2, <2>3
<1>7. CASE dev.alarm_timer_no # 3
  BY <1>1, <1>4, <1>7
<1>8. QED BY <1>6, <1>7

\* The port's invariant holds when the library has been loaded.
LEMMA BeatnikInit ==
  Beatnik!Init => BeatnikTyped /\ BeatnikStatics /\ BeatnikState /\ BeatnikTiming
<1> SUFFICES ASSUME Beatnik!Init
             PROVE  BeatnikTyped /\ BeatnikStatics /\ BeatnikState /\ BeatnikTiming
  OBVIOUS
<1>1. /\ request = FALSE /\ pc = "idle" /\ due = Off /\ init_state = "none" /\ handler = FALSE
      /\ dev = [done |-> "no", alarm_timer_no |-> -1, alarm_ticks_per_usec |-> 1, alarm_max |-> 0,
            isr |-> FALSE, running |-> FALSE, count |-> 0, hasty |-> FALSE]
  BY DEF Beatnik!Init, Beatnik!PortInit, Beatnik!Off, Off
<1>2. BeatnikTyped
  <2>1. PortTyped
    BY PortInitTyped DEF Beatnik!Init, Beatnik!PortInit, PortInit, Beatnik!Off, Off
  <2>2. dev \in BeatnikRegisters
    BY <1>1 DEF BeatnikRegisters
  <2>3. QED BY <1>1, <2>1, <2>2 DEF BeatnikTyped
<1>3. BeatnikStatics /\ BeatnikState /\ BeatnikTiming
  <2>1. dev.done = "no" /\ dev.running = FALSE
    BY <1>1
  <2>2. QED BY <1>1, <2>1 DEF BeatnikStatics, BeatnikState, BeatnikTiming, Initialising
<1>4. QED BY <1>2, <1>3

\* Every step of the port keeps its registers typed, ...
LEMMA BeatnikTypedNext ==
  ASSUME BeatnikTyped, [Beatnik!Next]_vars
  PROVE  BeatnikTyped'
<1> USE DEF BeatnikTyped, PortTyped, Beatnik!initVars, Beatnik!Off, Off
<1>1. /\ Slack \in Nat /\ MIN_WAIT \in Nat /\ MAX_WAIT \in Nat
      /\ Beatnik!alarm_ticks_per_usec \in Nat /\ Beatnik!AlarmMax \in Nat
  BY PortAssumption, BeatnikRates
<1>2. CASE Beatnik!Expire
  <2>1. dev' \in BeatnikRegisters
    BY <1>2 DEF Beatnik!Expire, BeatnikRegisters
  <2>2. request' \in BOOLEAN
    BY <1>2 DEF Beatnik!Expire
  <2>3. QED BY <1>2, <2>1, <2>2 DEF Beatnik!Expire
<1>3. CASE ~Beatnik!Expired /\ Beatnik!Tick
  <2>1. dev' \in BeatnikRegisters
    <3>1. PICK n \in Nat : dev' = [dev EXCEPT !.count = n]
      <4>1. CASE dev.running
        <5>1. dev.count - 1 \in Nat
          BY <1>3, <4>1 DEF Beatnik!Expired, BeatnikRegisters
        <5>2. QED BY <1>3, <4>1, <5>1 DEF Beatnik!Tick
      <4>2. CASE ~dev.running
        <5>1. dev.count \in Nat
          BY DEF BeatnikRegisters
        <5>2. QED BY <1>3, <4>2, <5>1 DEF Beatnik!Tick
      <4>3. QED BY <4>1, <4>2
    <3>2. QED BY <3>1 DEF BeatnikRegisters
  <2>2. QED BY <1>1, <1>3, <2>1 DEF Beatnik!Tick, Beatnik!Pass
<1>4. CASE Beatnik!FirstThread
  <2>1. dev' \in BeatnikRegisters
    <3>1. CASE Beatnik!FirstStamp
      BY <3>1 DEF Beatnik!FirstStamp, BeatnikRegisters
    <3>2. CASE Beatnik!WriteNumber
      BY <3>2 DEF Beatnik!WriteNumber, BeatnikRegisters
    <3>3. CASE Beatnik!WriteRate
      BY <1>1, <3>3 DEF Beatnik!WriteRate, BeatnikRegisters
    <3>4. CASE Beatnik!WriteMax
      BY <1>1, <3>4 DEF Beatnik!WriteMax, BeatnikRegisters
    <3>5. QED BY <1>4, <3>1, <3>2, <3>3, <3>4 DEF Beatnik!FirstThread
  <2>2. QED BY <1>4, <2>1 DEF Beatnik!FirstThread
<1>5. CASE Beatnik!CallInit("timer_init")
  BY <1>1, <1>5 DEF Beatnik!CallInit
<1>6. CASE Beatnik!TimerInit
  <2>1. dev' \in BeatnikRegisters
    <3>1. CASE dev.done = "no"
      BY <1>1, <1>6, <3>1 DEF Beatnik!TimerInit, Beatnik!Statics, BeatnikRegisters
    <3>2. CASE dev.done # "no"
      BY <1>6, <3>2 DEF Beatnik!TimerInit, BeatnikRegisters
    <3>3. QED BY <3>1, <3>2
  <2>2. QED BY <1>6, <2>1 DEF Beatnik!TimerInit, Beatnik!InitStep
<1>7. CASE Beatnik!CreateMutex \/ Beatnik!Installed
  <2>1. CASE Beatnik!CreateMutex
    BY <2>1 DEF Beatnik!CreateMutex, Beatnik!InitStep
  <2>2. CASE Beatnik!Installed
    BY <2>2 DEF Beatnik!Installed, Beatnik!InitStep
  <2>3. QED BY <1>7, <2>1, <2>2
<1>8. CASE Beatnik!EnableInt
  <2>1. dev' \in BeatnikRegisters
    BY <1>8 DEF Beatnik!EnableInt, BeatnikRegisters
  <2>2. QED BY <1>8, <2>1 DEF Beatnik!EnableInt, Beatnik!InitStep
<1>9. CASE Beatnik!CallSetup(Beatnik!timer_get_stamp, Beatnik!timer_get_max_delay, "start")
  <2>1. PICK a \in Int : delay' = Beatnik!Limited(a, Beatnik!timer_get_max_delay)
    BY <1>1, <1>9 DEF Beatnik!CallSetup, Beatnik!Asked
  <2>2. delay' \in Nat
    BY <2>1, BeatnikDelay
  <2>3. Beatnik!timer_get_stamp \in Nat
    <3>1. Beatnik!timer_get_stamp = ticks \div BeatnikUnit
      BY BeatnikRates DEF Beatnik!timer_get_stamp
    <3>2. QED BY <3>1, BeatnikRates, StampOf
  <2>4. QED BY <1>1, <1>9, <2>2, <2>3 DEF Beatnik!CallSetup
<1>10. CASE Beatnik!Start
  <2>1. dev' \in BeatnikRegisters
    BY <1>10, BeatnikStart
  <2>2. QED BY <1>10, <2>1 DEF Beatnik!Start, Beatnik!LastStep
<1>11. CASE Beatnik!Interrupt(dev.isr) \/ Beatnik!IntAck \/ UNCHANGED vars
  BY <1>11 DEF Beatnik!Interrupt, Beatnik!IntAck, vars, initVars
<1>12. QED
  BY <1>2, <1>3, <1>4, <1>5, <1>6, <1>7, <1>8, <1>9, <1>10, <1>11 DEF Beatnik!Next

\* ... leaves the statics as they have been written, ...
LEMMA BeatnikStaticsNext ==
  ASSUME BeatnikTyped, BeatnikStatics, [Beatnik!Next]_vars
  PROVE  BeatnikStatics'
<1> USE DEF BeatnikStatics
<1>1. dev \in BeatnikRegisters
  BY DEF BeatnikTyped
<1>2. CASE \/ UNCHANGED dev
           \/ \A f \in {"done", "alarm_timer_no", "alarm_ticks_per_usec", "alarm_max"} :
                dev'[f] = dev[f]
  BY <1>2 DEF Beatnik!alarm_ticks_per_usec, Beatnik!AlarmMax
<1>3. CASE Beatnik!Expire
  <2>1. \A f \in {"done", "alarm_timer_no", "alarm_ticks_per_usec", "alarm_max"} : dev'[f] = dev[f]
    BY <1>1, <1>3 DEF Beatnik!Expire, BeatnikRegisters
  <2>2. QED BY <1>2, <2>1
<1>4. CASE Beatnik!Tick
  <2>1. \A f \in {"done", "alarm_timer_no", "alarm_ticks_per_usec", "alarm_max"} : dev'[f] = dev[f]
    BY <1>1, <1>4 DEF Beatnik!Tick, BeatnikRegisters
  <2>2. QED BY <1>2, <2>1
<1>5. CASE Beatnik!EnableInt
  <2>1. \A f \in {"done", "alarm_timer_no", "alarm_ticks_per_usec", "alarm_max"} : dev'[f] = dev[f]
    BY <1>1, <1>5 DEF Beatnik!EnableInt, BeatnikRegisters
  <2>2. QED BY <1>2, <2>1
<1>6. CASE Beatnik!Start
  <2>1. \A f \in {"done", "alarm_timer_no", "alarm_ticks_per_usec", "alarm_max"} : dev'[f] = dev[f]
    BY <1>6, BeatnikStart
  <2>2. QED BY <1>2, <2>1
<1>7. CASE Beatnik!FirstThread
  <2> USE DEF Beatnik!alarm_ticks_per_usec, Beatnik!AlarmMax
  <2>1. CASE Beatnik!FirstStamp
    BY <1>1, <2>1 DEF Beatnik!FirstStamp, BeatnikRegisters
  <2>2. CASE Beatnik!WriteNumber
    BY <1>1, <2>2 DEF Beatnik!WriteNumber, BeatnikRegisters
  <2>3. CASE Beatnik!WriteRate
    BY <1>1, <2>3 DEF Beatnik!WriteRate, BeatnikRegisters
  <2>4. CASE Beatnik!WriteMax
    BY <1>1, <2>4 DEF Beatnik!WriteMax, BeatnikRegisters
  <2>5. QED BY <1>7, <2>1, <2>2, <2>3, <2>4 DEF Beatnik!FirstThread
<1>8. CASE Beatnik!TimerInit
  <2>1. CASE dev.done = "no"
    BY <1>1, <1>8, <2>1 DEF Beatnik!TimerInit, Beatnik!Statics, BeatnikRegisters,
       Beatnik!alarm_ticks_per_usec, Beatnik!AlarmMax
  <2>2. CASE dev.done # "no"
    <3>1. \A f \in {"done", "alarm_timer_no", "alarm_ticks_per_usec", "alarm_max"} :
            dev'[f] = dev[f]
      BY <1>1, <1>8, <2>2 DEF Beatnik!TimerInit, BeatnikRegisters
    <3>2. QED BY <1>2, <3>1
  <2>3. QED BY <2>1, <2>2
<1>9. CASE \/ Beatnik!CallInit("timer_init") \/ Beatnik!CreateMutex \/ Beatnik!Installed
           \/ Beatnik!CallSetup(Beatnik!timer_get_stamp, Beatnik!timer_get_max_delay, "start")
           \/ Beatnik!Interrupt(dev.isr) \/ Beatnik!IntAck \/ UNCHANGED vars
  <2>1. UNCHANGED dev
    BY <1>9 DEF Beatnik!CallInit, Beatnik!CreateMutex, Beatnik!Installed, Beatnik!CallSetup,
       Beatnik!Interrupt, Beatnik!IntAck, vars
  <2>2. QED BY <1>2, <2>1
<1>10. QED
  BY <1>3, <1>4, <1>5, <1>6, <1>7, <1>8, <1>9 DEF Beatnik!Next

\* ... keeps device and driver in step, ...
LEMMA BeatnikStateNext ==
  ASSUME BeatnikTyped, BeatnikStatics, BeatnikState, [Beatnik!Next]_vars
  PROVE  BeatnikState'
<1> USE DEF PortTyped, Initialising, Beatnik!initVars, Beatnik!Off, Off
<1>1. /\ dev \in BeatnikRegisters /\ until # Off /\ request \in BOOLEAN
  BY DEF BeatnikTyped
<1>2. CASE Beatnik!Expire
  <2>1. /\ dev'.hasty = dev.hasty /\ dev'.done = dev.done /\ dev'.isr = dev.isr
        /\ dev'.running = FALSE /\ dev.running /\ due' = Off
        /\ UNCHANGED <<pc, init_state, handler>>
    BY <1>1, <1>2 DEF Beatnik!Expire, Beatnik!Expired, BeatnikRegisters
  <2>2. request' <=> request \/ dev.isr
    BY <1>2 DEF Beatnik!Expire
  <2>3. QED BY <2>1, <2>2 DEF BeatnikState
<1>3. CASE ~Beatnik!Expired /\ Beatnik!Tick
  <2>1. /\ dev'.hasty = dev.hasty /\ dev'.done = dev.done /\ dev'.isr = dev.isr
        /\ dev'.running = dev.running
        /\ UNCHANGED <<pc, init_state, handler, request, due>>
    BY <1>1, <1>3 DEF Beatnik!Tick, Beatnik!Pass, BeatnikRegisters
  <2>2. QED BY <2>1 DEF BeatnikState
<1>4. CASE Beatnik!FirstThread
  <2>1. /\ dev'.hasty = dev.hasty /\ dev'.isr = dev.isr /\ dev'.running = dev.running
        /\ dev.done # "yes" /\ pc = "idle"
        /\ UNCHANGED <<pc, init_state, handler, request, due>>
    <3>1. CASE Beatnik!FirstStamp
      BY <1>1, <1>4, <3>1 DEF Beatnik!FirstThread, Beatnik!FirstStamp, BeatnikRegisters
    <3>2. CASE Beatnik!WriteNumber
      BY <1>1, <1>4, <3>2 DEF Beatnik!FirstThread, Beatnik!WriteNumber, BeatnikRegisters
    <3>3. CASE Beatnik!WriteRate
      BY <1>1, <1>4, <3>3 DEF Beatnik!FirstThread, Beatnik!WriteRate, BeatnikRegisters
    <3>4. CASE Beatnik!WriteMax
      BY <1>1, <1>4, <3>4 DEF Beatnik!FirstThread, Beatnik!WriteMax, BeatnikRegisters
    <3>5. QED BY <1>4, <3>1, <3>2, <3>3, <3>4 DEF Beatnik!FirstThread
  <2>2. QED BY <2>1 DEF BeatnikState
<1>5. CASE Beatnik!CallInit("timer_init")
  <2>1. /\ pc = "idle" /\ init_state = "none" /\ pc' = "timer_init" /\ init_state' = "failed"
        /\ UNCHANGED <<dev, handler, request, due>>
    BY <1>5 DEF Beatnik!CallInit
  <2>2. QED BY <2>1 DEF BeatnikState
<1>6. CASE Beatnik!TimerInit
  <2>1. /\ pc = "timer_init" /\ pc' = "mutex"
        /\ UNCHANGED <<init_state, handler, request, due>>
    BY <1>6 DEF Beatnik!TimerInit, Beatnik!InitStep
  <2>2. /\ dev'.running = dev.running
        /\ ~dev'.hasty => dev'.done = "yes"
    <3>1. CASE dev.done = "no"
      BY <1>1, <1>6, <3>1 DEF Beatnik!TimerInit, Beatnik!Statics, BeatnikRegisters
    <3>2. CASE dev.done # "no"
      <4>1. dev' = [dev EXCEPT !.hasty = (dev.done # "yes")]
        BY <1>6, <3>2 DEF Beatnik!TimerInit
      <4>2. CASE dev.done = "yes"
        BY <1>1, <4>1, <4>2 DEF BeatnikRegisters
      <4>3. CASE dev.done # "yes"
        <5>1. (dev.done # "yes") = TRUE
          BY <4>3
        <5>2. dev' = [dev EXCEPT !.hasty = TRUE]
          BY <4>1, <5>1
        <5>3. QED BY <1>1, <5>2 DEF BeatnikRegisters
      <4>4. QED BY <4>2, <4>3
    <3>3. QED BY <3>1, <3>2
  <2>3. QED BY <2>1, <2>2 DEF BeatnikState
<1>7. CASE Beatnik!CreateMutex
  <2>1. /\ pc = "mutex" /\ pc' \in {"install", "idle"}
        /\ UNCHANGED <<init_state, handler, request, due, dev>>
    BY <1>7 DEF Beatnik!CreateMutex, Beatnik!InitStep
  <2>2. QED BY <2>1 DEF BeatnikState
<1>8. CASE Beatnik!Installed
  <2>1. /\ pc = "install" /\ pc' = "enable" /\ handler' = TRUE
        /\ UNCHANGED <<init_state, request, due, dev>>
    BY <1>8 DEF Beatnik!Installed, Beatnik!InitStep
  <2>2. QED BY <2>1 DEF BeatnikState
<1>9. CASE Beatnik!EnableInt
  <2>1. /\ pc = "enable" /\ pc' = "init" /\ UNCHANGED <<init_state, handler, request, due>>
        /\ dev' = [dev EXCEPT !.isr = (dev.alarm_timer_no = 3)]
    BY <1>9 DEF Beatnik!EnableInt, Beatnik!InitStep
  <2>2. /\ dev'.hasty = dev.hasty /\ dev'.done = dev.done /\ dev'.running = dev.running
        /\ dev'.isr = (dev.alarm_timer_no = 3)
    BY <1>1, <2>1 DEF BeatnikRegisters
  <2>3. ~dev.hasty => dev.alarm_timer_no = 3
    BY <2>1 DEF BeatnikState, BeatnikStatics
  <2>4. ~dev.hasty => dev'.isr
    BY <2>2, <2>3
  <2>5. QED BY <2>1, <2>2, <2>4 DEF BeatnikState
<1>10. CASE Beatnik!CallSetup(Beatnik!timer_get_stamp, Beatnik!timer_get_max_delay, "start")
  <2>1. /\ pc \in {"init", "handler"} \/ (pc = "idle" /\ init_state = "ok")
        /\ pc' = "start" /\ UNCHANGED <<init_state, handler, request, due, dev>>
    BY <1>10 DEF Beatnik!CallSetup
  <2>2. QED BY <2>1 DEF BeatnikState
<1>11. CASE Beatnik!Start
  <2>1. /\ pc = "start" /\ pc' = "idle" /\ init_state' = "ok" /\ due' = until
        /\ UNCHANGED <<handler, request>>
    BY <1>11 DEF Beatnik!Start, Beatnik!LastStep
  <2>2. /\ dev'.hasty = dev.hasty /\ dev'.done = dev.done /\ dev'.isr = dev.isr
        /\ dev.alarm_timer_no = 3 => dev'.running
    BY <1>11, BeatnikTyped, BeatnikStart
  <2>3. ~dev.hasty => dev.alarm_timer_no = 3
    BY <2>1 DEF BeatnikState, BeatnikStatics
  <2>4. QED BY <1>1, <2>1, <2>2, <2>3 DEF BeatnikState
<1>12. CASE Beatnik!Interrupt(dev.isr)
  <2>1. /\ pc = "idle" /\ request /\ pc' = "ack"
        /\ UNCHANGED <<init_state, handler, request, due, dev>>
    BY <1>12 DEF Beatnik!Interrupt
  <2>2. QED BY <2>1 DEF BeatnikState
<1>13. CASE Beatnik!IntAck
  <2>1. /\ pc = "ack" /\ pc' = "handler" /\ request' = FALSE
        /\ UNCHANGED <<init_state, handler, due, dev>>
    BY <1>13 DEF Beatnik!IntAck
  <2>2. QED BY <2>1 DEF BeatnikState
<1>14. CASE UNCHANGED vars
  BY <1>14 DEF vars, initVars, BeatnikState
<1>15. QED
  BY <1>2, <1>3, <1>4, <1>5, <1>6, <1>7, <1>8, <1>9, <1>10, <1>11, <1>12, <1>13, <1>14
  DEF Beatnik!Next

\* A step does not make alm_init hasty unless it is the hasty one.
LEMMA BeatnikHasty ==
  ASSUME BeatnikTyped, BeatnikState, [Beatnik!Next]_vars, ~dev'.hasty
  PROVE  ~dev.hasty
<1>1. dev \in BeatnikRegisters
  BY DEF BeatnikTyped
<1>2. CASE Beatnik!Expire \/ Beatnik!Tick \/ Beatnik!EnableInt
  BY <1>1, <1>2 DEF Beatnik!Expire, Beatnik!Tick, Beatnik!EnableInt, BeatnikRegisters
<1>3. CASE Beatnik!FirstThread
  BY <1>1, <1>3 DEF Beatnik!FirstThread, Beatnik!FirstStamp, Beatnik!WriteNumber, Beatnik!WriteRate,
     Beatnik!WriteMax, BeatnikRegisters
<1>4. CASE Beatnik!Start
  BY <1>4, BeatnikStart
<1>5. CASE Beatnik!TimerInit
  BY <1>5 DEF Beatnik!TimerInit, Beatnik!InitStep, BeatnikState
<1>6. CASE \/ Beatnik!CallInit("timer_init") \/ Beatnik!CreateMutex \/ Beatnik!Installed
           \/ Beatnik!CallSetup(Beatnik!timer_get_stamp, Beatnik!timer_get_max_delay, "start")
           \/ Beatnik!Interrupt(dev.isr) \/ Beatnik!IntAck \/ UNCHANGED vars
  BY <1>6 DEF Beatnik!CallInit, Beatnik!CreateMutex, Beatnik!Installed, Beatnik!CallSetup,
     Beatnik!Interrupt, Beatnik!IntAck, vars
<1>7. QED BY <1>2, <1>3, <1>4, <1>5, <1>6 DEF Beatnik!Next

\* ... and keeps the due date.
\* A delay of n microseconds takes n times the truncated rate of the timer, which is
\* at least n times the truncated rate of the time base.
LEMMA BeatnikTimingNext ==
  ASSUME BeatnikTyped, BeatnikStatics, BeatnikState, BeatnikTiming, [Beatnik!Next]_vars
  PROVE  BeatnikTiming'
<1> USE DEF PortTyped, Beatnik!initVars, Beatnik!Off, Off
<1> DEFINE U == BeatnikUnit
           A == Beatnik!alarm_ticks_per_usec
           m == Beatnik!AlarmMax
           most == Limited(MAX_WAIT, m)
           slack == Slack + BeatnikAdds
<1>0. /\ dev \in BeatnikRegisters /\ dev' \in BeatnikRegisters
      /\ ticks \in Nat /\ delay \in Nat /\ until \in Nat /\ due \in Nat \cup {Off}
      /\ spent \in Nat /\ dev.count \in Nat
  BY BeatnikTypedNext DEF BeatnikTyped, BeatnikRegisters
<1>1. /\ U \in Nat /\ U > 0 /\ A \in Nat /\ U <= A /\ m \in Nat /\ MIN_WAIT <= m
      /\ Slack \in Nat /\ MIN_WAIT \in Nat /\ MAX_WAIT \in Nat
  BY BeatnikRates, PortAssumption
<1>2. most \in Nat /\ BeatnikAdds = most * (A - U) /\ BeatnikAdds \in Nat
  <2>1. most \in Nat
    BY <1>1, LimitedDelay
  <2>2. BeatnikAdds = most * (A - U)
    BY DEF BeatnikAdds
  <2> HIDE DEF most, A, U, m
  <2>3. QED BY <1>1, <2>1, <2>2
<1>3. /\ UNCHANGED <<BeatnikUnit, Beatnik!alarm_ticks_per_usec, Beatnik!AlarmMax, BeatnikAdds>>
  BY DEF BeatnikUnit, Beatnik!alarm_ticks_per_usec, Beatnik!AlarmMax, BeatnikAdds,
     Beatnik!TicksPerBase
<1> SUFFICES ASSUME ~dev'.hasty PROVE BeatnikTiming'
  BY DEF BeatnikTiming
<1>4. ~dev.hasty /\ BeatnikState
  BY BeatnikHasty
<1> HIDE DEF U, A, m, most
<1>5. CASE Beatnik!Expire
  <2>1. due' = Off /\ UNCHANGED <<ticks, pc, delay, until, spent>>
    BY <1>5 DEF Beatnik!Expire
  <2>2. QED BY <1>3, <1>4, <2>1 DEF BeatnikTiming, SetupAsked
<1>6. CASE ~Beatnik!Expired /\ Beatnik!Tick
  <2>1. /\ ticks' = ticks + 1 /\ UNCHANGED <<pc, delay, until, due>>
        /\ pc = "start" => spent' = spent + 1 /\ spent < Slack
        /\ dev'.count = IF dev.running THEN dev.count - 1 ELSE dev.count
    BY <1>0, <1>6 DEF Beatnik!Tick, Beatnik!Pass, Beatnik!Pressed, Beatnik!SettingUp, BeatnikRegisters
  <2>2. ASSUME pc = "start" PROVE SetupAsked(BeatnikUnit)'
    <3>1. SetupAsked(U) /\ spent' = spent + 1 /\ spent < Slack /\ ticks' = ticks + 1
        /\ UNCHANGED <<delay, until>>
      BY <1>4, <2>1, <2>2 DEF BeatnikTiming, U
    <3>2. U' = U
      BY <1>3 DEF U
    <3>3. SetupAsked(U)'
      BY <1>0, <1>1, <3>1, <3>2 DEF SetupAsked
    <3>4. QED BY <3>3 DEF U, SetupAsked
  <2>3. ASSUME due # Off PROVE ticks' + dev'.count = ticks + dev.count
    <3>1. dev.running
      BY <1>4, <2>3 DEF BeatnikState
    <3>2. QED BY <1>0, <2>1, <3>1
  <2>4. QED BY <1>3, <1>4, <2>1, <2>2, <2>3 DEF BeatnikTiming
<1>7. CASE Beatnik!FirstThread
  <2>1. UNCHANGED <<ticks, pc, delay, until, spent, due>>
    BY <1>7 DEF Beatnik!FirstThread
  <2>2. dev'.count = dev.count
    BY <1>0, <1>7 DEF Beatnik!FirstThread, Beatnik!FirstStamp, Beatnik!WriteNumber,
       Beatnik!WriteRate, Beatnik!WriteMax, BeatnikRegisters
  <2>3. QED BY <1>3, <1>4, <2>1, <2>2 DEF BeatnikTiming, SetupAsked
<1>8. CASE \/ Beatnik!CallInit("timer_init") \/ Beatnik!CreateMutex \/ Beatnik!Installed
  <2>1. pc' # "start" /\ UNCHANGED <<ticks, due, dev>>
    BY <1>8 DEF Beatnik!CallInit, Beatnik!CreateMutex, Beatnik!Installed, Beatnik!InitStep
  <2>2. QED BY <1>3, <1>4, <2>1 DEF BeatnikTiming
<1>9. CASE Beatnik!TimerInit \/ Beatnik!EnableInt
  <2>1. pc \in {"timer_init", "enable"} /\ pc' # "start" /\ due' = due
    BY <1>9 DEF Beatnik!TimerInit, Beatnik!EnableInt, Beatnik!InitStep
  <2>2. due = Off
    BY <1>4, <2>1 DEF BeatnikState, Initialising
  <2>3. QED BY <2>1, <2>2 DEF BeatnikTiming
<1>10. CASE Beatnik!CallSetup(Beatnik!timer_get_stamp, Beatnik!timer_get_max_delay, "start")
  <2>1. PICK a \in Int : a <= MAX_WAIT /\ delay' = Beatnik!Limited(a, Beatnik!timer_get_max_delay)
    BY <1>0, <1>1, <1>10 DEF Beatnik!CallSetup, Beatnik!Asked
  <2>2. /\ pc \in {"init", "handler"} \/ (pc = "idle" /\ init_state = "ok")
        /\ until' = Beatnik!timer_get_stamp + delay' /\ pc' = "start" /\ spent' = 0
        /\ UNCHANGED <<ticks, due, dev>>
    BY <1>0, <1>10 DEF Beatnik!CallSetup
  <2>3. dev.alarm_max = Beatnik!AlarmMax
    BY <1>4, <2>2 DEF BeatnikState, Initialising, BeatnikStatics
  <2>4. /\ delay' \in Nat /\ MIN_WAIT <= delay' /\ delay' <= Beatnik!AlarmMax
        /\ delay' <= Limited(MAX_WAIT, Beatnik!AlarmMax)
    BY <1>0, <2>1, <2>3, BeatnikDelay
  <2>5. Beatnik!timer_get_stamp = ticks \div U
    BY <1>0, BeatnikRates DEF Beatnik!timer_get_stamp, U
  <2>6. SetupAsked(U)'
    <3>1. U' = U
      BY <1>3 DEF U
    <3>2. QED BY <1>0, <1>1, <2>2, <2>4, <2>5, <3>1, AskedNow DEF SetupAsked
  <2>7. SetupAsked(BeatnikUnit)'
    BY <2>6 DEF U, SetupAsked
  <2>8. delay' <= Beatnik!AlarmMax' /\ delay' <= Limited(MAX_WAIT, Beatnik!AlarmMax)'
    BY <1>3, <2>4 DEF Limited, Least
  <2>9. QED BY <1>3, <1>4, <2>2, <2>7, <2>8 DEF BeatnikTiming
<1>11. CASE Beatnik!Start
  <2>1. pc = "start" /\ pc' = "idle" /\ due' = until /\ ticks' = ticks
    BY <1>11 DEF Beatnik!Start, Beatnik!LastStep
  <2>2. SetupAsked(U) /\ delay <= m /\ delay <= most
    BY <1>4, <2>1 DEF BeatnikTiming, U, m, most
  <2>3. dev.done = "yes"
    BY <1>4, <2>1 DEF BeatnikState
  <2>4. dev'.count = delay * A
    BY <1>11, <2>2, <2>3, BeatnikStart DEF BeatnikStatics, A, m
  <2> DEFINE l == delay * U
             v == until * U
             z == (until + 1) * U
             k == delay * (A - U)
  <2>5. v <= ticks + l /\ ticks + l < z + spent /\ spent <= Slack
    BY <1>0, <1>1, <2>2, DelayEnds DEF SetupAsked
  <2>6. delay * A = l + k /\ l \in Nat /\ k \in Nat /\ z \in Nat /\ v \in Nat
    BY <1>0, <1>1
  <2>7. k <= BeatnikAdds
    BY <1>0, <1>1, <1>2, <2>2
  <2> HIDE DEF l, v, z, k
  <2>8. v <= ticks + (l + k)
    BY <1>0, <2>5, <2>6
  <2>9. ticks + (l + k) < z + (Slack + BeatnikAdds)
    BY <1>0, <1>1, <1>2, <2>5, <2>6, <2>7
  <2>10. QED BY <1>3, <2>1, <2>4, <2>6, <2>8, <2>9 DEF BeatnikTiming, v, z, U
<1>12. CASE Beatnik!Interrupt(dev.isr) \/ Beatnik!IntAck
  <2>1. pc' # "start" /\ UNCHANGED <<ticks, due, dev>>
    BY <1>12 DEF Beatnik!Interrupt, Beatnik!IntAck
  <2>2. QED BY <1>3, <1>4, <2>1 DEF BeatnikTiming
<1>13. CASE UNCHANGED vars
  BY <1>3, <1>4, <1>13 DEF vars, initVars, BeatnikTiming, SetupAsked
<1>14. QED
  BY <1>5, <1>6, <1>7, <1>8, <1>9, <1>10, <1>11, <1>12, <1>13 DEF Beatnik!Next

\* Hence it is a step of OneShot, or none.
LEMMA BeatnikContract ==
  ASSUME BeatnikTyped, BeatnikStatics, BeatnikState, BeatnikTiming, ~dev.hasty, [Beatnik!Next]_vars
  PROVE  [BeatnikShot!Next]_<<BeatnikShot!vars>>
<1> USE DEF PortTyped, Beatnik!initVars, Beatnik!Off, Off, BeatnikShot!Off
<1> DEFINE U == BeatnikUnit
           now_ == ticks \div U
           n == Slack + BeatnikAdds
<1>1. U \in Nat /\ U > 0 /\ n \in Nat
  <2>1. /\ BeatnikUnit \in Nat /\ BeatnikUnit > 0 /\ Beatnik!alarm_ticks_per_usec \in Nat
        /\ BeatnikUnit <= Beatnik!alarm_ticks_per_usec
        /\ Limited(MAX_WAIT, Beatnik!AlarmMax) \in Nat /\ Slack \in Nat
    BY BeatnikRates, PortAssumption, LimitedDelay
  <2>2. BeatnikAdds \in Nat
    <3> DEFINE l == Limited(MAX_WAIT, Beatnik!AlarmMax)
               k == Beatnik!alarm_ticks_per_usec - BeatnikUnit
    <3>1. l \in Nat /\ k \in Nat
      BY <2>1
    <3> HIDE DEF l, k
    <3>2. l * k \in Nat
      BY <3>1
    <3>3. QED BY <3>2 DEF BeatnikAdds, l, k
  <2>3. QED BY <2>1, <2>2
<1>2. /\ Beatnik!timer_get_stamp = now_ /\ Beatnik!timer_get_stamp' = now_' /\ U' = U
  <2>1. ticks \in Nat /\ ticks' \in Nat
    BY BeatnikTypedNext DEF BeatnikTyped
  <2>2. U' = U
    BY DEF BeatnikUnit, Beatnik!TicksPerBase
  <2>3. \A t \in Nat :
          Beatnik!timer_timebase_to_usec(t \div Beatnik!TicksPerBase) = t \div U
    BY BeatnikRates
  <2>4. Beatnik!timer_get_stamp' = ticks' \div U
    <3>1. Beatnik!timer_get_stamp' =
            Beatnik!timer_timebase_to_usec(ticks' \div Beatnik!TicksPerBase)
      BY DEF Beatnik!timer_get_stamp, Beatnik!timer_timebase_to_usec, Beatnik!TicksPerBase
    <3>2. QED BY <2>1, <2>3, <3>1
  <2>5. Beatnik!timer_get_stamp = ticks \div U
    BY <2>1, <2>3 DEF Beatnik!timer_get_stamp
  <2>6. QED BY <2>2, <2>4, <2>5
<1>3. /\ ticks \in Nat /\ until \in Nat /\ due \in Nat \cup {Off} /\ dev.count \in Nat
      /\ request \in BOOLEAN
  BY DEF BeatnikTyped, BeatnikRegisters
<1>4. ASSUME due # Off
      PROVE  due \in Nat /\ due * U <= ticks + dev.count /\ ticks + dev.count < (due + 1) * U + n
             /\ dev.running
  BY <1>3, <1>4 DEF BeatnikTiming, BeatnikState
<1> HIDE DEF U, n
<1>5. CASE Beatnik!Expire
  <2>1. /\ dev.running /\ dev.count = 0 /\ due' = Off /\ ticks' = ticks
        /\ request' = (request \/ dev.isr)
    BY <1>5 DEF Beatnik!Expire, Beatnik!Expired
  <2>2. due # Off
    BY <2>1 DEF BeatnikState
  <2>3. init_state = "ok" /\ dev.isr = TRUE
    BY <2>2 DEF BeatnikState, Initialising, BeatnikTyped, BeatnikRegisters
  <2>4. request' = TRUE
    BY <1>3, <2>1, <2>3, Zenon
  <2>5. due \in Nat /\ due * U <= ticks
    <3>1. due * U \in Nat
      BY <1>1, <1>4, <2>2
    <3>2. QED BY <1>3, <1>4, <2>1, <2>2, <3>1
  <2>6. due <= now_
    BY <1>1, <1>3, <2>5, StampReached
  <2> HIDE DEF now_
  <2>7. BeatnikShot!Expire
    BY <1>2, <2>1, <2>2, <2>4, <2>6 DEF BeatnikShot!Expire, now_
  <2>8. QED BY <2>7 DEF BeatnikShot!Next
<1>6. CASE ~Beatnik!Expired /\ Beatnik!Tick
  <2>1. ticks' = ticks + 1 /\ UNCHANGED <<due, request>>
    BY <1>6 DEF Beatnik!Tick, Beatnik!Pass
  <2>2. CASE now_' = now_
    <3>1. UNCHANGED BeatnikShot!vars
      BY <1>2, <2>1, <2>2 DEF BeatnikShot!vars
    <3>2. QED BY <3>1
  <2>3. CASE now_' # now_
    <3>1. now_' = now_ + 1
      BY <1>1, <1>2, <1>3, <2>1, <2>3, StampOf
    <3>2. ASSUME due # Off PROVE now_ < due + RoundedUp(n, U)
      <4>1. due \in Nat /\ dev.count > 0
        BY <1>3, <1>4, <1>6, <3>2 DEF Beatnik!Expired
      <4> DEFINE E == ticks + dev.count
      <4>2. E \in Nat /\ ticks < E /\ E < (due + 1) * U + n
        BY <1>3, <1>4, <3>2, <4>1
      <4>3. (ticks + 1) \div U # ticks \div U
        BY <1>2, <1>3, <2>1, <2>3
      <4> HIDE DEF E
      <4>4. QED BY <1>1, <1>3, <4>1, <4>2, <4>3, InTime
    <3> HIDE DEF now_
    <3>3. BeatnikShot!Tick
      BY <1>2, <2>1, <3>1, <3>2 DEF BeatnikShot!Tick, U, n
    <3>4. QED BY <3>3 DEF BeatnikShot!Next
  <2>4. QED BY <2>2, <2>3
<1>7. CASE \/ Beatnik!FirstThread \/ Beatnik!CallInit("timer_init") \/ Beatnik!TimerInit
           \/ Beatnik!CreateMutex \/ Beatnik!Installed \/ Beatnik!EnableInt
           \/ Beatnik!CallSetup(Beatnik!timer_get_stamp, Beatnik!timer_get_max_delay, "start")
           \/ Beatnik!Interrupt(dev.isr) \/ UNCHANGED vars
  <2>1. UNCHANGED <<ticks, due, request>>
    BY <1>7 DEF Beatnik!FirstThread, Beatnik!CallInit, Beatnik!TimerInit, Beatnik!CreateMutex,
       Beatnik!Installed, Beatnik!EnableInt, Beatnik!InitStep, Beatnik!CallSetup,
       Beatnik!Interrupt, vars
  <2>2. UNCHANGED BeatnikShot!vars
    BY <1>2, <2>1 DEF BeatnikShot!vars
  <2>3. QED BY <2>2
<1>8. CASE Beatnik!Start
  <2>1. due' \in Nat /\ UNCHANGED <<ticks, request>>
    BY <1>3, <1>8 DEF Beatnik!Start, Beatnik!LastStep
  <2>2. BeatnikShot!Setup
    BY <1>2, <2>1 DEF BeatnikShot!Setup
  <2>3. QED BY <2>2 DEF BeatnikShot!Next
<1>9. CASE Beatnik!IntAck
  <2>1. BeatnikShot!Ack
    BY <1>2, <1>9 DEF Beatnik!IntAck, BeatnikShot!Ack
  <2>2. QED BY <2>1 DEF BeatnikShot!Next
<1>10. QED BY <1>5, <1>6, <1>7, <1>8, <1>9 DEF Beatnik!Next
-----------------------------------------------------------------------------
(* TimerLinux. *)

LinuxRegisters == [created : BOOLEAN, armed : BOOLEAN, left : Nat, threads : Nat]

LinuxTyped ==
  /\ PortTyped
  /\ dev \in LinuxRegisters
  /\ init_state \in {"none", "failed", "ok"}
  /\ pc \in {"idle", "mutex", "install", "enable", "init", "ack", "handler", "settime"}

\* A thread waits for the lock if, and only if, there is a request.
LinuxState ==
  /\ Initialising({"mutex", "install", "enable", "init"}, {"settime"}, TRUE)
  /\ request <=> dev.threads > 0
  /\ pc = "ack" => request
  /\ dev.armed => due # Off
  /\ dev.created /\ due # Off => dev.armed

\* The delay is never longer than it should be, because the rest of the
\* microseconds is taken for nanoseconds.
LinuxTiming ==
  /\ pc = "settime" => SetupAsked(NSECS_PER_USEC)
  /\ dev.created /\ due # Off => ticks + dev.left < (due + 1) * NSECS_PER_USEC + Slack

\* it_value is not zero, nor longer than the delay.
LEMMA LinuxItValue ==
  ASSUME NEW l \in Nat, l > 0, NEW U \in Nat, U > 0, NEW N \in Nat, N > 0
  PROVE  LET v == (l \div U) * U * N + (l % U)
         IN  v \in Nat /\ v > 0 /\ v <= l * N
<1> DEFINE q == l \div U
           r == l % U
           p == q * U
<1>1. q \in Nat /\ r \in Nat /\ l = p + r /\ p \in Nat
  OBVIOUS
<1> HIDE DEF p, q, r
<1>2. l * N = p * N + r * N /\ r <= r * N /\ p <= p * N /\ p * N \in Nat
  BY <1>1
<1>3. p * N + r \in Nat /\ p * N + r > 0 /\ p * N + r <= l * N
  BY <1>1, <1>2
<1>4. QED BY <1>3 DEF p, q, r

\* timer_settime arms the timer for no longer than the delay, if there is a timer.
LEMMA LinuxSetTime ==
  ASSUME LinuxTyped, LinuxTiming, Linux!SetTime
  PROVE  /\ dev' \in LinuxRegisters
         /\ dev'.created = dev.created /\ dev'.threads = dev.threads
         /\ IF dev.created THEN dev'.armed /\ dev'.left <= delay * NSECS_PER_USEC
                           ELSE dev' = dev
<1>1. delay \in Nat /\ delay > 0 /\ dev \in LinuxRegisters
  BY PortAssumption DEF LinuxTyped, PortTyped, LinuxTiming, SetupAsked, Linux!SetTime,
     Linux!LastStep
<1>2. LinuxUsecs \in Nat /\ LinuxUsecs > 0 /\ NSECS_PER_USEC \in Nat /\ NSECS_PER_USEC > 0
  BY PartsAssumption
<1> DEFINE v == Linux!ItValue
<1>3. v \in Nat /\ v > 0 /\ v <= delay * NSECS_PER_USEC
  BY <1>1, <1>2, LinuxItValue DEF Linux!ItValue
<1>4. dev' = IF dev.created THEN [dev EXCEPT !.armed = v > 0, !.left = v] ELSE dev
  BY DEF Linux!SetTime
<1> HIDE DEF v
<1>5. (v > 0) = TRUE
  BY <1>3
<1>6. dev' = IF dev.created THEN [dev EXCEPT !.armed = TRUE, !.left = v] ELSE dev
  BY <1>4, <1>5
<1>7. QED BY <1>1, <1>3, <1>6 DEF LinuxRegisters

\* The port's invariant holds when the library has been loaded.
LEMMA LinuxInit == Linux!Init => LinuxTyped /\ LinuxState /\ LinuxTiming
<1> SUFFICES ASSUME Linux!Init PROVE LinuxTyped /\ LinuxState /\ LinuxTiming
  OBVIOUS
<1>1. /\ ticks = 1 /\ request = FALSE /\ pc = "idle" /\ delay = 0 /\ until = 0 /\ due = Off
      /\ spent = 0 /\ init_state = "none" /\ handler = FALSE
      /\ dev = [created |-> FALSE, armed |-> FALSE, left |-> 0, threads |-> 0]
  BY DEF Linux!Init, Linux!PortInit, Linux!Off, Off
<1>2. LinuxTyped
  <2>1. PortTyped
    BY PortInitTyped DEF Linux!Init, Linux!PortInit, PortInit, Linux!Off, Off
  <2>2. dev \in LinuxRegisters
    BY <1>1 DEF LinuxRegisters
  <2>3. QED BY <1>1, <2>1, <2>2 DEF LinuxTyped
<1>3. LinuxState /\ LinuxTiming
  <2>1. ~(dev.threads > 0) /\ dev.armed = FALSE /\ dev.created = FALSE
    BY <1>1
  <2>2. QED BY <1>1, <2>1 DEF LinuxState, LinuxTiming, Initialising, Off
<1>4. QED BY <1>2, <1>3

\* timer_get_max_delay is no limit on Linux.
LEMMA LinuxDelay ==
  ASSUME NEW a \in Int
  PROVE  LET n == Linux!Limited(a, Linux!timer_get_max_delay) IN n \in Nat /\ MIN_WAIT <= n
<1>1. MAX_WAIT + 1 \in Nat /\ MIN_WAIT <= MAX_WAIT + 1
  BY PortAssumption
<1>2. Linux!Limited(a, Linux!timer_get_max_delay) = Limited(a, MAX_WAIT + 1)
  BY DEF Linux!timer_get_max_delay, Linux!ULONG_MAX, Linux!Limited, Limited, Linux!Least, Least
<1>3. QED BY <1>1, <1>2, LimitedDelay

\* Every step of the port keeps its registers typed, ...
LEMMA LinuxTypedNext ==
  ASSUME LinuxTyped, LinuxState, LinuxTiming, [Linux!Next]_vars
  PROVE  LinuxTyped'
<1> USE DEF LinuxTyped, PortTyped, Linux!initVars, Linux!Off, Off
<1>1. Slack \in Nat /\ MIN_WAIT \in Nat /\ MAX_WAIT \in Nat
  BY PortAssumption
<1>2. CASE Linux!Expire
  <2>1. dev' \in LinuxRegisters
    <3>1. \A r \in LinuxRegisters : r.threads + 1 \in Nat
      BY DEF LinuxRegisters
    <3>2. \A r \in LinuxRegisters, n \in Nat :
            [r EXCEPT !.armed = FALSE, !.threads = n] \in LinuxRegisters
      BY DEF LinuxRegisters
    <3>3. dev' = [dev EXCEPT !.armed = FALSE, !.threads = dev.threads + 1]
      BY <1>2 DEF Linux!Expire, LinuxRegisters
    <3>4. QED BY <3>1, <3>2, <3>3
  <2>2. QED BY <1>2, <2>1 DEF Linux!Expire
<1>3. CASE ~Linux!Expired /\ Linux!Tick
  BY <1>1, <1>3 DEF Linux!Expired, Linux!Tick, Linux!Pass, LinuxRegisters
<1>4. CASE Linux!CallInit("mutex")
  BY <1>1, <1>4 DEF Linux!CallInit
<1>5. CASE Linux!CreateMutex \/ Linux!Installed
  <2>1. CASE Linux!CreateMutex
    BY <2>1 DEF Linux!CreateMutex, Linux!InitStep
  <2>2. CASE Linux!Installed
    BY <2>2 DEF Linux!Installed, Linux!InitStep
  <2>3. QED BY <1>5, <2>1, <2>2
<1>6. CASE Linux!EnableInt
  BY <1>6 DEF Linux!EnableInt, Linux!InitStep, LinuxRegisters
<1>7. CASE Linux!CallSetup(Linux!timer_get_stamp, Linux!timer_get_max_delay, "settime")
  <2>1. PICK a \in Int : delay' = Linux!Limited(a, Linux!timer_get_max_delay)
    BY <1>1, <1>7 DEF Linux!CallSetup, Linux!Asked
  <2>2. delay' \in Nat
    BY <2>1, LinuxDelay
  <2>3. Linux!timer_get_stamp \in Nat
    BY PartsAssumption, StampOf DEF Linux!timer_get_stamp
  <2>4. QED BY <1>1, <1>7, <2>2, <2>3 DEF Linux!CallSetup
<1>8. CASE Linux!SetTime
  <2>1. dev' \in LinuxRegisters
    BY <1>8, LinuxSetTime
  <2>2. QED BY <1>8, <2>1 DEF Linux!SetTime, Linux!LastStep
<1>9. CASE Linux!Enter
  <2>1. dev.threads > 0
    BY <1>9 DEF Linux!Enter, LinuxState
  <2>2. dev' \in LinuxRegisters
    BY <1>9, <2>1 DEF Linux!Enter, LinuxRegisters
  <2>3. request' \in BOOLEAN
    BY <1>9 DEF Linux!Enter
  <2>4. QED BY <1>9, <2>2, <2>3 DEF Linux!Enter
<1>10. CASE Linux!Interrupt(TRUE) \/ UNCHANGED vars
  BY <1>10 DEF Linux!Interrupt, vars, initVars
<1>11. QED BY <1>2, <1>3, <1>4, <1>5, <1>6, <1>7, <1>8, <1>9, <1>10 DEF Linux!Next

\* ... keeps device and driver in step, ...
LEMMA LinuxStateNext ==
  ASSUME LinuxTyped, LinuxState, LinuxTiming, [Linux!Next]_vars
  PROVE  LinuxState'
<1> USE DEF LinuxTyped, PortTyped, LinuxRegisters, LinuxState, Initialising, Linux!initVars,
       Linux!Off, Off
<1>1. until # Off
  OBVIOUS
<1>2. CASE Linux!Expire
  <2>1. /\ dev'.created = dev.created /\ dev'.armed = FALSE /\ dev'.threads > 0
        /\ request' = TRUE /\ due' = Off /\ dev.armed
        /\ UNCHANGED <<pc, init_state, handler>>
    BY <1>2 DEF Linux!Expire, Linux!Expired
  <2>2. QED BY <2>1
<1>3. CASE ~Linux!Expired /\ Linux!Tick
  <2>1. /\ dev'.created = dev.created /\ dev'.armed = dev.armed /\ dev'.threads = dev.threads
        /\ UNCHANGED <<pc, init_state, handler, request, due>>
    BY <1>3 DEF Linux!Tick, Linux!Pass
  <2>2. QED BY <2>1
<1>4. CASE Linux!CallInit("mutex")
  BY <1>4 DEF Linux!CallInit
<1>5. CASE Linux!CreateMutex
  BY <1>5 DEF Linux!CreateMutex, Linux!InitStep
<1>6. CASE Linux!Installed
  BY <1>6 DEF Linux!Installed, Linux!InitStep
<1>7. CASE Linux!EnableInt
  <2>1. /\ dev'.armed = dev.armed /\ dev'.threads = dev.threads
        /\ pc = "enable" /\ pc' = "init" /\ UNCHANGED <<init_state, handler, request, due>>
    BY <1>7 DEF Linux!EnableInt, Linux!InitStep
  <2>2. QED BY <2>1
<1>8. CASE Linux!CallSetup(Linux!timer_get_stamp, Linux!timer_get_max_delay, "settime")
  BY <1>8 DEF Linux!CallSetup
<1>9. CASE Linux!SetTime
  <2>1. /\ dev'.created = dev.created /\ dev'.threads = dev.threads
        /\ dev.created => dev'.armed
        /\ due' = until /\ pc = "settime" /\ pc' = "idle" /\ init_state' = "ok"
        /\ UNCHANGED <<request, handler>>
    BY <1>9, LinuxSetTime DEF Linux!SetTime, Linux!LastStep
  <2>2. QED BY <1>1, <2>1
<1>10. CASE Linux!Enter
  <2>1. /\ dev'.created = dev.created /\ dev'.armed = dev.armed
        /\ dev'.threads = dev.threads - 1
        /\ pc = "ack" /\ pc' = "handler" /\ UNCHANGED <<init_state, handler, due>>
        /\ request' <=> dev.threads > 1
    BY <1>10 DEF Linux!Enter
  <2>2. request' <=> dev'.threads > 0
    BY <2>1
  <2>3. QED BY <2>1, <2>2
<1>11. CASE Linux!Interrupt(TRUE)
  BY <1>11 DEF Linux!Interrupt
<1>12. CASE UNCHANGED vars
  BY <1>12 DEF vars, initVars
<1>13. QED
  BY <1>2, <1>3, <1>4, <1>5, <1>6, <1>7, <1>8, <1>9, <1>10, <1>11, <1>12 DEF Linux!Next

\* ... and keeps the due date.
\* What is left of the timer and what has passed are never more than the delay.
LEMMA LinuxTimingNext ==
  ASSUME LinuxTyped, LinuxState, LinuxTiming, [Linux!Next]_vars
  PROVE  LinuxTiming'
<1> USE DEF PortTyped, LinuxRegisters, Linux!initVars, Linux!Off, Off
<1> DEFINE N == NSECS_PER_USEC
<1>1. N \in Nat /\ N > 0 /\ Slack \in Nat /\ MIN_WAIT \in Nat /\ MAX_WAIT \in Nat
  BY PartsAssumption, PortAssumption
<1>2. /\ ticks \in Nat /\ delay \in Nat /\ until \in Nat /\ due \in Nat \cup {Off}
      /\ spent \in Nat /\ dev.left \in Nat
  BY DEF LinuxTyped
<1>3. CASE Linux!Expire
  <2>1. due' = Off /\ UNCHANGED <<ticks, pc, delay, until, spent>>
    BY <1>3 DEF Linux!Expire
  <2>2. QED BY <2>1 DEF LinuxTiming, SetupAsked
<1>4. CASE ~Linux!Expired /\ Linux!Tick
  <2>1. /\ ticks' = ticks + 1 /\ UNCHANGED <<pc, delay, until, due>>
        /\ pc = "settime" => spent' = spent + 1 /\ spent < Slack
        /\ dev'.created = dev.created
        /\ dev'.left = IF dev.armed THEN dev.left - 1 ELSE dev.left
    BY <1>4 DEF Linux!Tick, Linux!Pass, Linux!Pressed, Linux!SettingUp, LinuxTyped
  <2>2. pc = "settime" => SetupAsked(NSECS_PER_USEC)'
    BY <1>1, <1>2, <2>1 DEF LinuxTiming, SetupAsked
  <2>3. ASSUME dev.created, due # Off PROVE ticks' + dev'.left = ticks + dev.left
    <3>1. dev.armed
      BY <2>3 DEF LinuxState
    <3>2. QED BY <1>2, <2>1, <3>1
  <2>4. QED BY <2>1, <2>2, <2>3 DEF LinuxTiming
<1>5. CASE Linux!CallInit("mutex") \/ Linux!CreateMutex \/ Linux!Installed
  <2>1. pc' # "settime" /\ UNCHANGED <<ticks, due, dev>>
    BY <1>5 DEF Linux!CallInit, Linux!CreateMutex, Linux!Installed, Linux!InitStep
  <2>2. QED BY <2>1 DEF LinuxTiming
<1>6. CASE Linux!EnableInt
  <2>1. pc = "enable" /\ pc' = "init" /\ due' = due
    BY <1>6 DEF Linux!EnableInt, Linux!InitStep
  <2>2. due = Off
    BY <2>1 DEF LinuxState, Initialising
  <2>3. QED BY <2>1, <2>2 DEF LinuxTiming
<1>7. CASE Linux!CallSetup(Linux!timer_get_stamp, Linux!timer_get_max_delay, "settime")
  <2>1. PICK a \in Int : delay' = Linux!Limited(a, Linux!timer_get_max_delay)
    BY <1>1, <1>2, <1>7 DEF Linux!CallSetup, Linux!Asked
  <2>2. delay' \in Nat /\ MIN_WAIT <= delay'
    BY <2>1, LinuxDelay
  <2>3. /\ until' = ticks \div NSECS_PER_USEC + delay' /\ pc' = "settime" /\ spent' = 0
        /\ UNCHANGED <<ticks, due, dev>>
    BY <1>2, <1>7 DEF Linux!CallSetup, Linux!timer_get_stamp
  <2>4. SetupAsked(NSECS_PER_USEC)'
    BY <1>1, <1>2, <2>2, <2>3, AskedNow DEF SetupAsked
  <2>5. QED BY <2>3, <2>4 DEF LinuxTiming
<1>8. CASE Linux!SetTime
  <2>1. pc = "settime" /\ pc' = "idle" /\ due' = until /\ ticks' = ticks
    BY <1>8 DEF Linux!SetTime, Linux!LastStep
  <2>2. SetupAsked(N)
    BY <2>1 DEF LinuxTiming
  <2> DEFINE l == delay * N
             z == (until + 1) * N
  <2>3. ticks + l < z + spent /\ spent <= Slack
    BY <1>1, <1>2, <2>2, DelayEnds DEF SetupAsked
  <2>4. l \in Nat /\ z \in Nat
    BY <1>1, <1>2
  <2>5. /\ dev'.created = dev.created /\ dev' \in LinuxRegisters
        /\ dev.created => dev'.left <= l
    BY <1>8, LinuxSetTime
  <2> HIDE DEF l, z
  <2>6. PICK r \in Nat : r = dev'.left
    BY <2>5
  <2>7. r <= l => ticks + r < z + Slack
    BY <1>1, <1>2, <2>3, <2>4
  <2>8. QED BY <2>1, <2>5, <2>6, <2>7 DEF LinuxTiming, z
<1>9. CASE Linux!Enter
  <2>1. pc' = "handler" /\ UNCHANGED <<ticks, due, dev.created, dev.left>>
    BY <1>9 DEF Linux!Enter, LinuxTyped
  <2>2. QED BY <2>1 DEF LinuxTiming
<1>10. CASE Linux!Interrupt(TRUE)
  <2>1. pc' = "ack" /\ UNCHANGED <<ticks, due, dev>>
    BY <1>10 DEF Linux!Interrupt
  <2>2. QED BY <2>1 DEF LinuxTiming
<1>11. CASE UNCHANGED vars
  BY <1>11 DEF vars, initVars, LinuxTiming, SetupAsked
<1>12. QED
  BY <1>3, <1>4, <1>5, <1>6, <1>7, <1>8, <1>9, <1>10, <1>11 DEF Linux!Next

\* Hence it is a step of OneShot, or none.
LEMMA LinuxContract ==
  ASSUME LinuxTyped, LinuxState, LinuxTiming, ~Linux!Unnoticed, [Linux!Next]_vars
  PROVE  [LinuxShot!Next]_<<LinuxShot!vars>>
<1> USE DEF PortTyped, LinuxRegisters, Linux!initVars, Linux!Off, Off, LinuxShot!Off
<1> DEFINE N == NSECS_PER_USEC
           now_ == ticks \div N
<1>1. N \in Nat /\ N > 0 /\ Slack \in Nat
  BY PartsAssumption, PortAssumption
<1>2. Linux!timer_get_stamp = now_ /\ Linux!timer_get_stamp' = now_'
  BY DEF Linux!timer_get_stamp
<1>3. /\ ticks \in Nat /\ until \in Nat /\ due \in Nat \cup {Off} /\ dev.left \in Nat
      /\ request \in BOOLEAN
  BY DEF LinuxTyped
<1>4. due # Off => dev.created /\ dev.armed
  BY DEF LinuxState, Initialising, Linux!Unnoticed
<1>5. CASE Linux!Expire
  <2>1. /\ dev.armed /\ request' = TRUE /\ due' = Off /\ ticks' = ticks
    BY <1>5 DEF Linux!Expire, Linux!Expired
  <2>2. due # Off
    BY <2>1 DEF LinuxState
  <2>3. LinuxShot!Expire
    BY <1>2, <2>1, <2>2 DEF LinuxShot!Expire
  <2>4. QED BY <2>3 DEF LinuxShot!Next
<1>6. CASE ~Linux!Expired /\ Linux!Tick
  <2>1. ticks' = ticks + 1 /\ UNCHANGED <<due, request>>
    BY <1>6 DEF Linux!Tick, Linux!Pass
  <2>2. CASE now_' = now_
    <3>1. UNCHANGED LinuxShot!vars
      BY <1>2, <2>1, <2>2 DEF LinuxShot!vars
    <3>2. QED BY <3>1
  <2>3. CASE now_' # now_
    <3>1. now_' = now_ + 1
      BY <1>1, <1>3, <2>1, <2>3, StampOf
    <3>2. ASSUME due # Off PROVE now_ < due + RoundedUp(Slack, N)
      <4>1. due \in Nat /\ dev.left > 0
        BY <1>3, <1>4, <1>6, <3>2 DEF Linux!Expired
      <4> DEFINE E == ticks + dev.left
      <4>2. E \in Nat /\ ticks < E /\ E < (due + 1) * N + Slack
        BY <1>3, <1>4, <3>2, <4>1 DEF LinuxTiming
      <4>3. (ticks + 1) \div N # ticks \div N
        BY <1>3, <2>1, <2>3
      <4> HIDE DEF E
      <4>4. QED BY <1>1, <1>3, <4>1, <4>2, <4>3, InTime
    <3> HIDE DEF now_
    <3>3. LinuxShot!Tick
      BY <1>2, <2>1, <3>1, <3>2 DEF LinuxShot!Tick
    <3>4. QED BY <3>3 DEF LinuxShot!Next
  <2>4. QED BY <2>2, <2>3
<1>7. CASE \/ Linux!CallInit("mutex") \/ Linux!CreateMutex \/ Linux!Installed \/ Linux!EnableInt
           \/ Linux!CallSetup(Linux!timer_get_stamp, Linux!timer_get_max_delay, "settime")
           \/ Linux!Interrupt(TRUE) \/ UNCHANGED vars
  <2>1. UNCHANGED <<ticks, due, request>>
    BY <1>7 DEF Linux!CallInit, Linux!CreateMutex, Linux!Installed, Linux!EnableInt,
       Linux!InitStep, Linux!CallSetup, Linux!Interrupt, vars
  <2>2. UNCHANGED LinuxShot!vars
    BY <1>2, <2>1 DEF LinuxShot!vars
  <2>3. QED BY <2>2
<1>8. CASE Linux!SetTime
  <2>1. LinuxShot!Setup
    BY <1>2, <1>3, <1>8 DEF Linux!SetTime, Linux!LastStep, LinuxShot!Setup
  <2>2. QED BY <2>1 DEF LinuxShot!Next
<1>9. CASE Linux!Enter
  <2>1. request /\ request' \in BOOLEAN /\ UNCHANGED <<ticks, due>>
    BY <1>9 DEF Linux!Enter, LinuxState
  <2>2. CASE request'
    <3>1. request' = request
      BY <1>3, <2>1, <2>2
    <3>2. UNCHANGED LinuxShot!vars
      BY <1>2, <2>1, <3>1 DEF LinuxShot!vars
    <3>3. QED BY <3>2
  <2>3. CASE ~request'
    <3>1. LinuxShot!Ack
      BY <1>2, <2>1, <2>3 DEF LinuxShot!Ack
    <3>2. QED BY <3>1 DEF LinuxShot!Next
  <2>4. QED BY <2>2, <2>3
<1>10. QED BY <1>5, <1>6, <1>7, <1>8, <1>9 DEF Linux!Next
-----------------------------------------------------------------------------
(* The 64 bit division. *)

\* Powers of two, as the registers e and d are: one, or twice another.
LEMMA DivPow2 == Div!Pow2 = Pow2
BY DEF Div!Pow2, Pow2

Powers == {Pow2[n] : n \in Nat}

\* Halving such a register, as the loops of __udivdi3 do, leads to the next one below.
LEMMA PowersHalve ==
  ASSUME NEW p \in Powers
  PROVE  p \in Nat /\ p > 0 /\ (p = 1 \/ \E h \in Powers : p = 2 * h)
<1>1. PICK n \in Nat : p = Pow2[n]
  BY DEF Powers
<1>2. CASE n = 0
  BY <1>1, <1>2, Pow2Properties
<1>3. CASE n # 0
  <2>1. n - 1 \in Nat /\ (n - 1) + 1 = n
    BY <1>3
  <2>2. Pow2[n] = 2 * Pow2[n - 1]
    BY <2>1, Pow2Properties
  <2>3. Pow2[n - 1] \in Powers
    BY <2>1 DEF Powers
  <2>4. QED BY <1>1, <2>2, <2>3, Pow2Properties
<1>4. QED BY <1>2, <1>3

\* The highest bit, and the modulus of words.
LEMMA WordSize ==
  /\ Pow2[W - 1] \in Powers
  /\ Pow2[W] = 2 * Pow2[W - 1]
  /\ Pow2[W] \in Nat /\ Pow2[W - 1] \in Nat /\ Pow2[W - 1] > 0
<1>1. W - 1 \in Nat /\ (W - 1) + 1 = W
  BY PartsAssumption
<1>2. QED BY <1>1, Pow2Properties, PartsAssumption DEF Powers

DivTyped ==
  /\ dpc \in {"top", "shift", "subtract", "done"}
  /\ signed \in BOOLEAN /\ minus \in BOOLEAN
  /\ x0 \in Div!Word /\ y0 \in Div!Word
  /\ x \in Nat /\ y \in Nat /\ res \in Nat

\* X and Y are dividend and divisor.
Divided(X, Y) ==
  /\ dpc \in {"top", "shift"} => x = X /\ res = 0
  /\ dpc \in {"top", "shift", "subtract"} => d \in Powers /\ y = Y * d
  /\ dpc = "top" => d = 1
  /\ dpc \in {"top", "shift"} => e \in Powers /\ x < 2 * e /\ 2 * e <= Pow2[W]
  /\ dpc \in {"subtract", "done"} => x + Y * res = X
  /\ dpc = "subtract" => x < 2 * y \/ Y = 0
  /\ dpc \in {"shift", "subtract"} /\ Y = 0 => d = 1
  /\ dpc = "done" => x < Y \/ Y = 0

\* The divisions work on absolute values, which are words again; that of the smallest
\* number is the smallest number itself, read without a sign.
LEMMA ArgsAreWords ==
  ASSUME DivTyped
  PROVE  /\ Div!Dividend \in Nat /\ Div!Dividend < Pow2[W]
         /\ Div!Divisor \in Nat /\ Div!Divisor < Pow2[W]
         /\ Div!Divisor = 0 <=> y0 = 0
<1> DEFINE P == Pow2[W]
           H == Pow2[W - 1]
<1>1. P \in Nat /\ H \in Nat /\ H > 0 /\ P = 2 * H
  BY WordSize
<1>2. x0 \in 0..(P - 1) /\ y0 \in 0..(P - 1)
  BY DivPow2 DEF DivTyped, Div!Word
<1>3. /\ Div!Signed(x0) < 0 => x0 >= H
      /\ Div!Signed(y0) < 0 => y0 >= H
  BY <1>1, <1>2, DivPow2 DEF Div!Signed
<1>4. /\ Div!Minus(x0) = (P - x0) % P /\ Div!Minus(y0) = (P - y0) % P
  BY DivPow2 DEF Div!Minus
<1> HIDE DEF P, H
<1>5. /\ x0 >= H => (P - x0) % P = P - x0
      /\ y0 >= H => (P - y0) % P = P - y0
  BY <1>1, <1>2
<1>6. /\ Div!Dividend = x0 \/ (x0 >= H /\ Div!Dividend = P - x0)
      /\ Div!Divisor = y0 \/ (y0 >= H /\ Div!Divisor = P - y0)
  BY <1>3, <1>4, <1>5 DEF Div!Dividend, Div!Divisor
<1>7. QED BY <1>1, <1>2, <1>6 DEF P

\* The sign __divdi3 has chosen.
DivSigns == signed => (minus <=> ~((Div!Signed(x0) < 0) <=> (Div!Signed(y0) < 0)))

DivInv == DivTyped /\ DivSigns /\ Divided(Div!Dividend, Div!Divisor)

\* The two are the caller's.
LEMMA DivArgsSame ==
  ASSUME UNCHANGED <<signed, minus, x0, y0>>
  PROVE  Div!Dividend' = Div!Dividend /\ Div!Divisor' = Div!Divisor /\ (DivSigns => DivSigns')
BY DEF Div!Dividend, Div!Divisor, Div!Signed, Div!Minus, DivSigns

\* The first loop finds the highest bit of the dividend, and returns for zero.
LEMMA DivTop ==
  ASSUME DivTyped, NEW X, NEW Y, X \in Nat, Y \in Nat, Divided(X, Y), Div!Top
  PROVE  DivTyped' /\ Divided(X, Y)'
<1>1. /\ dpc = "top" /\ x \in Nat /\ x = X /\ res = 0 /\ d = 1 /\ d \in Powers /\ y = Y * d
      /\ e \in Powers /\ x < 2 * e /\ 2 * e <= Pow2[W] /\ Pow2[W] \in Nat
  BY WordSize DEF Div!Top, Divided, DivTyped
<1>2. UNCHANGED <<signed, minus, x0, y0, x, y, d, res>>
  BY DEF Div!Top, Div!args
<1>3. CASE x = 0
  <2>1. dpc' = "done"
    BY <1>3 DEF Div!Top
  <2>2. 0 < Y \/ Y = 0
    OBVIOUS
  <2>3. x + Y * res = X
    BY <1>1, <1>3
  <2>4. QED BY <1>1, <1>2, <1>3, <2>1, <2>2, <2>3 DEF DivTyped, Divided
<1>4. CASE x # 0 /\ x < e
  <2>1. dpc' = "top" /\ e' = e \div 2
    BY <1>1, <1>4 DEF Div!Top
  <2>2. PICK h \in Powers : e = 2 * h /\ h \in Nat
    BY <1>1, <1>4, PowersHalve
  <2>3. e' = h
    BY <2>1, <2>2
  <2>4. x < 2 * e' /\ 2 * e' <= Pow2[W]
    BY <1>1, <1>4, <2>2, <2>3
  <2>5. QED BY <1>1, <1>2, <2>1, <2>2, <2>3, <2>4 DEF DivTyped, Divided
<1>5. CASE x # 0 /\ ~(x < e)
  BY <1>1, <1>2, <1>5 DEF Div!Top, DivTyped, Divided
<1>6. QED BY <1>3, <1>4, <1>5

\* The second loop doubles the divisor until it reaches that bit; nothing is shifted out.
LEMMA DivShift ==
  ASSUME DivTyped, NEW X, NEW Y, X \in Nat, Y \in Nat, Divided(X, Y), Div!Shift
  PROVE  DivTyped' /\ Divided(X, Y)'
<1>1. /\ dpc = "shift" /\ x \in Nat /\ x = X /\ res = 0 /\ d \in Powers /\ y = Y * d /\ y \in Nat
      /\ e \in Powers /\ x < 2 * e /\ 2 * e <= Pow2[W] /\ Pow2[W] \in Nat
  BY WordSize DEF Div!Shift, Divided, DivTyped
<1>2. UNCHANGED <<signed, minus, x0, y0, x, e, res>>
  BY DEF Div!Shift, Div!args
<1>3. d \in Nat /\ d > 0 /\ e \in Nat /\ e > 0
  BY <1>1, PowersHalve
<1>4. CASE y > 0 /\ y < e
  <2>1. y' = (2 * y) % Pow2[W] /\ d' = (2 * d) % Pow2[W] /\ dpc' = dpc
    BY <1>4, DivPow2 DEF Div!Shift
  <2>2. Y > 0
    BY <1>1, <1>3, <1>4
  <2>3. d <= y
    BY <1>1, <1>3, <2>2
  <2>4. 2 * y < Pow2[W] /\ 2 * d < Pow2[W]
    BY <1>1, <1>3, <1>4, <2>3
  <2>5. y' = 2 * y /\ d' = 2 * d
    BY <1>1, <1>3, <2>1, <2>4
  <2>6. 2 * d \in Powers
    <3>1. PICK n \in Nat : d = Pow2[n]
      BY <1>1 DEF Powers
    <3>2. 2 * d = Pow2[n + 1] /\ n + 1 \in Nat
      BY <3>1, Pow2Properties
    <3>3. QED BY <3>2 DEF Powers
  <2>7. 2 * y = Y * (2 * d)
    BY <1>1, <1>3
  <2>8. DivTyped'
    BY <1>1, <1>2, <2>1, <2>5 DEF DivTyped
  <2>9. x' = X /\ res' = 0 /\ d' \in Powers /\ y' = Y * d'
    BY <1>1, <1>2, <2>5, <2>6, <2>7
  <2>10. QED BY <1>1, <1>2, <2>1, <2>2, <2>8, <2>9 DEF Divided
<1>5. CASE ~(y > 0 /\ y < e)
  <2>1. dpc' = "subtract" /\ UNCHANGED <<y, d>>
    BY <1>5 DEF Div!Shift
  <2>2. x + Y * res = X
    BY <1>1
  <2>3. x < 2 * y \/ Y = 0
    BY <1>1, <1>3, <1>5
  <2>4. Y = 0 => d = 1
    BY <1>1 DEF Divided
  <2>5. QED BY <1>1, <1>2, <2>1, <2>2, <2>3, <2>4 DEF DivTyped, Divided
<1>6. QED BY <1>4, <1>5

\* The third loop subtracts while it halves the divisor, down to the caller's; for a
\* divisor of zero it ends with the first pass.
LEMMA DivSubtract ==
  ASSUME DivTyped, NEW X \in Nat, NEW Y \in Nat, X < Pow2[W], Divided(X, Y), Div!Subtract
  PROVE  DivTyped' /\ Divided(X, Y)'
<1>1. /\ dpc = "subtract" /\ x \in Nat /\ x + Y * res = X /\ res \in Nat /\ y \in Nat
      /\ d \in Powers /\ y = Y * d /\ (x < 2 * y \/ Y = 0) /\ (Y = 0 => d = 1)
      /\ Pow2[W] \in Nat
  BY WordSize DEF Div!Subtract, Divided, DivTyped
<1>2. UNCHANGED <<signed, minus, x0, y0, e>>
  BY DEF Div!Subtract, Div!args
<1>3. d \in Nat /\ d > 0 /\ Pow2[W] > 0
  BY <1>1, PowersHalve, WordSize
<1>4. CASE Y = 0
  <2>1. y = 0 /\ d = 1 /\ x = X
    BY <1>1, <1>4
  <2>2. y' = 0 /\ d' = 0 /\ dpc' = "done" /\ x' = x /\ res' = (res + d) % Pow2[W]
    BY <1>1, <2>1, DivPow2 DEF Div!Subtract
  <2>3. res' \in Nat
    BY <1>1, <1>3, <2>2
  <2>4. DivTyped'
    BY <1>1, <1>2, <2>2, <2>3 DEF DivTyped
  <2>5. Y * res' = 0
    <3>1. \A n \in Nat : 0 * n = 0
      OBVIOUS
    <3>2. QED BY <1>4, <2>3, <3>1
  <2>6. x' + Y * res' = X
    BY <2>1, <2>2, <2>5
  <2>7. QED BY <1>4, <2>2, <2>4, <2>6 DEF Divided
<1>5. CASE Y > 0
  <2>1. x' \in Nat /\ x' < y /\ res' \in Nat /\ x' + Y * res' = X
    <3>1. CASE ~(x >= y)
      BY <1>1, <3>1 DEF Div!Subtract
    <3>2. CASE x >= y
      <4> DEFINE p == Y * res
                 q == Y * d
      <4>1. x' = x - y /\ res' = (res + d) % Pow2[W]
        BY <3>2, DivPow2 DEF Div!Subtract
      <4>2. Y * (res + d) = p + q /\ res + d <= Y * (res + d) /\ p \in Nat /\ q \in Nat
        BY <1>1, <1>3, <1>5
      <4>3. x + p = X /\ y = q /\ x < 2 * q
        BY <1>1, <1>5
      <4> HIDE DEF p, q
      <4>4. res + d < Pow2[W]
        BY <1>1, <1>3, <3>2, <4>2, <4>3
      <4>5. res' = res + d
        BY <1>1, <1>3, <4>1, <4>4
      <4>6. x' \in Nat /\ x' < y /\ x' + (p + q) = X
        BY <1>1, <3>2, <4>1, <4>2, <4>3
      <4>7. Y * res' = p + q /\ res' \in Nat
        BY <1>1, <1>3, <4>2, <4>5
      <4>8. QED BY <4>6, <4>7
    <3>3. QED BY <3>1, <3>2
  <2>2. y' = y \div 2 /\ d' = d \div 2 /\ dpc' = IF d' = 0 THEN "done" ELSE "subtract"
    BY DEF Div!Subtract
  <2>3. y' \in Nat
    BY <1>1, <2>2
  <2>4. CASE d = 1
    <3>1. dpc' = "done" /\ y = Y
      BY <1>1, <2>2, <2>4
    <3>2. x' < Y
      BY <2>1, <3>1
    <3>3. DivTyped'
      BY <1>2, <2>1, <2>3, <3>1 DEF DivTyped
    <3>4. QED BY <2>1, <3>1, <3>2, <3>3 DEF Divided
  <2>5. CASE d # 1
    <3>1. PICK h \in Powers : d = 2 * h /\ h \in Nat /\ h > 0
      BY <1>1, <2>5, PowersHalve
    <3>2. d' = h /\ dpc' = "subtract"
      BY <2>2, <3>1
    <3> DEFINE m == Y * h
    <3>3. y = 2 * m /\ m \in Nat
      BY <1>1, <3>1
    <3> HIDE DEF m
    <3>4. y' = m /\ x' < 2 * y'
      BY <2>1, <2>2, <3>3
    <3>5. y' = Y * d' /\ d' \in Powers
      BY <3>2, <3>4 DEF m
    <3>6. DivTyped'
      BY <1>2, <2>1, <2>3, <3>2 DEF DivTyped
    <3>7. Y # 0
      BY <1>5
    <3>8. x' + Y * res' = X
      BY <2>1
    <3>9. QED BY <3>2, <3>4, <3>5, <3>6, <3>7, <3>8 DEF Divided
  <2>6. QED BY <2>4, <2>5
<1>6. QED BY <1>4, <1>5

\* Every pass through one of the loops keeps the invariant.
LEMMA DivNext == DivInv /\ [Div!Next]_Div!vars => DivInv'
<1> SUFFICES ASSUME DivInv, [Div!Next]_Div!vars PROVE DivInv'
  OBVIOUS
<1> DEFINE X == Div!Dividend
           Y == Div!Divisor
<1>1. DivTyped /\ Divided(X, Y) /\ X \in Nat /\ X < Pow2[W] /\ Y \in Nat
  BY ArgsAreWords DEF DivInv
<1>2. UNCHANGED <<signed, minus, x0, y0>>
  BY DEF Div!Next, Div!vars, Div!Top, Div!Shift, Div!Subtract, Div!args
<1>3. X' = X /\ Y' = Y /\ DivSigns'
  BY <1>2, DivArgsSame DEF DivInv
<1> HIDE DEF X, Y
<1>4. PICK a, b : a = X /\ b = Y
  OBVIOUS
<1>5. DivTyped' /\ Divided(a, b)'
  <2>1. CASE Div!Next
    BY <1>1, <1>4, <2>1, DivTop, DivShift, DivSubtract DEF Div!Next
  <2>2. CASE UNCHANGED Div!vars
    BY <1>1, <1>4, <2>2 DEF Div!vars, DivTyped, Divided
  <2>3. QED BY <2>1, <2>2
<1>6. Divided(X, Y)'
  BY <1>3, <1>4, <1>5 DEF Divided
<1>7. QED BY <1>3, <1>5, <1>6 DEF DivInv, X, Y

\* A word is a sign and an absolute value.
LEMMA SignedWord ==
  ASSUME NEW w \in Div!Word, NEW H, H = Pow2[W - 1]
  PROVE  LET s == Div!Signed(w)
             a == IF s < 0 THEN Div!Minus(w) ELSE w
         IN  /\ s \in Int /\ a \in Nat /\ H \in Nat
             /\ s = IF s < 0 THEN -a ELSE a
             /\ s < 0 => a <= H
             /\ ~(s < 0) => a < H
             /\ s = 0 <=> w = 0
<1> DEFINE P == Pow2[W]
<1>1. P \in Nat /\ H \in Nat /\ H > 0 /\ P = 2 * H
  BY WordSize
<1>2. w \in 0..(P - 1)
  BY DivPow2 DEF Div!Word
<1>3. Div!Signed(w) = IF w < H THEN w ELSE w - P
  BY DivPow2 DEF Div!Signed
<1>4. Div!Minus(w) = (P - w) % P
  BY DivPow2 DEF Div!Minus
<1> HIDE DEF P
<1>5. w >= H => (P - w) % P = P - w
  BY <1>1, <1>2
<1>6. CASE w < H
  BY <1>1, <1>2, <1>3, <1>6
<1>7. CASE ~(w < H)
  BY <1>1, <1>2, <1>3, <1>4, <1>5, <1>7
<1>8. QED BY <1>6, <1>7

\* __udivdi3, __umoddi3 and __divdi3 begin with it.
LEMMA DivInit == Div!Init => DivInv
<1> SUFFICES ASSUME Div!Init PROVE DivInv
  OBVIOUS
<1>1. DivTyped
  <2>1. Pow2[W] \in Nat
    BY WordSize
  <2>2. \A w \in Div!Word : w \in Nat
    BY <2>1, DivPow2 DEF Div!Word
  <2>3. QED BY <2>2 DEF Div!Init, DivTyped
<1> DEFINE X == Div!Dividend
           Y == Div!Divisor
<1>2. x = X /\ y = Y
  BY DEF Div!Init, Div!CallDiv, Div!CallUnsigned, Div!Dividend, Div!Divisor
<1>3. X \in Nat /\ X < Pow2[W] /\ Y \in Nat
  BY <1>1, ArgsAreWords
<1>4. dpc = "top" /\ d = 1 /\ e = Pow2[W - 1] /\ res = 0
  BY DivPow2 DEF Div!Init
<1> HIDE DEF X, Y
<1>5. 1 \in Powers
  BY Pow2Properties DEF Powers
<1>6. Divided(X, Y)
  BY <1>2, <1>3, <1>4, <1>5, WordSize DEF Divided
<1>7. DivSigns
  <2>1. SUFFICES ASSUME signed
                 PROVE  minus <=> ~((Div!Signed(x0) < 0) <=> (Div!Signed(y0) < 0))
    BY DEF DivSigns
  <2>2. PICK u, v : u = Div!Signed(x0) /\ v = Div!Signed(y0)
    OBVIOUS
  <2>3. minus = ((u < 0) # (v < 0))
    BY <2>1, <2>2 DEF Div!Init, Div!CallDiv, Div!CallUnsigned
  <2>4. u \in Int /\ v \in Int
    BY <1>1, <2>2, SignedWord DEF DivTyped
  <2>5. minus <=> ~((u < 0) <=> (v < 0))
    <3>1. minus <=> ((u < 0) # (v < 0))
      BY <2>3, Zenon
    <3>2. ((u < 0) # (v < 0)) <=> ~((u < 0) <=> (v < 0))
      BY <2>4, SMT
    <3>3. QED BY <3>1, <3>2, Zenon
  <2>6. QED BY <2>2, <2>5
<1>8. QED BY <1>1, <1>6, <1>7 DEF DivInv, X, Y

\* When the loops are done, quotient and remainder are those of the absolute values.
LEMMA DivMeans ==
  ASSUME DivInv
  PROVE  Div!LoopInvariant /\ Div!Exact
<1> DEFINE X == Div!Dividend
           Y == Div!Divisor
<1>1. DivTyped /\ Divided(X, Y) /\ X \in Nat /\ Y \in Nat /\ (Y = 0 <=> y0 = 0)
  BY ArgsAreWords DEF DivInv
<1>2. Div!LoopInvariant
  <2>1. y0 # 0 /\ dpc \in {"shift", "subtract"} => y = Y * d
    BY <1>1 DEF Divided
  <2>2. x + Y * res = X
    <3>1. CASE dpc \in {"top", "shift"}
      <4>1. x = X /\ res = 0
        BY <1>1, <3>1 DEF Divided
      <4>2. \A n \in Nat : n * 0 = 0
        OBVIOUS
      <4>3. QED BY <1>1, <4>1, <4>2
    <3>2. CASE dpc \in {"subtract", "done"}
      BY <1>1, <3>2 DEF Divided
    <3>3. QED BY <1>1, <3>1, <3>2 DEF DivTyped
  <2>3. dpc = "subtract" => x < 2 * y \/ y0 = 0
    BY <1>1 DEF Divided
  <2>4. QED BY <2>1, <2>2, <2>3 DEF Div!LoopInvariant
<1>3. Div!Exact
  <2>1. SUFFICES ASSUME dpc = "done", y0 # 0
                 PROVE  res = X \div Y /\ x = X % Y
    BY DEF Div!Exact
  <2>2. x + Y * res = X /\ x < Y /\ x \in Nat /\ res \in Nat
    BY <1>1, <2>1 DEF Divided, DivTyped
  <2> HIDE DEF X, Y
  <2>3. QED BY <1>1, <2>2, DivisionUnique
<1>4. QED BY <1>2, <1>3

\* What __divdi3 makes of a quotient below 2^(W-1), or equal to it.
LEMMA SignedResult ==
  ASSUME NEW q \in Nat, NEW H, H = Pow2[W - 1]
  PROVE  /\ q < H => Div!Signed(q) = q
         /\ q <= H => Div!Signed(Div!Minus(q)) = -q
<1> DEFINE P == Pow2[W]
<1>1. P \in Nat /\ H \in Nat /\ H > 0 /\ P = 2 * H
  BY WordSize
<1>2. \A w : Div!Signed(w) = IF w < H THEN w ELSE w - P
  BY DivPow2 DEF Div!Signed
<1>3. Div!Minus(q) = (P - q) % P
  BY DivPow2 DEF Div!Minus
<1> HIDE DEF P
<1>4. q = 0 => (P - q) % P = 0
  BY <1>1
<1>5. q # 0 /\ q <= H => (P - q) % P = P - q
  BY <1>1
<1>6. q < H => Div!Signed(q) = q
  BY <1>2
<1>7. ASSUME q <= H PROVE Div!Signed(Div!Minus(q)) = -q
  <2>1. CASE q = 0
    BY <1>1, <1>2, <1>3, <1>4, <2>1
  <2>2. CASE q # 0
    <3>1. Div!Minus(q) = P - q /\ ~(P - q < H)
      BY <1>1, <1>3, <1>5, <1>7, <2>2
    <3>2. Div!Signed(P - q) = (P - q) - P
      BY <1>2, <3>1
    <3>3. (P - q) - P = -q
      BY <1>1
    <3>4. QED BY <3>1, <3>2, <3>3
  <2>3. QED BY <2>1, <2>2
<1>8. QED BY <1>6, <1>7

\* Quotient and remainder of numbers with a sign.
LEMMA SignedRemainder ==
  ASSUME NEW X \in Nat, NEW Y \in Nat, NEW q \in Nat, NEW r \in Nat, r + Y * q = X, r < Y,
         NEW s, NEW t, NEW p,
         \/ s = X /\ t = Y /\ p = q
         \/ s = X /\ t = -Y /\ p = -q
         \/ s = -X /\ t = Y /\ p = -q
         \/ s = -X /\ t = -Y /\ p = q
  PROVE  LET m == s - p * t IN m * m < t * t /\ m * s >= 0
<1>1. (s = X /\ s - p * t = r) \/ (s = -X /\ s - p * t = -r)
  OBVIOUS
<1>2. t * t = Y * Y /\ r * r < Y * Y /\ (-r) * (-r) = r * r /\ r * X >= 0 /\ (-r) * (-X) >= 0
  OBVIOUS
<1>3. QED BY <1>1, <1>2

\* With the sign that __divdi3 gives it the quotient is rounded towards zero, unless
\* its absolute value is not a word.
LEMMA DivSignedMeans ==
  ASSUME DivInv
  PROVE  Div!SignedExact
<1> DEFINE H == Pow2[W - 1]
           X == Div!Dividend
           Y == Div!Divisor
           s == Div!Signed(x0)
           t == Div!Signed(y0)
           p == Div!Signed(IF minus THEN Div!Minus(res) ELSE res)
<1>1. SUFFICES ASSUME signed, dpc = "done", y0 # 0, ~(s = -H /\ t = -1)
               PROVE  (s - p * t) * (s - p * t) < t * t /\ (s - p * t) * s >= 0
  BY DivPow2 DEF Div!SignedExact
<1>2. DivInv /\ x0 \in Div!Word /\ y0 \in Div!Word /\ x \in Nat /\ res \in Nat /\ minus \in BOOLEAN
  BY DEF DivInv, DivTyped
<1>3. minus <=> ~((s < 0) <=> (t < 0))
  BY <1>1 DEF DivInv, DivSigns
<1>4. x + Y * res = X /\ x < Y /\ X \in Nat /\ Y \in Nat
  BY <1>1, <1>2, ArgsAreWords DEF DivInv, Divided
<1>5. /\ s \in Int /\ H \in Nat
      /\ (s < 0 /\ s = -X /\ X <= H) \/ (~(s < 0) /\ s = X /\ X < H)
  BY <1>1, <1>2, SignedWord DEF Div!Dividend
<1>6. /\ t \in Int
      /\ (t < 0 /\ t = -Y /\ Y <= H) \/ (~(t < 0) /\ t = Y /\ Y < H)
  BY <1>1, <1>2, SignedWord DEF Div!Divisor
<1> HIDE DEF X, Y, s, t
<1>7. res <= X
  BY <1>2, <1>4
<1>8. CASE minus
  <2>1. p = -res
    <3>1. res <= H
      BY <1>2, <1>4, <1>5, <1>7
    <3> HIDE DEF H
    <3>2. Div!Signed(Div!Minus(res)) = -res
      BY <1>2, <3>1, SignedResult DEF H
    <3>3. QED BY <1>8, <3>2
  <2> HIDE DEF p
  <2>2. CASE s < 0
    <3>1. ~(t < 0)
      BY <1>3, <1>8, <2>2, Zenon
    <3>2. s = -X /\ t = Y
      BY <1>5, <1>6, <2>2, <3>1, Zenon
    <3>3. QED BY <1>2, <1>4, <2>1, <3>2, SignedRemainder
  <2>3. CASE ~(s < 0)
    <3>1. t < 0
      BY <1>3, <1>8, <2>3, Zenon
    <3>2. s = X /\ t = -Y
      BY <1>5, <1>6, <2>3, <3>1, Zenon
    <3>3. QED BY <1>2, <1>4, <2>1, <3>2, SignedRemainder
  <2>4. QED BY <2>2, <2>3
<1>9. CASE ~minus
  <2>1. \/ s = X /\ t = Y
        \/ s = -X /\ t = -Y
    <3>1. (s < 0) <=> (t < 0)
      BY <1>3, <1>9, Zenon
    <3>2. QED BY <1>5, <1>6, <3>1, Zenon
  <2>2. res < H
    <3>1. CASE X < H
      BY <1>2, <1>4, <1>5, <1>7, <3>1
    <3>2. CASE ~(X < H)
      <4>1. s = -H /\ X = H /\ t < 0 /\ t = -Y
        <5>1. s < 0 /\ s = -X /\ X <= H
          BY <1>5, <3>2, Zenon
        <5>2. t < 0
          BY <1>3, <1>9, <5>1, Zenon
        <5>3. t = -Y
          BY <1>6, <5>2, Zenon
        <5>4. X = H
          BY <1>4, <1>5, <3>2, <5>1
        <5>5. QED BY <5>1, <5>2, <5>3, <5>4
      <4>2. Y >= 2
        BY <1>1, <1>4, <1>6, <4>1
      <4>3. 2 * res <= Y * res
        BY <1>2, <1>4, <4>2
      <4>4. QED BY <1>2, <1>4, <1>5, <4>1, <4>2, <4>3
    <3>3. QED BY <3>1, <3>2
  <2>3. p = res
    BY <1>2, <1>9, <2>2, SignedResult
  <2> HIDE DEF p
  <2>4. QED BY <1>2, <1>4, <2>1, <2>3, SignedRemainder
<1>10. QED BY <1>2, <1>8, <1>9
-----------------------------------------------------------------------------
(* AlmStampBack. *)

\* The theorems about AlmStampBack, for the clock that is set back here.
Stamps == INSTANCE AlmStampProofs WITH
  ISR <- "isr", NULL <- "nobody", MAX_WAIT <- StampWait, Horizon <- StampHorizon, pc <- spc

\* Its assumption holds, ...
LEMMA StampsAssumption == Stamps!StampAssumption
BY PartsAssumption DEF Stamp!StampAssumption, Stamps!StampAssumption

\* ... and the part starts and moves like it, or rests.
LEMMA StampsInit == MCInit => Stamps!Init
<1>1. MCInit => Stamp!Init
  BY DEF MCInit, StampRests
<1>2. Stamp!Init => Stamps!Init
  BY DEF Stamp!Init, Stamps!Init, Stamp!Caller, Stamps!Caller
<1>3. QED BY <1>1, <1>2

\* When another part runs the clock and its users rest, as they may.
LEMMA StampsNext == [MCNext]_allVars => [Stamps!BackNext]_Stamps!vars
<1> SUFFICES ASSUME [MCNext]_allVars PROVE [Stamps!BackNext]_Stamps!vars
  OBVIOUS
<1>1. Stamp!BackNext \/ UNCHANGED stampVars
  BY DEF MCNext, DivStep, allVars
<1>2. UNCHANGED stampVars => UNCHANGED Stamps!vars
  BY DEF stampVars, Stamps!vars, Stamps!timerVars, Stamps!statics, Stamps!locals
<1> USE DEF Stamp!Caller, Stamps!Caller, Stamp!timerVars, Stamps!timerVars, Stamp!statics,
           Stamps!statics, Stamp!locals, Stamps!locals
<1>3. ASSUME NEW c
      PROVE  /\ Stamp!ReadTimer(c) => Stamps!ReadTimer(c)
             /\ Stamp!CompareLast(c) => Stamps!CompareLast(c)
             /\ Stamp!SaveLast(c) => Stamps!SaveLast(c)
             /\ Stamp!ReturnStamp(c) => Stamps!ReturnStamp(c)
             /\ Stamp!SetupAlarm(c) => Stamps!SetupAlarm(c)
  BY DEF Stamp!ReadTimer, Stamps!ReadTimer, Stamp!CompareLast, Stamps!CompareLast,
     Stamp!SaveLast, Stamps!SaveLast, Stamp!ReturnStamp, Stamps!ReturnStamp,
     Stamp!SetupAlarm, Stamps!SetupAlarm
<1>4. ASSUME NEW c, NEW purpose
      PROVE  Stamp!LockInterrupts(c, purpose) => Stamps!LockInterrupts(c, purpose)
  BY DEF Stamp!LockInterrupts, Stamps!LockInterrupts
<1>5. /\ Stamp!Tick => Stamps!Tick
      /\ Stamp!HandlerLoops => Stamps!HandlerLoops
      /\ Stamp!StepBack => Stamps!StepBack
  BY DEF Stamp!Tick, Stamps!Tick, Stamp!HandlerLoops, Stamps!HandlerLoops, Stamp!StepBack,
     Stamps!StepBack
<1>6. Stamp!BackNext => Stamps!BackNext
  BY <1>3, <1>4, <1>5 DEF Stamp!BackNext, Stamps!BackNext, Stamp!Next, Stamps!Next,
     Stamp!GetStamp, Stamps!GetStamp, Stamp!HandlerEnter, Stamps!HandlerEnter
<1>7. QED BY <1>1, <1>2, <1>6
-----------------------------------------------------------------------------
(* TimeBase. *)

\* The upper half only grows, so what the loop reads first is a lower bound for
\* what it reads last, and the value in between is caught by the two.
ReadInvariant ==
  /\ upper \in Nat /\ dummy \in Nat /\ tbu \in Nat
  /\ step \in {"call", "upper", "lower", "again", "compare", "done"}
  /\ step = "lower" => dummy <= upper
  /\ step \in {"again", "compare", "done"} =>
       value.upper \in Nat /\ dummy <= value.upper /\ tbl = value.lower
  /\ step = "again" => value.upper <= upper
  /\ step \in {"compare", "done"} => value.upper <= tbu
  /\ step = "done" => tbu = dummy

\* The invariant holds initially.
LEMMA ReadInit == Base!Init => ReadInvariant
BY DEF Base!Init, ReadInvariant

\* Every instruction and every tick keeps it.
LEMMA ReadNext == ReadInvariant /\ [Base!Next]_baseVars => ReadInvariant'
<1> SUFFICES ASSUME ReadInvariant, [Base!Next]_baseVars PROVE ReadInvariant'
  OBVIOUS
<1> USE DEF ReadInvariant
<1>1. CASE Base!Count
  \* the upper half may have been carried into
  <2>1. upper' \in Nat /\ upper <= upper'
    BY <1>1 DEF Base!Count
  <2>2. UNCHANGED <<step, dummy, tbl, tbu, value>>
    BY <1>1 DEF Base!Count
  <2> QED
    BY <2>1, <2>2
<1>2. CASE Base!CallRead
  BY <1>2 DEF Base!CallRead
<1>3. CASE Base!ReadUpper
  BY <1>3 DEF Base!ReadUpper
<1>4. CASE Base!ReadLower
  BY <1>4 DEF Base!ReadLower
<1>5. CASE Base!ReadAgain
  BY <1>5 DEF Base!ReadAgain
<1>6. CASE Base!Compare
  BY <1>6 DEF Base!Compare
<1>7. CASE UNCHANGED baseVars
  BY <1>7 DEF baseVars
<1> QED
  BY <1>1, <1>2, <1>3, <1>4, <1>5, <1>6, <1>7 DEF Base!Next
-----------------------------------------------------------------------------
(* All parts. *)

PpcInvariant == PpcTyped /\ PpcState /\ PpcTiming
MccInvariant == MccTyped /\ MccState /\ MccTiming
BeatnikInvariant == BeatnikTyped /\ BeatnikStatics /\ BeatnikState /\ BeatnikTiming
LinuxInvariant == LinuxTyped /\ LinuxState /\ LinuxTiming

PartsInvariant ==
  /\ part = "ppcDec"   => PpcInvariant
  /\ part = "mcc"      => MccInvariant
  /\ part = "mv64260"  => MvInvariant
  /\ part = "beatnik"  => BeatnikInvariant
  /\ part = "linux"    => LinuxInvariant
  /\ part = "timeBase" => ReadInvariant
  /\ part = "division" => DivInv

\* The invariant of the part that runs holds initially.
LEMMA PartsInit == MCInit => PartsInvariant
<1> SUFFICES ASSUME MCInit PROVE PartsInvariant
  OBVIOUS
<1>1. part = "ppcDec" => PpcInvariant
  BY PpcInit DEF MCInit, PpcInvariant
<1>2. part = "mcc" => MccInvariant
  BY MccInit DEF MCInit, MccInvariant
<1>3. part = "mv64260" => MvInvariant
  BY MvInit DEF MCInit, MvInvariant
<1>4. part = "beatnik" => BeatnikInvariant
  BY BeatnikInit DEF MCInit, BeatnikInvariant
<1>5. part = "linux" => LinuxInvariant
  BY LinuxInit DEF MCInit, LinuxInvariant
<1>6. part = "timeBase" => ReadInvariant
  BY ReadInit DEF MCInit
<1>7. part = "division" => DivInv
  BY DivInit DEF MCInit
<1>8. QED BY <1>1, <1>2, <1>3, <1>4, <1>5, <1>6, <1>7 DEF PartsInvariant

\* A step of the composition is a step of the part that runs.
LEMMA PartsStep ==
  ASSUME [MCNext]_allVars
  PROVE  /\ part' = part
         /\ part = "ppcDec"   => [Ppc!Next]_vars
         /\ part = "mcc"      => [Mcc!Next]_vars
         /\ part = "mv64260"  => [Mv!Next]_vars
         /\ part = "beatnik"  => [Beatnik!Next]_vars
         /\ part = "linux"    => [Linux!Next]_vars
         /\ part = "timeBase" => [Base!Next]_baseVars
         /\ part = "division" => [Div!Next]_divVars
BY DEF MCNext, PortNext, DivStep, allVars

\* Every step keeps the invariant.
LEMMA PartsNext == PartsInvariant /\ [MCNext]_allVars => PartsInvariant'
<1> SUFFICES ASSUME PartsInvariant, [MCNext]_allVars PROVE PartsInvariant'
  OBVIOUS
<1>1. part' = part
  BY PartsStep
<1>2. ASSUME part = "ppcDec" PROVE PpcInvariant'
  <2>1. [Ppc!Next]_vars /\ PpcTyped /\ PpcState /\ PpcTiming
    BY <1>2, PartsStep DEF PartsInvariant, PpcInvariant
  <2>2. QED BY <2>1, PpcTypedNext, PpcStateNext, PpcTimingNext DEF PpcInvariant
<1>3. ASSUME part = "mcc" PROVE MccInvariant'
  <2>1. [Mcc!Next]_vars /\ MccTyped /\ MccState /\ MccTiming
    BY <1>3, PartsStep DEF PartsInvariant, MccInvariant
  <2>2. QED BY <2>1, MccTypedNext, MccStateNext, MccTimingNext DEF MccInvariant
<1>4. ASSUME part = "mv64260" PROVE MvInvariant'
  <2>1. [Mv!Next]_vars /\ MvTyped /\ MvState /\ (Altivec = FALSE => MvTiming)
    BY <1>4, PartsStep DEF PartsInvariant, MvInvariant
  <2>2. QED BY <2>1, MvTypedNext, MvStateNext, MvTimingNext DEF MvInvariant
<1>5. ASSUME part = "beatnik" PROVE BeatnikInvariant'
  <2>1. [Beatnik!Next]_vars /\ BeatnikTyped /\ BeatnikStatics /\ BeatnikState /\ BeatnikTiming
    BY <1>5, PartsStep DEF PartsInvariant, BeatnikInvariant
  <2>2. QED
    BY <2>1, BeatnikTypedNext, BeatnikStaticsNext, BeatnikStateNext, BeatnikTimingNext
    DEF BeatnikInvariant
<1>6. ASSUME part = "linux" PROVE LinuxInvariant'
  <2>1. [Linux!Next]_vars /\ LinuxTyped /\ LinuxState /\ LinuxTiming
    BY <1>6, PartsStep DEF PartsInvariant, LinuxInvariant
  <2>2. QED BY <2>1, LinuxTypedNext, LinuxStateNext, LinuxTimingNext DEF LinuxInvariant
<1>7. ASSUME part = "timeBase" PROVE ReadInvariant'
  BY <1>7, PartsStep, ReadNext DEF PartsInvariant
<1>8. ASSUME part = "division" PROVE DivInv'
  <2>1. [Div!Next]_Div!vars
    BY <1>8, PartsStep DEF divVars, Div!vars
  <2>2. QED BY <1>8, <2>1, DivNext DEF PartsInvariant
<1>9. QED BY <1>1, <1>2, <1>3, <1>4, <1>5, <1>6, <1>7, <1>8 DEF PartsInvariant

\* alm_init: what alm_init_state says of a port, between two calls.
LEMMA Initialised ==
  ASSUME NEW first, NEW setup, NEW open, Initialising(first, setup, open),
         init_state \in {"none", "failed", "ok"}
  PROVE  Reported(open)
BY DEF Initialising, Reported
-----------------------------------------------------------------------------
\* Each part keeps its invariant, in every behaviour of the composition.
THEOREM PartsCorrect == MCSpec => []PartsInvariant
BY PartsInit, PartsNext, PTL DEF MCSpec

\* alm_init succeeds if, and only if, the interrupts that drive the library have
\* begun, on every port.
THEOREM InitReportCorrect == MCSpec => []InitReported
<1>1. PartsInvariant => InitReported
  <2> SUFFICES ASSUME PartsInvariant PROVE InitReported
    OBVIOUS
  <2>1. ASSUME part = "ppcDec" PROVE Reported(~dev.masked)
    BY <2>1, Initialised DEF PartsInvariant, PpcInvariant, PpcState, PpcTyped
  <2>2. ASSUME part = "mcc" PROVE Reported(dev.IEN)
    BY <2>2, Initialised DEF PartsInvariant, MccInvariant, MccState, MccTyped
  <2>3. ASSUME part = "mv64260" PROVE Reported(~dev.masked)
    BY <2>3, Initialised DEF PartsInvariant, MvInvariant, MvState, MvTyped
  <2>4. ASSUME part = "beatnik", ~dev.hasty PROVE Reported(dev.isr)
    BY <2>4, Initialised DEF PartsInvariant, BeatnikInvariant, BeatnikState, BeatnikTyped
  <2>5. ASSUME part = "linux" PROVE Reported(TRUE)
    BY <2>5, Initialised DEF PartsInvariant, LinuxInvariant, LinuxState, LinuxTyped
  <2>6. QED BY <2>1, <2>2, <2>3, <2>4, <2>5 DEF InitReported
<1>2. QED BY <1>1, PartsCorrect, PTL

\* alm_ppcDec.c keeps the contract of timer.h, for every rate of the chip.
THEOREM PpcDecCorrect == MCSpec => PpcDecKeeps
<1>1. PartsInvariant /\ [MCNext]_allVars =>
        [part = "ppcDec" => PpcShot!Next]_<<PpcShot!vars>>
  BY PartsStep, PpcContract DEF PartsInvariant, PpcInvariant
<1>2. QED BY <1>1, PartsCorrect, PTL DEF MCSpec, PpcDecKeeps

\* alm_mcc.c keeps the contract of timer.h, for every width of the counter and
\* however long the handler's callbacks take, within a lap.
THEOREM MccCorrect == MCSpec => MccKeeps
<1>1. PartsInvariant /\ [MCNext]_allVars =>
        [part = "mcc" => MccShot!Next]_<<MccShot!vars>>
  BY PartsStep, MccContract DEF PartsInvariant, MccInvariant
<1>2. QED BY <1>1, PartsCorrect, PTL DEF MCSpec, MccKeeps

\* timer_RTEMS-mvme5500.c keeps the contract of timer.h, for every rate of the bus.
THEOREM Mv64260Correct ==
  ASSUME Altivec = FALSE
  PROVE  MCSpec => Mv64260Keeps
<1>1. PartsInvariant /\ [MCNext]_allVars =>
        [part = "mv64260" => MvShot!Next]_<<MvShot!vars>>
  BY PartsStep, MvContract DEF PartsInvariant, MvInvariant
<1>2. QED BY <1>1, PartsCorrect, PTL DEF MCSpec, Mv64260Keeps

\* timer_RTEMS-beatnik.c keeps the contract of timer.h, for every pair of rates,
\* once its statics have been written.
THEOREM BeatnikCorrect == MCSpec => BeatnikKeeps
<1>1. PartsInvariant /\ [MCNext]_allVars =>
        [part = "beatnik" /\ ~dev.hasty => BeatnikShot!Next]_<<BeatnikShot!vars>>
  BY PartsStep, BeatnikContract DEF PartsInvariant, BeatnikInvariant
<1>2. QED BY <1>1, PartsCorrect, PTL DEF MCSpec, BeatnikKeeps

\* timer_Linux.c keeps the contract of timer.h, for every resolution of the clock,
\* if it has got a timer.
THEOREM LinuxCorrect == MCSpec => LinuxKeeps
<1>1. PartsInvariant /\ [MCNext]_allVars =>
        [part = "linux" /\ ~Linux!Unnoticed => LinuxShot!Next]_<<LinuxShot!vars>>
  BY PartsStep, LinuxContract DEF PartsInvariant, LinuxInvariant
<1>2. QED BY <1>1, PartsCorrect, PTL DEF MCSpec, LinuxKeeps

\* readTimeBaseReg: the halves it returns belong together, for every width of the
\* halves and however long the loop is interrupted.
THEOREM ReadCorrect == MCSpec => []ReadsExact
<1>1. PartsInvariant => ReadsExact
  BY DEF PartsInvariant, ReadInvariant, ReadsExact, Base!ReadsExact
<1>2. QED BY <1>1, PartsCorrect, PTL

\* The loops of __udivdi3 and __umoddi3 lose nothing of the dividend.
THEOREM DivisionInvariantCorrect == MCSpec => []DivisionInvariant
<1>1. PartsInvariant => DivisionInvariant
  BY DivMeans DEF PartsInvariant, DivisionInvariant
<1>2. QED BY <1>1, PartsCorrect, PTL

\* __udivdi3 and __umoddi3 are exact, for every width of a word.
THEOREM DivisionExactCorrect == MCSpec => []DivisionExact
<1>1. PartsInvariant => DivisionExact
  BY DivMeans DEF PartsInvariant, DivisionExact
<1>2. QED BY <1>1, PartsCorrect, PTL

\* __divdi3 rounds towards zero, for every width of a word, except where the
\* quotient is not a word.
THEOREM DivisionSignedCorrect == MCSpec => []DivisionSigned
<1>1. PartsInvariant => DivisionSigned
  BY DivSignedMeans DEF PartsInvariant, DivisionSigned
<1>2. QED BY <1>1, PartsCorrect, PTL

\* alm_get_stamp: no timestamp is smaller than one handed out before it, although
\* the clock is set back.
THEOREM SetBackCorrect == MCSpec => SetBackStampsAscend
<1>1. Stamps!BackSpec => Stamps!StampsAscend
  BY StampsAssumption, Stamps!StampsAscending
<1>2. MCSpec => Stamps!BackSpec
  BY StampsInit, StampsNext, PTL DEF MCSpec, Stamps!BackSpec
<1>3. [Stamps!NotBefore]_Stamps!vars => [Stamp!NotBefore]_Stamp!vars
  <2>1. Stamps!NotBefore => Stamp!NotBefore
    BY DEF Stamps!NotBefore, Stamp!NotBefore, Stamps!Caller, Stamp!Caller
  <2>2. UNCHANGED Stamps!vars => UNCHANGED Stamp!vars
    BY DEF Stamps!vars, Stamp!vars, Stamps!timerVars, Stamp!timerVars, Stamps!statics,
       Stamp!statics, Stamps!locals, Stamp!locals
  <2>3. QED BY <2>1, <2>2
<1>4. QED
  BY <1>1, <1>2, <1>3, PTL DEF Stamps!StampsAscend, SetBackStampsAscend, Stamp!StampsAscend
=============================================================================
