--------------------------- MODULE AlmStampProofs ---------------------------
(***************************************************************************)
(* Theorems about AlmStamp, for every width of the count and every choice  *)
(* of the waiting times; the last two also when the count may be set back. *)
(***************************************************************************)
EXTENDS AlmStampBack, TLAPS

\* The types of what alm_get_stamp works with.
LEMMA Typing ==
  ASSUME TypeOK
  PROVE  /\ clock \in Nat /\ count \in 0..(WRAP - 1) /\ next_due \in Nat
         /\ high_word \in Nat /\ last_time \in 0..(WRAP - 1)
         /\ WRAP \in Nat /\ MAX_WAIT \in Nat /\ MIN_WAIT \in Nat /\ Latency \in Nat
         /\ MAX_WAIT + Latency < WRAP /\ 0 < MIN_WAIT
         /\ \A c \in Caller : /\ now[c] \in 0..(WRAP - 1)
                              /\ result[c] \in Nat /\ readAt[c] \in Nat
BY StampAssumption DEF TypeOK

\* The invariant holds initially.
LEMMA InductiveInit == Init => Inductive
<1> SUFFICES ASSUME Init PROVE Inductive
  OBVIOUS
<1>1. /\ WRAP \in Nat /\ MAX_WAIT \in Nat /\ Latency \in Nat /\ 0 < WRAP
      /\ NULL \notin Caller
  BY StampAssumption DEF Caller
<1>2. /\ last_time \in 0..(WRAP - 1) /\ last_time \in Nat
      /\ count = last_time /\ high_word = 0 /\ clock = last_time
      /\ next_due = last_time + MAX_WAIT
  BY <1>1 DEF Init
<1>3. TypeOK
  BY <1>1, <1>2 DEF Init, TypeOK
<1>4. Excluded
  BY <1>1 DEF Init, Excluded
<1>5. Statics
  BY <1>1, <1>2 DEF Statics, Agrees
<1>6. Locals
  BY DEF Init, Locals
<1>7. QED BY <1>3, <1>4, <1>5, <1>6 DEF Inductive

\* The clock and the timer advance together; a moment that was recent stays
\* recent because the handler is not late.
LEMMA AgreesTick ==
  ASSUME TypeOK, Tick, NEW s \in Nat, NEW l \in 0..(WRAP - 1), Agrees(s, l)
  PROVE  Agrees(s, l)'
<1>1. /\ clock < next_due + Latency /\ clock' = clock + 1 /\ next_due' = next_due
      /\ count' = IF count + 1 = WRAP THEN 0 ELSE count + 1
  BY DEF Tick
<1>2. clock' <= s + MAX_WAIT + Latency /\ s <= clock' /\ next_due' <= s + MAX_WAIT
  BY <1>1, Typing DEF Agrees
<1>3. count' = l + (clock' - s) \/ count' = l + (clock' - s) - WRAP
  <2>1. clock' - s < WRAP
    BY <1>1, <1>2, Typing
  <2>2. CASE count = l + (clock - s)
    BY <1>1, <2>2, Typing DEF Agrees
  <2>3. CASE count = l + (clock - s) - WRAP
    <3>1. count + 1 < WRAP
      BY <1>1, <2>1, <2>3, Typing
    <3>2. QED BY <1>1, <2>3, <3>1, Typing
  <2>4. QED BY <2>2, <2>3 DEF Agrees
<1>4. QED BY <1>2, <1>3 DEF Agrees

\* Every step keeps the invariant.
LEMMA InductiveNext == Inductive /\ [Next]_vars => Inductive'
<1> SUFFICES ASSUME Inductive, [Next]_vars PROVE Inductive'
  OBVIOUS
<1> USE DEF timerVars, statics, locals
<1>1. /\ TypeOK /\ Excluded /\ Statics /\ Locals
      /\ NULL \notin Caller /\ ISR \in Caller /\ Thread \subseteq Caller
  BY StampAssumption DEF Inductive, Caller
<1>2. CASE Tick
  <2>1. /\ clock' = clock + 1 /\ count' \in 0..(WRAP - 1)
        /\ UNCHANGED <<high_word, last_time, ilock, pc, then, now, result, readAt, next_due>>
    BY <1>1, <1>2, Typing DEF Tick
  <2>2. TypeOK'
    BY <1>1, <2>1 DEF TypeOK
  <2>3. Excluded'
    BY <1>1, <2>1 DEF Excluded
  <2>4. Statics'
    <3>1. SUFFICES ASSUME \A c \in Caller : pc[c] # "save"
                   PROVE  Agrees(high_word + last_time, last_time)'
      BY <2>1 DEF Statics
    <3>2. Agrees(high_word + last_time, last_time)
      BY <1>1, <3>1 DEF Statics
    <3>3. /\ high_word' = high_word /\ last_time' = last_time
          /\ high_word + last_time \in Nat /\ last_time \in 0..(WRAP - 1)
      BY <1>1, <2>1, Typing
    <3>4. \A s \in Nat, l \in 0..(WRAP - 1) : Agrees(s, l) => Agrees(s, l)'
      BY <1>1, <1>2, AgreesTick
    <3>5. QED BY <3>2, <3>3, <3>4 DEF Agrees
  <2>5. Locals'
    <3>1. \A s \in Nat, l \in 0..(WRAP - 1) : Agrees(s, l) => Agrees(s, l)'
      BY <1>1, <1>2, AgreesTick
    <3>2. \A c \in Caller : now[c] \in 0..(WRAP - 1) /\ readAt[c] \in Nat
      BY <1>1, Typing
    <3>3. \A c \in Caller : pc[c] \in {"compare", "save"} => Agrees(readAt[c], now[c])'
      BY <1>1, <2>1, <3>1, <3>2 DEF Locals, Agrees
    <3>4. QED BY <1>1, <2>1, <3>3 DEF Locals
  <2>6. QED BY <2>2, <2>3, <2>4, <2>5 DEF Inductive
<1>3. ASSUME NEW c \in Caller, NEW purpose \in {"stamp", "setup", "now"},
             LockInterrupts(c, purpose)
      PROVE  Inductive'
  <2>1. TypeOK' /\ Excluded'
    BY <1>1, <1>3 DEF LockInterrupts, TypeOK, Excluded
  <2>2. Statics' /\ Locals'
    BY <1>1, <1>3 DEF LockInterrupts, TypeOK, Statics, Locals, Agrees
  <2>3. QED BY <2>1, <2>2 DEF Inductive
<1>4. ASSUME NEW c \in Caller, ReadTimer(c)
      PROVE  Inductive'
  <2>1. /\ pc[c] = "read" /\ ilock = c
        /\ pc' = [pc EXCEPT ![c] = "compare"]
        /\ now' = [now EXCEPT ![c] = count]
        /\ readAt' = [readAt EXCEPT ![c] = clock]
        /\ UNCHANGED <<clock, count, high_word, last_time, next_due, ilock, then, result>>
    BY <1>1, <1>4 DEF ReadTimer, Excluded
  <2>2. TypeOK' /\ Excluded'
    BY <1>1, <2>1 DEF TypeOK, Excluded
  <2>3. \A u \in Caller \ {c} : pc[u] = "idle"
    BY <1>1, <2>1 DEF Excluded
  <2>4. Agrees(high_word + last_time, last_time)
    BY <1>1, <2>1, <2>3 DEF Statics
  <2>5. Statics'
    BY <2>1, <2>4 DEF Statics, Agrees
  <2>6. Agrees(clock, count)
    BY <1>1, <2>4, Typing DEF Agrees
  <2>7. /\ high_word + last_time <= clock
        /\ count = clock - high_word \/ count = clock - high_word - WRAP
    BY <1>1, <2>4, Typing DEF Agrees
  <2>8. Locals'
    <3>1. /\ pc'[c] = "compare" /\ now'[c] = count /\ readAt'[c] = clock
          /\ \A u \in Caller \ {c} : pc'[u] = "idle"
      BY <1>1, <2>1, <2>3 DEF TypeOK
    <3>2. Agrees(readAt[c], now[c])'
      BY <2>1, <2>6, <3>1 DEF Agrees
    <3>3. QED BY <2>1, <2>7, <3>1, <3>2 DEF Locals
  <2>9. QED BY <2>2, <2>5, <2>8 DEF Inductive
<1>5. ASSUME NEW c \in Caller, CompareLast(c)
      PROVE  Inductive'
  <2>1. /\ pc[c] = "compare" /\ ilock = c
        /\ pc' = [pc EXCEPT ![c] = "save"]
        /\ high_word' = IF now[c] < last_time THEN high_word + WRAP ELSE high_word
        /\ UNCHANGED <<clock, count, last_time, next_due, ilock, then, now, result, readAt>>
    BY <1>1, <1>5 DEF CompareLast, Excluded
  <2>2. TypeOK' /\ Excluded'
    <3>1. high_word' \in Nat
      BY <1>1, <2>1, Typing
    <3>2. QED BY <1>1, <2>1, <3>1 DEF TypeOK, Excluded
  <2>3. pc'[c] = "save" /\ \A u \in Caller \ {c} : pc'[u] = "idle"
    BY <1>1, <2>1 DEF Excluded, TypeOK
  <2>4. Statics'
    BY <2>3 DEF Statics
  <2>5. /\ Agrees(readAt[c], now[c])
        /\ high_word + last_time <= readAt[c]
        /\ now[c] = readAt[c] - high_word \/ now[c] = readAt[c] - high_word - WRAP
    BY <1>1, <2>1 DEF Locals
  <2>6. readAt[c] - (high_word + last_time) < WRAP
    <3>1. Agrees(high_word + last_time, last_time)
      BY <1>1, <2>1 DEF Statics, Excluded
    <3>2. QED BY <1>1, <2>5, <3>1, Typing DEF Agrees
  <2>7. readAt[c] = high_word' + now[c]
    BY <1>1, <2>1, <2>5, <2>6, Typing
  <2>8. Agrees(readAt[c], now[c])'
    BY <2>1, <2>5 DEF Agrees
  <2>9. Locals'
    BY <2>1, <2>3, <2>7, <2>8 DEF Locals
  <2>10. QED BY <2>2, <2>4, <2>9 DEF Inductive
<1>6. ASSUME NEW c \in Caller, SaveLast(c)
      PROVE  Inductive'
  <2>1. /\ pc[c] = "save" /\ ilock = c
        /\ pc' = [pc EXCEPT ![c] = "done"]
        /\ last_time' = now[c]
        /\ result' = [result EXCEPT ![c] = high_word + now[c]]
        /\ UNCHANGED <<clock, count, high_word, next_due, ilock, then, now, readAt>>
    BY <1>1, <1>6 DEF SaveLast, Excluded
  <2>2. TypeOK' /\ Excluded'
    <3>1. last_time' \in 0..(WRAP - 1) /\ high_word + now[c] \in Nat
      BY <1>1, <2>1, Typing
    <3>2. QED BY <1>1, <2>1, <3>1 DEF TypeOK, Excluded
  <2>3. pc'[c] = "done" /\ \A u \in Caller \ {c} : pc'[u] = "idle"
    BY <1>1, <2>1 DEF Excluded, TypeOK
  <2>4. Agrees(readAt[c], now[c]) /\ readAt[c] = high_word + now[c]
    BY <1>1, <2>1 DEF Locals
  <2>5. Statics'
    BY <2>1, <2>4 DEF Statics, Agrees
  <2>6. result'[c] = high_word + now[c]
    BY <1>1, <2>1 DEF TypeOK
  <2>7. Locals'
    BY <2>1, <2>3, <2>4, <2>6 DEF Locals
  <2>8. QED BY <2>2, <2>5, <2>7 DEF Inductive
<1>7. ASSUME NEW c \in Caller, ReturnStamp(c)
      PROVE  Inductive'
  <2>1. TypeOK' /\ Excluded'
    BY <1>1, <1>7 DEF ReturnStamp, TypeOK, Excluded
  <2>2. Statics' /\ Locals'
    BY <1>1, <1>7 DEF ReturnStamp, TypeOK, Statics, Locals, Agrees
  <2>3. QED BY <2>1, <2>2 DEF Inductive
<1>8. CASE HandlerLoops
  <2>1. TypeOK' /\ Excluded'
    BY <1>1, <1>8 DEF HandlerLoops, TypeOK, Excluded
  <2>2. Statics' /\ Locals'
    BY <1>1, <1>8 DEF HandlerLoops, TypeOK, Statics, Locals, Agrees
  <2>3. QED BY <2>1, <2>2 DEF Inductive
<1>9. ASSUME NEW c \in Caller, SetupAlarm(c)
       PROVE  Inductive'
  <2>1. PICK d \in MIN_WAIT..MAX_WAIT : next_due' = result[c] + d
    BY <1>9 DEF SetupAlarm
  <2>2. /\ pc[c] = "done" /\ ilock = c /\ ilock' = NULL
        /\ pc' = [pc EXCEPT ![c] = "idle"]
        /\ UNCHANGED <<clock, count, high_word, last_time, then, now, result, readAt>>
    BY <1>1, <1>9 DEF SetupAlarm, Excluded
  <2>3. TypeOK' /\ Excluded'
    <3>1. next_due' \in Nat
      BY <1>1, <2>1, Typing
    <3>2. QED BY <1>1, <2>2, <3>1 DEF TypeOK, Excluded
  <2>4. \A u \in Caller : pc'[u] = "idle"
    BY <1>1, <2>2 DEF Excluded, TypeOK
  <2>5. Statics'
    <3>1. Agrees(high_word + last_time, last_time)
      BY <1>1, <2>2 DEF Statics, Excluded
    <3>2. next_due' <= high_word + last_time + MAX_WAIT
      BY <1>1, <2>1, <2>2, Typing DEF Locals
    <3>3. QED BY <2>2, <3>1, <3>2 DEF Statics, Agrees
  <2>6. Locals'
    BY <2>4 DEF Locals
  <2>7. QED BY <2>3, <2>5, <2>6 DEF Inductive
<1>10. CASE UNCHANGED vars
  BY <1>1, <1>10 DEF vars, Inductive, TypeOK, Excluded, Statics, Locals, Agrees
<1>11. QED
  BY <1>1, <1>2, <1>3, <1>4, <1>5, <1>6, <1>7, <1>8, <1>9, <1>10
  DEF Next, HandlerEnter, GetStamp

\* What the statics and locals of alm_get_stamp mean, in every state; the next two
\* theorems follow from it.
THEOREM StatesMeaning == Spec => []Inductive
BY InductiveInit, InductiveNext, PTL DEF Spec

\* alm_get_stamp is exact, however calls and interrupts interleave and however
\* often the count has wrapped.
THEOREM StampCorrect == Spec => []StampExact
<1>1. Inductive => StampExact
  BY DEF Inductive, Locals, StampExact
<1>2. QED BY <1>1, InductiveInit, InductiveNext, PTL DEF Spec

\* The interrupts alm_setup_alarm schedules call alm_get_stamp at least once
\* in every lap of the timer.
THEOREM PollingCorrect == Spec => []PolledInTime
<1>1. Inductive => PolledInTime
  <2>1. SUFFICES ASSUME Inductive, ilock = NULL
                 PROVE  /\ high_word + last_time <= clock
                        /\ clock - (high_word + last_time) < WRAP
    BY DEF PolledInTime
  <2>2. TypeOK /\ \A c \in Caller : pc[c] # "save"
    BY <2>1, StampAssumption DEF Inductive, Excluded, Caller
  <2>3. Agrees(high_word + last_time, last_time)
    BY <2>1, <2>2 DEF Inductive, Statics
  <2>4. QED BY <2>2, <2>3, Typing DEF Agrees
<1>2. QED BY <1>1, InductiveInit, InductiveNext, PTL DEF Spec

-----------------------------------------------------------------------------
(* The count may be set back. *)

Ordered == TypeOK /\ Excluded /\ Ascending

\* No timestamp has been handed out initially.
LEMMA OrderedInit == Init => Ordered
<1> SUFFICES ASSUME Init PROVE TypeOK /\ Excluded /\ Ascending
  BY DEF Ordered
<1>1. TypeOK /\ Excluded
  BY InductiveInit DEF Inductive
<1>2. \A c \in Caller : result[c] = 0 /\ pc[c] = "idle"
  BY DEF Init
<1>3. Ascending
  BY <1>1, <1>2, Typing DEF Ascending
<1>4. QED BY <1>1, <1>3

\* Every step, one back of the clock included, keeps the timestamps in order.
LEMMA OrderedNext == Ordered /\ [BackNext]_vars => Ordered'
<1> SUFFICES ASSUME Ordered, [BackNext]_vars PROVE TypeOK' /\ Excluded' /\ Ascending'
  BY DEF Ordered
<1> USE DEF timerVars, statics, locals
<1>1. /\ TypeOK /\ Excluded /\ Ascending
      /\ NULL \notin Caller /\ ISR \in Caller /\ Thread \subseteq Caller
  BY StampAssumption DEF Ordered, Caller
<1>2. ASSUME UNCHANGED <<high_word, last_time, now, result>>,
             \A c \in Caller : pc[c] = "save" <=> pc'[c] = "save"
      PROVE  Ascending'
  BY <1>1, <1>2 DEF Ascending
<1>3. CASE Tick \/ StepBack
  <2>1. /\ clock' \in Nat /\ count' \in 0..(WRAP - 1)
        /\ UNCHANGED <<high_word, last_time, ilock, pc, then, now, result, readAt, next_due>>
    BY <1>1, <1>3, Typing DEF Tick, StepBack
  <2>2. TypeOK' /\ Excluded'
    BY <1>1, <2>1 DEF TypeOK, Excluded
  <2>3. QED BY <1>2, <2>1, <2>2
<1>4. ASSUME NEW c \in Caller, NEW purpose \in {"stamp", "setup", "now"},
             LockInterrupts(c, purpose)
      PROVE  TypeOK' /\ Excluded' /\ Ascending'
  <2>1. TypeOK' /\ Excluded'
    BY <1>1, <1>4 DEF LockInterrupts, TypeOK, Excluded
  <2>2. QED BY <1>1, <1>2, <1>4, <2>1 DEF LockInterrupts, TypeOK
<1>5. ASSUME NEW c \in Caller, ReadTimer(c)
      PROVE  TypeOK' /\ Excluded' /\ Ascending'
  <2>1. TypeOK' /\ Excluded'
    BY <1>1, <1>5 DEF ReadTimer, TypeOK, Excluded
  <2>2. \A u \in Caller : pc[u] # "save" /\ pc'[u] # "save"
    BY <1>1, <1>5 DEF ReadTimer, TypeOK, Excluded
  <2>3. Ascending'
    BY <1>1, <1>5, <2>2 DEF ReadTimer, Ascending
  <2>4. QED BY <2>1, <2>3
<1>6. ASSUME NEW c \in Caller, CompareLast(c)
      PROVE  TypeOK' /\ Excluded' /\ Ascending'
  <2>1. /\ pc[c] = "compare" /\ ilock = c
        /\ pc' = [pc EXCEPT ![c] = "save"]
        /\ high_word' = IF now[c] < last_time THEN high_word + WRAP ELSE high_word
        /\ UNCHANGED <<clock, count, last_time, next_due, ilock, then, now, result, readAt>>
    BY <1>1, <1>6 DEF CompareLast, Excluded
  <2>2. TypeOK' /\ Excluded'
    <3>1. high_word' \in Nat
      BY <1>1, <2>1, Typing
    <3>2. QED BY <1>1, <2>1, <3>1 DEF TypeOK, Excluded
  <2>3. \A d \in Caller : result[d] <= high_word + last_time
    BY <1>1, <2>1 DEF Ascending, Excluded
  <2>4. high_word + last_time <= high_word' + now[c]
    BY <1>1, <2>1, Typing
  <2>5. \A d \in Caller : result'[d] <= high_word' + now'[c]
    <3>1. high_word + last_time \in Nat /\ high_word' + now[c] \in Nat
      BY <1>1, <2>2, Typing DEF TypeOK
    <3>2. QED BY <1>1, <2>1, <2>3, <2>4, <3>1, Typing
  <2>6. pc'[c] = "save"
    BY <1>1, <2>1 DEF TypeOK
  <2>7. QED BY <2>2, <2>5, <2>6 DEF Ascending
<1>7. ASSUME NEW c \in Caller, SaveLast(c)
      PROVE  /\ TypeOK' /\ Excluded' /\ Ascending'
             /\ \A d \in Caller : result[d] <= result'[c]
  <2>1. /\ pc[c] = "save" /\ ilock = c
        /\ pc' = [pc EXCEPT ![c] = "done"]
        /\ last_time' = now[c]
        /\ result' = [result EXCEPT ![c] = high_word + now[c]]
        /\ UNCHANGED <<clock, count, high_word, next_due, ilock, then, now, readAt>>
    BY <1>1, <1>7 DEF SaveLast, Excluded
  <2>2. TypeOK' /\ Excluded'
    <3>1. last_time' \in 0..(WRAP - 1) /\ high_word + now[c] \in Nat
      BY <1>1, <2>1, Typing
    <3>2. QED BY <1>1, <2>1, <3>1 DEF TypeOK, Excluded
  <2>3. \A d \in Caller : result[d] <= high_word + now[c]
    BY <1>1, <2>1 DEF Ascending, Excluded
  <2>4. result'[c] = high_word + now[c] /\ \A d \in Caller \ {c} : result'[d] = result[d]
    BY <1>1, <2>1 DEF TypeOK
  <2>5. high_word + now[c] \in Nat
    BY <1>1, Typing
  <2>6. \A u \in Caller : pc'[u] # "save"
    BY <1>1, <2>1 DEF Excluded, TypeOK
  <2>7. Ascending'
    BY <2>1, <2>3, <2>4, <2>5, <2>6 DEF Ascending
  <2>8. QED BY <2>2, <2>3, <2>4, <2>7
<1>8. ASSUME NEW c \in Caller, ReturnStamp(c)
      PROVE  TypeOK' /\ Excluded' /\ Ascending'
  <2>1. TypeOK' /\ Excluded'
    BY <1>1, <1>8 DEF ReturnStamp, TypeOK, Excluded
  <2>2. QED BY <1>1, <1>2, <1>8, <2>1 DEF ReturnStamp, TypeOK
<1>9. CASE HandlerLoops
  <2>1. TypeOK' /\ Excluded'
    BY <1>1, <1>9 DEF HandlerLoops, TypeOK, Excluded
  <2>2. QED BY <1>1, <1>2, <1>9, <2>1 DEF HandlerLoops, TypeOK
<1>10. ASSUME NEW c \in Caller, SetupAlarm(c)
       PROVE  TypeOK' /\ Excluded' /\ Ascending'
  <2>1. PICK d \in MIN_WAIT..MAX_WAIT : next_due' = result[c] + d
    BY <1>10 DEF SetupAlarm
  <2>2. next_due' \in Nat
    BY <1>1, <2>1, Typing
  <2>3. TypeOK' /\ Excluded'
    BY <1>1, <1>10, <2>2 DEF SetupAlarm, TypeOK, Excluded
  <2>4. QED BY <1>1, <1>2, <1>10, <2>3 DEF SetupAlarm, TypeOK
<1>11. CASE UNCHANGED vars
  BY <1>1, <1>11 DEF vars, TypeOK, Excluded, Ascending
<1>12. QED
  BY <1>1, <1>3, <1>4, <1>5, <1>6, <1>7, <1>8, <1>9, <1>10, <1>11
  DEF BackNext, Next, HandlerEnter, GetStamp

\* Every variable keeps its type; the count and last_time stay below WRAP.
THEOREM StampTypeCorrect == BackSpec => []TypeOK
<1>1. Ordered => TypeOK
  BY DEF Ordered
<1>2. QED BY <1>1, OrderedInit, OrderedNext, PTL DEF BackSpec

\* Timestamps never run backwards, whatever happens to the count.
THEOREM StampsAscending == BackSpec => StampsAscend
<1>1. Ordered /\ [BackNext]_vars => [NotBefore]_vars
  <2> SUFFICES ASSUME Ordered, BackNext,
                      NEW c \in Caller, NEW d \in Caller, pc[c] = "save", pc'[c] = "done"
               PROVE  result[d] <= result'[c]
    BY DEF NotBefore
  <2> USE DEF timerVars, statics, locals
  <2>1. TypeOK /\ Excluded /\ Ascending /\ ISR \in Caller /\ Thread \subseteq Caller
    BY DEF Ordered, Caller
  <2>2. \A u \in Caller \ {c} : pc[u] = "idle"
    BY <2>1 DEF Excluded
  <2>3. SaveLast(c)
    BY <2>1, <2>2 DEF BackNext, Next, Tick, StepBack, HandlerEnter, LockInterrupts, HandlerLoops,
                      GetStamp, ReadTimer, CompareLast, SaveLast, ReturnStamp, SetupAlarm, TypeOK
  <2>4. result[d] <= high_word + now[c]
    BY <2>1, <2>2 DEF Ascending
  <2>5. result'[c] = high_word + now[c]
    BY <2>1, <2>3 DEF SaveLast, TypeOK
  <2>6. QED BY <2>4, <2>5
<1>2. QED BY <1>1, OrderedInit, OrderedNext, PTL DEF BackSpec, StampsAscend
=============================================================================
