------------------------------ MODULE AlmTest ------------------------------
(***************************************************************************)
(* The test drivers of almLib.c as clients of AlmLib.  Each thread runs    *)
(* one of them: alm_test_sem and alm_test_create_event with one alarm,     *)
(* alm_test_cb with several.  The callbacks of the former post a semaphore *)
(* or an event that belongs to the test, those of all alm_test_cb decrease *)
(* the one static variable `counter'.  The latencies that the tests print  *)
(* are left out.                                                           *)
(***************************************************************************)
EXTENDS AlmLib, FiniteSetsExt

CONSTANTS
  Num,      \* how many alarms each thread's test uses
  Counting, \* the threads that run alm_test_cb
  OneAtATime,  \* of them only one runs at a time, as the shell calls alm_test_cb
  Overlap   \* alm_test_cb: start each alarm before the next is created

ASSUME TestAssumption ==
  /\ Num \in [Thread -> Nat \ {0}]
  /\ Counting \subseteq Thread /\ \A t \in Thread \ Counting : Num[t] = 1
  /\ OneAtATime \in BOOLEAN /\ Overlap \in BOOLEAN

VARIABLES
  step,     \* where each thread is in its test
  mine,     \* the alarms it has created, in order (x->alm)
  started,  \* how many of them it has started
  counter,  \* how many callbacks alm_test_cb waits for, whichever thread runs it
  posted    \* how often each test's semaphore or event has been posted

signalVars == <<counter, posted>>
testVars == <<step, mine, started, signalVars>>

\* The thread is not inside the library.
Ready(t, s) == pc[t] = "idle" /\ step[t] = s

Owner(a) == {t \in Thread : a \in ToSet(mine[t])}

\* No other thread is inside alm_test_cb.
Alone(t) == \A u \in Counting \ {t} : step[u] \in {"begin", "end"}

\* alm_test_cb sets the counter, the others have a semaphore or event of their own.
Begin(t) ==
  /\ Ready(t, "begin") /\ ~Running
  /\ IF t \in Counting
     THEN /\ OneAtATime => Alone(t)
          /\ counter' = Num[t] /\ UNCHANGED posted
     ELSE /\ posted' = [posted EXCEPT ![t] = 0]
          /\ UNCHANGED counter
  /\ step' = [step EXCEPT ![t] = "setup"]
  /\ UNCHANGED <<vars, mine, started>>

\* alm_create for the next alarm; unless Overlap all are created first.
CreateNext(t) ==
  /\ Ready(t, "setup")
  /\ Len(mine[t]) < Num[t]
  /\ Overlap => started[t] = Len(mine[t])
  /\ \E a \in Alarm :
       /\ Create(t, a)
       /\ mine' = [mine EXCEPT ![t] = Append(@, a)]
  /\ UNCHANGED <<step, started, signalVars>>

StartNext(t) ==
  /\ Ready(t, "setup")
  /\ started[t] < Len(mine[t])
  /\ Overlap \/ Len(mine[t]) = Num[t]
  /\ \E d \in Delay : Start(t, mine[t][started[t] + 1], d)
  /\ started' = [started EXCEPT ![t] = @ + 1]
  /\ UNCHANGED <<step, mine, signalVars>>

\* The loop of alm_test_cb sees that all callbacks have been called, or sem_wait
\* and epicsEventWait return.
Wait(t) ==
  /\ Ready(t, "setup") /\ ~Running
  /\ started[t] = Num[t]
  /\ IF t \in Counting THEN counter <= 0 /\ UNCHANGED posted
     ELSE posted[t] > 0 /\ posted' = [posted EXCEPT ![t] = @ - 1]
  /\ step' = [step EXCEPT ![t] = "clear"]
  /\ UNCHANGED <<vars, mine, started, counter>>

DestroyNext(t) ==
  /\ Ready(t, "clear") /\ mine[t] # <<>>
  /\ Destroy(t, Head(mine[t]))
  /\ mine' = [mine EXCEPT ![t] = Tail(@)]
  /\ UNCHANGED <<step, started, signalVars>>

\* The test returns.
End(t) ==
  /\ Ready(t, "clear") /\ mine[t] = <<>> /\ ~Running
  /\ step' = [step EXCEPT ![t] = "end"]
  /\ UNCHANGED <<vars, mine, started, signalVars>>

\* The tests whose callback the handler calls next.
Called == IF active[queue[isr.pos]] THEN Owner(queue[isr.pos]) ELSE {}

\* test_cb, sem_post and epicsEventSignal, called by the handler.
Callback ==
  /\ HandlerDue
  /\ counter' = IF Called \cap Counting = {} THEN counter ELSE counter - 1
  /\ posted' = [t \in Thread |->
       IF t \in Called \ Counting THEN posted[t] + 1 ELSE posted[t]]
  /\ UNCHANGED <<step, mine, started>>

Test(t) == Begin(t) \/ CreateNext(t) \/ StartNext(t) \/ Wait(t) \/ DestroyNext(t) \/ End(t)

TestInit ==
  /\ Init
  /\ step = [t \in Thread |-> "begin"]
  /\ mine = [t \in Thread |-> <<>>]
  /\ started = [t \in Thread |-> 0]
  /\ counter = 0
  /\ posted = [t \in Thread |-> 0]

\* What goes on without the drivers' knowledge.
Handler_ == (HandlerEnter \/ HandlerSkip \/ HandlerSetup) /\ UNCHANGED testVars
Timer_ == (Tick \/ TimerExpires) /\ UNCHANGED testVars

TestNext ==
  \/ Timer_ \/ Handler_ \/ Callback
  \/ \E t \in Thread : ThreadStep(t) /\ UNCHANGED testVars
  \/ \E t \in Thread : Test(t)

testSpecVars == <<vars, testVars>>

TestSpec == TestInit /\ [][TestNext]_testSpecVars

\* As in AlmLib; the drivers go on whenever they can.
TestFairness ==
  /\ WF_testSpecVars(Tick /\ UNCHANGED testVars)
  /\ WF_testSpecVars(TimerMustExpire /\ UNCHANGED testVars)
  /\ WF_testSpecVars(Callback \/ Handler_)
  /\ \A t \in Thread : SF_testSpecVars(ThreadStep(t) /\ UNCHANGED testVars)
  /\ \A t \in Thread : SF_testSpecVars(Test(t))

FairTestSpec == TestSpec /\ TestFairness
-----------------------------------------------------------------------------
\* How many of its callbacks a test has counted.
Rung(t) == IF t \in Counting THEN Num[t] - counter ELSE posted[t]

\* A test has counted exactly the alarms it has started and that are no longer to
\* ring: no callback comes twice, or is counted for somebody else, although all
\* alm_test_cb count in one variable, one after the other.
CounterExact ==
  \A t \in Thread : step[t] = "setup" =>
    LET own == {i \in 1..started[t] : active[mine[t][i]]}
        setting == {i \in 1..started[t] :
                      what[t] = mine[t][i] /\ pc[t] \in {"lock", "purge", "remove", "activate"}}
    IN  Rung(t) = started[t] - Cardinality(own \cup setting)

\* README.testing: "After alm_test_cb returns normally, the alarm queue should
\* be empty"; and everything is freed.
EmptyAfterTests ==
  (\A t \in Thread : step[t] = "end") => queue = <<>> /\ created = {}

\* The tests do not print dots, or wait for a semaphore, forever.
TestsEnd == <>(\A t \in Thread : step[t] = "end")
=============================================================================
