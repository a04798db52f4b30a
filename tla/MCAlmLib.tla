----------------------------- MODULE MCAlmLib -----------------------------
(* Small instances of AlmLib for TLC, and the promise it implements. *)
EXTENDS AlmLib

\* Threads and alarms are only compared for equality.
Symmetry == Permutations(Thread) \cup Permutations(Alarm)

\* An alarm is due when it is active, wherever it is on its way into the queue.
DueDates == [a \in Alarm |-> IF active[a] THEN time_due[a] ELSE -1]

\* A request is in progress until alm_start sets the alarm's fields.
Asking(t) == pc[t] \in {"lock", "purge", "remove", "activate"}
Requests ==
  [t \in Thread |->
     IF Asking(t) THEN {[alm |-> what[t], from |-> tstart[t], delay |-> delay[t]]} ELSE {}]

Promise == INSTANCE AlarmClock WITH
  Client <- Thread, serving <- Running, due <- DueDates, ask <- Requests

\* The queue, mutex, timer and handler together keep the promise of almLib.h:
\* alarms ring in interrupt context only, when due, once for each alm_start.
KeepsPromise == Promise!Spec

\* And every alarm armed does ring, unless cancelled, restarted or destroyed.
KeepsRinging == Promise!EventuallyRings
=============================================================================
