---------------------------- MODULE MCAlmLibPtr ----------------------------
(* Small instances of AlmLibPtr for TLC, and the refinement of AlmLib. *)
EXTENDS AlmLibPtr

\* Threads and alarms are only compared for equality.
Symmetry == Permutations(Thread) \cup Permutations(Alarm)

\* The alarm alm_start has cancelled and is about to unlink: for AlmLib, where
\* both are one step, it is out of the queue already.
Unlinking == {what[t] : t \in {u \in Thread : pc[u] = "remove"}}
Gaps  == {i \in DOMAIN List : List[i] \in Unlinking}
Queue == IF Gaps = {} THEN List ELSE RemoveAt(List, CHOOSE i \in Gaps : TRUE)

\* Where a cursor is in the list, and how many alarms of the queue come before it.
Place(p) == IF p = NULL THEN Len(List) + 1 ELSE CHOOSE i \in DOMAIN List : List[i] = p
Passed(p) ==
  LET place == Place(p)
  IN  IF \E i \in Gaps : i < place THEN place - 2 ELSE place - 1

\* AlmLib advances its cursor with the step that deals with an alarm.
IsrPos ==
  LET passed == Passed(isr.alm)
  IN  IF isr.pc \in {"advance", "pass"} /\ isr.alm \notin Unlinking THEN passed + 2 ELSE passed + 1

IsrPc == IF \E i \in 1..(IsrPos - 1) : time_due[Queue[i]] > isr.now THEN "skip" ELSE "due"

Isr == [pc  |-> IF Running THEN IsrPc ELSE "idle",
        pos |-> IF Running THEN IsrPos ELSE 1,
        now |-> isr.now]

\* AlmLib assigns time_due and active in one step.
Activating(a) == {t \in Thread : pc[t] = "activate" /\ what[t] = a}
DueDate == [a \in Alarm |->
  IF Activating(a) = {} THEN time_due[a] ELSE was[CHOOSE t \in Activating(a) : TRUE]]

Enqueued == [a \in Alarm |-> enqueued[a] /\ a \notin Unlinking]

AbstractPc(from, d) ==
  CASE from = "cancel" -> "remove"
    [] from = "remove" -> IF d < MAX_DELAY THEN "activate" ELSE "unlock"
    [] from = "due" -> "activate"
    [] from = "link" -> "insert"
    [] from \in {"dump", "walk"} -> "idle"
    [] OTHER -> from
Pc == [t \in Thread |-> AbstractPc(pc[t], delay[t])]

\* AlmLib knows nothing of alm_dump_queue.
Owner == IF \E t \in Thread : pc[t] = "walk" THEN NULL ELSE lock
Marked == [t \in Thread |-> IF pc[t] = "purge" THEN Passed(cur[t]) ELSE 0]

Almlib == INSTANCE MCAlmLib WITH
  isr <- Isr, queue <- Queue, time_due <- DueDate, enqueued <- Enqueued,
  lock <- Owner, pc <- Pc, cur <- Marked

\* On a target with real interrupts the linked list implements the queue of
\* AlmLib: every access by access interleaving of threads, handler and
\* alm_dump_queue is one of AlmLib's coarser steps, or changes nothing there.
ImplementsAlmLib == Almlib!Spec

\* And so it keeps the promise of almLib.h: alarms ring in interrupt context
\* only, when due, once for each alm_start.
ListKeepsPromise == Almlib!KeepsPromise
=============================================================================
