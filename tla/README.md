# A formal model of almLib

`almLib` is a high resolution timer and alarm clock library for EPICS IOCs. Clients
create alarms, start them with a delay in microseconds and get a callback from interrupt
context when the delay has passed. Everything rests on one low-level one-shot timer and one
free running microsecond count, for which there is a port per board.

This directory holds TLA+ modules for the library, TLC configurations that check them on
small instances, and proofs, checked by TLAPS, for every value of the constants. Paths below
are relative to the repository's `src/`.

## Inventory

| part | state | operations | who calls it | what is hard |
|---|---|---|---|---|
| alarm queue (`almLib.c`) | list from `first_alm`; per alarm `time_due`, `active`, `enqueued`, `next`; mutex `alm_lock` | `alm_start`, `alm_cancel`, `alm_create`, `alm_destroy`, `alm_dump_queue` | threads, preempted at any point | list changes are not interrupt-locked; `alm_cancel` and the test in `alm_destroy` take no lock at all |
| interrupt handler (`almLib.c`) | none of its own | `alm_int_handler` | the timer's interrupt | callbacks may cancel alarms; runs between any two steps of a queue operation, resets `active` under the feet of the threads, must leave an interrupt scheduled |
| alarm setup (`almLib.c`) | `next_due`, the timer | `alm_setup_alarm` | handler and `alm_start` | decides from a remembered due date whether the timer may stay as it is; limits the delay at both ends |
| timestamps (`almLib.c`) | `high_word`, `last_time` | `alm_get_stamp` | everybody, also in interrupts | counts the wraps of a 32 bit count nobody announces; depends on being polled |
| initialisation (`almLib.c`) | `init_state` | `alm_init`, `alm_init_state` | startup script | fails half way without being retried; the interrupt is unmasked before the timer is set up; timestamps can be used before it |
| test drivers (`almLib.c`, `README.testing`) | one static `counter` for all `alm_test_cb`; latency statistics | `alm_test_sem`, `alm_test_sem_many`, `alm_test_cb`, `alm_test_create_event` | shell | destroy alarms right after their callback; callbacks of several drivers |
| timer ports (`alm_ppcDec.c`, `alm_mcc.c`, `timer_RTEMS-*.c`, `timer_vxWorks-*.c`, `timer_Linux.c`; interface `timer.h`) | device registers | `timer_setup`, `timer_get_stamp`, `timer_int_ack`, `timer_get_max_delay`, ... | `almLib.c` | unit conversions with truncation and masks; write order of registers; on Linux the "interrupt" is a thread and the clock can be set |
| time base (`ppc_timebase_reg.c`) | none | `readTimeBaseReg` | PPC ports | 64 bit value in two reads |
| 64 bit division (`div64.c`) | none | `__udivdi3`, `__umoddi3`, `__divdi3` | compiler generated code on vxWorks | bits shifted out, signs, divisor zero |
| shell commands (`almRegisterCmds.c`) | none | registration | EPICS shell | nothing |

A part is correct when

* queue: `enqueued` says what is linked, nothing is linked twice or after it has been freed,
  the list is sorted by `time_due` whenever an interrupt can look at it;
* handler and setup: no active alarm is ever without an interrupt that comes in time; alarms
  ring when due, not before, once per start; every alarm left alone rings in the end;
* timestamps: the 64 bit stamp is exact for ever, whoever asks when;
* initialisation: a failed `alm_init` leaves nothing that runs, and after a successful one interrupts
  never end;
* ports: a timer set for d microseconds goes off neither before d (but for truncation) nor a
  lap late; stamps are microseconds modulo 2^32.

`PROJECT.json` lists the hazards at their lines, with the properties that cover them.

## Modules

### AlmLib — queue, mutex, handler, timer

One CPU with real interrupts (the vxWorks and RTEMS ports). The variables are those of the
code: `queue` is the sequence of alarms reachable from `first_alm`, `time_due`, `active`,
`enqueued` the fields, `lock` the owner of `alm_lock`, `next_due` the static. `hw` and
`pending` are the low-level timer: the time at which the one-shot timer expires, and its
interrupt request. `time` is what `alm_get_stamp` returns (module AlmStamp shows that it may
be taken for granted).

The grain: a step is what a concurrent observer can tell apart. Each thread has a `pc`:

| pc | next step | code |
|---|---|---|
| `idle` | `Start`: take the stamp; or `Cancel`, `Create`, `Destroy` | `almLib.c:189`, `265`, `268-280`, `294` |
| `lock` | `Lock` | `191` |
| `purge` | `Purge` for each inactive alarm at the head, then `PurgeEnd` | `231-235` |
| `remove` | `Remove_`: cancel and unlink; if the delay is too long on to `unlock` | `193-196` |
| `activate` | `Activate`: set `time_due` and `active` | `197-198` |
| `insert` | `Insert` | `199`, `207-224` |
| `check` | `Check` | `200` |
| `setup` | `Setup`: `alm_setup_alarm`, one step because it locks interrupts | `201`, `130-150` |
| `unlock` | `Unlock` | `203` |
| `test`, `extract`, `free` | `DestroyTest`, `DestroyRemove`, `Free` | `295`, `297-299`, `301-303` |

`alm_insert` and `alm_remove` are one step each although they have several assignments:
under the mutex only the handler can look, and for the handler the list changes with the one
pointer assignment at `220`/`222` or `256`/`258` (`what->next` is set while `what` is not
linked, or still points to its successor while it is unlinked, and the handler never reads
`enqueued`). The one reader of `enqueued` outside the mutex is `alm_destroy`, about its own
alarm, which nobody inserts at the time. `time_due` and `active` are set in one step because
the alarm is not linked then and only the handler and `alm_cancel` could come in between.
The cursor of the handler is a position in `queue`: no thread runs while the handler does, so
the list stands still under it.

The handler is `HandlerEnter`, then one step per alarm of its two loops (`HandlerDue`,
`HandlerSkip`), then `HandlerSetup`. Only the clock and the timer move meanwhile.

The timer may expire at any time after it has been set up, and must have expired when its
time has come (`TimerMustExpire`). Early expiry is what truncated conversions do, and stands for
a request that was pending when the timer was set up again.

A callback must not block (`almLib.h:49-56`), so it cannot call `alm_start`, which takes the mutex; it
can call `alm_cancel`, which takes nothing. `CallbackCancels` is that: while the handler
stands at an alarm that is due and still active, any other alarm is cancelled, any number of times.

Two assumptions about clients: an alarm handle is not passed to `alm_destroy` while another
thread is inside a call with the same handle, nor used afterwards (`almLib.h:102-105`);
and, when `DestroyRaces = FALSE`, `alm_destroy` does not come to its test of `enqueued` while
another thread is inside `alm_start` *for any alarm*. Nothing in the library enforces the second
one; see "Findings".

### AlarmClock and MCAlmLib — the promise

AlarmClock is what `almLib.h` promises, without queue, mutex or timer: four variables, and an
alarm that has been armed rings while an interrupt is served, not before its delay has passed
since the call, once. `ask` holds the requests clients have in progress, none or one each. While
an overdue alarm is being served its callback may take back another one (`TakeBack`). MCAlmLib instantiates it with a refinement mapping (an alarm is due when
it is active, a request is in progress until `Activate`) and states that AlmLib implements it
(`KeepsPromise`) and that every armed alarm rings unless taken back (`KeepsRinging`).

### AlmStamp and AlmStampBack — where time comes from

`alm_get_stamp` step by step (lock, read, compare, save) for threads and the handler, on a
count that wraps at `WRAP`. `alm_setup_alarm` appears with what it guarantees to
polling: a delay between `MIN_WAIT` and `MAX_WAIT`, and from a thread only for a due date no
later than `next_due` or `MIN_WAIT` from now. `Latency` is the time from `next_due` to the
handler's own `alm_setup_alarm`: interrupt response, interrupt-locked code and
callbacks. The assumption `MAX_WAIT + Latency < WRAP` reads, with the constants of the code,
that this takes less than 2^31 microseconds.

AlmStampBack adds a clock that is set back, as `CLOCK_REALTIME` on Linux can be: `StepBack`,
any number of times while `high_word` is below `Horizon`. Stamps are then wrong
(`clock_set_back`), but still do not run backwards (`SetBackStampsAscend` in MCPorts).

### AlmLibPtr and MCAlmLibPtr — the list as it is stored

The same operations on `first_alm` and the `next` fields, split where somebody else can look: alarms
are cancelled and unlinked, overwritten and activated, marked and linked in steps of their own, the
handler has a step for each access to a field (`isr.pc`), and `alm_dump_queue` walks along. List
walks that only the mutex owner makes (`Before`, `Position`) are one step with the assignment they
lead to: nobody else writes a `next` field.

With `HandlerIsThread = FALSE` threads stand still while the handler runs, as they do in AlmLib, and
MCAlmLibPtr states the refinement (`ImplementsAlmLib`), with a name for each variable of AlmLib. `Queue` is the path from
`first_alm` (`List`) without an alarm that is cancelled and about to be unlinked (`Unlinking`), which AlmLib does in one step;
the handler's position `IsrPos` and the count `Marked` of what `alm_purge` has passed are numbers of nodes along that path
(`Place`, `Passed`); `DueDate` is the old value (history variable `was`) until `Activate`; `Pc` and `Owner` leave
`alm_dump_queue` out, of which AlmLib knows nothing. `ListKeepsPromise` composes this with the refinement of AlarmClock.

With `HandlerIsThread = TRUE` this is the Linux port: `timer_Linux.c` calls the handler from a
notification thread that holds the interrupt lock, which keeps other threads out of
`alm_get_stamp` and `alm_setup_alarm` and out of nothing else. `Calls` says what clients do in a run besides
creating alarms and starting those that are not in the queue. What holds and what does not on Linux
depends on it; see "Findings".

### AlmTest and MCAlmTest — the test drivers

`alm_test_sem`, `alm_test_cb` and `alm_test_create_event` as clients of AlmLib, whose module AlmTest
extends: create, start, wait, destroy. The first and the last wait for a semaphore or an event of their own, which
their callback posts (`posted`). All `alm_test_cb`, the threads in `Counting`, wait for the one static `counter`
(`almLib.c:442`) that each sets at its beginning (`465`) and the callbacks of all decrease (`449`). With `OneAtATime`
only one of them runs at a time: that is how a shell calls them, nothing in the code enforces it. A handler step of AlmLib
and the callback it calls are one step (`Handler_` and `Callback`).

### OneShot, TimerPort and the ports

OneShot is the contract of `timer.h`, on the scale of `timer_get_stamp`: a timer that has been set up
requests one interrupt, not before the delay has passed (unless `Early`) and at most `Late` after; a new setup
takes the place of the old one. This is the timer AlmLib is built on, which even allows it to be early.

TimerPort is how `almLib.c` uses a port. `alm_init` is modelled call by call, in the order of the code: `timer_init`, the
interrupt level, the mutex, installing the handler, enabling the interrupt, the first
`alm_setup_alarm`. `init_state` is `ALM_INIT_FAILED` from the first step on and `ALM_INIT_OK` after the last; each call
that has a result may fail, and a second `alm_init` returns at once. The device goes on all
the time, and `alm_init` may be called at any of the first `LastInit` ticks. Afterwards `timer_setup` is called from
a thread with interrupts locked, or from the handler after `timer_int_ack`, with the delay limited by
`timer_get_max_delay`. Each port extends it by the registers of its device, which goes on between any two
register writes:

* TimerPpcDec (`alm_ppcDec.c`): a count that is reloaded when bit 31 of the base count
  register falls, and after each expiry; it runs at half the rate of the time base;
* TimerMcc (`alm_mcc.c`): a free running counter and a compare register, at least `int_inhibit` ahead;
* TimerMv64260 (`timer_RTEMS-mvme5500.c`, and with `Altivec` `timer_vxWorks-ppc604_altivec.c`): a
  counter with a mode, disabled, written and enabled in four writes. In the altivec port `intConnect` may
  succeed and `intEnable` fail (`ConnectOnly`);
* TimerBeatnik (`timer_RTEMS-beatnik.c`): a timer of the board support package. The rates of timer and
  time base are both cut to whole ticks per microsecond, by different factors, and `alarm_max` comes from
  the exact rate. `timer_init` is modelled statement by statement, because `alm_get_stamp` calls it too, with
  interrupts open and perhaps before `alm_init` (`FirstStamp`, `WriteNumber`, `WriteRate`, `WriteMax`);
* TimerLinux (`timer_Linux.c`): a POSIX timer. `ItValue` is the conversion of the delay with its mistake, and
  every expiry starts a thread that waits for the interrupt lock (`threads`). `timer_create` may fail.

The devices are external: what they do is taken from the comments in the ports. Three constants bound the ticks that
pass:

* `Slack`, from the timestamp that `alm_setup_alarm` takes to the end of its `timer_setup`. It is what an interrupt may be late by;
* `Response`, from an interrupt request until the handler calls `alm_setup_alarm`: until interrupts are open, the latencies of
  9 to 94 microseconds of which `README.testing:21` reports, and then all callbacks. Also the part of `alm_init` before its `alm_setup_alarm`;
* `SetupTicks` in TimerMcc: under the interrupt lock that the `timer_setup` of the MCchip takes itself (`alm_mcc.c:78-86`), from reading the counter on.

On the MCchip `SetupTicks` must be less than `int_inhibit`, 10 microseconds, or the counter passes the compare value before it is
written; and `Response` and `Slack` together must be less than a lap of the counter, 71 minutes, or it meets the last compare value
again. Where `PartsAssumption` is given up by one tick in either, TLC finds a counterexample. No other port needs to know how long the handler takes.

### TimeBase, Div64 — below the ports

TimeBase is the read loop of `ppc_timebase_reg.c`, one step per instruction, while the register counts.
Div64 is the shift-and-subtract loop of `div64.c`, for words of `W` bits; quotient and remainder
functions are one machine, of whose results each returns one.

### MCPorts

Runs ports, time base, division and a set-back clock as separate parts of one model (`part`): in a behaviour
one of them moves. Widths and rates are constants, which `Ports.cfg` makes small; `PartsAssumption` says how they
must fit together. Each port is held against OneShot with a `Late` of its own, a formula over these constants: the
`Slack` before the device is started, rounded up to microseconds, and what the port adds to a delay
(`MccAdds`, `BeatnikAdds`). Powers of two are the function `Pow2` of module Words.

### Proof modules

`QueueLemmas` (SubSeq, RemoveAt, InsertAt, least numbers); `AlmLibProofs`, the invariant of AlmLib;
`AlmLibPromiseProofs`, the refinement of AlarmClock; `AlmLibPtrProofs`, the linked list;
`AlmLibPtrPromiseProofs`, that the list implements the queue; `AlmTestProofs`; `AlmStampProofs`;
`PortsProofs`, the ports, the time base, the division and the set-back clock, as MCPorts puts them together.

## Runs

| run | instance | checks |
|---|---|---|
| `alarm_safety` | AlmLib, 2 threads, 2 alarms, delays 0, 2 and too long, 2.9M states | `TypeOK`, `EnqueuedIffQueued`, `QueueSorted`, `ActiveCovered`, `AssertionsHold`, `NoFreedInQueue`, `Inductive`, `KeepsPromise` |
| `alarms_ring` | AlmLib, 2 threads, 2 alarms, fair, 0.8M states | `KeepsRinging` |
| `stamp_wraps` | AlmStamp, 2 threads and the handler, `WRAP` 5, 12 microseconds, 1.2M states | `TypeOK`, `StampExact`, `PolledInTime`, `Inductive`, `StampsAscend` |
| `list_refines` | AlmLibPtr, 2 threads, 2 alarms, 1.5M states | `TypeOK`, `ListInductive`, `ImplementsAlmLib` |
| `list_middle` | AlmLibPtr, 1 thread, 3 alarms, delays 0 and 1, 0.8M states | `ListSound`, `HandlerAsserts`, `ImplementsAlmLib`, `ListKeepsPromise` |
| `linux` | AlmLibPtr with a handler thread, 2 threads, 2 alarms, delays 0 and 2, fair, 0.8M states | `ActiveCovered`, `ActiveRings`, `NoStartUndone` |
| `tests` | AlmTest, 3 alarms, 3 drivers: `alm_test_cb` with 2 and with 1 alarm, `alm_test_sem`, fair, 0.3M states | `CounterExact`, `EmptyAfterTests`, `TestsEnd` |
| `ports` | registers of 4 and 5 bits, 40 ticks; halves of 3 values; words of 5 bits, 4.4M states | `InitReported`, `PpcDecKeeps`, `MccKeeps`, `Mv64260Keeps`, `BeatnikKeeps`, `LinuxKeeps`, `ReadsExact`, `DivisionInvariant`, `DivisionExact`, `DivisionSigned`, `DivisionReturns`, `SetBackStampsAscend` |
| `destroy_race`, `linux_cancel`, `clock_set_back`, `altivec_units` | | a counterexample each, see "Findings" |

Bounds. Two alarms are the least with an order between them, a head and a tail, equal and
different due dates, and three have a middle. In `list_middle` the two delays are used in any order, so that an alarm is linked before one, between two and behind others, and is taken out at
each of these places; one thread does all of it, because what two do to the list at a time is in `list_refines`. Two threads are the least
that compete for the mutex. A delay
of 0 is due before the thread gets to insert the alarm, 2 is beyond what the timer can count in
`alarms_ring` (`TimerMax` 1) and at its limit in `alarm_safety`, and the
greatest one there is `MAX_DELAY` itself, the first that is refused. `linux` has no refused delay, see "Findings". `LastStart` is the last time at
which `alm_start` is called, `Horizon` the last time at all. At `Horizon` the clock
stands still, the timer expires at once and everything else goes on: it stands for all later times. The
handler then reads `Horizon` for now, so an alarm rings in the model if its due date is within it; in the
fair runs every due date is.
The symmetry sets permute threads and alarms, which are only compared for equality; the runs with liveness
do not use symmetry.
In `stamp_wraps` the clock makes at least two laps from every starting count, and
`MAX_WAIT + Latency` is `WRAP - 1`, the tightest the assumption allows.
In `tests` no delay passes: alarms are due at once, which leaves the interleaving of drivers, mutex and handler.
In `ports` `Response` and `Slack` together are one tick less than a lap of the MCchip's counter and `SetupTicks` is one less than
`int_inhibit`, as large as they may be. The greatest delay is half a lap of the MCchip's counter, as `MAX_WAIT` is half of 2^32, and more than
what `timer_get_max_delay` allows on the others; 40 ticks are two laps of the counter and enough for
the longest delay of each port after an earlier one; `LastInit` 2 lets `alm_init` begin at different
phases of the device, which repeat. The beatnik rates, 16 and 8 per second of 5 microseconds, are cut to 3 and 1 ticks per
microsecond: the error is much larger than that of the board, 133 for 133.33 and 33 for 33.33, and the delay is
short. A second of Linux has 4 microseconds of 3 nanoseconds, so that all delays with and without whole seconds
occur. The values of `Late` (1 for ppcDec, 7 MCchip, 2 MV64260, 4 beatnik, 2 Linux) are tight: with one less TLC finds a step
that is late. The time base carries into its upper half three times; the division
is tried with every pair of words.

Fairness. The clock runs; a timer that is due expires; a requested interrupt is served and
the handler returns (weak: nothing disables these but themselves). Each thread step is strongly
fair: a thread inside the library is interrupted again and again and waits for a mutex that others
take in turn, but gets the CPU and the mutex repeatedly. This is what priority-inheriting mutexes and
a scheduler without starvation give; nothing is assumed about calls being made. `KeepsRinging`
also needs that clients stop starting alarms (`LastStart`): an alarm with delay zero that is restarted
faster than every `MIN_WAIT` moves the interrupt ahead each time, and with endless
restarts the handler may never be entered. The drivers' own steps in `tests` are strongly fair like other thread steps,
because the handler interrupts a driver again and again, and another `alm_test_cb` or the mutex may stand in its way for a while.
The division is one processor's loop (weak).

## Findings

* `destroy_race` — `alm_destroy` tests `enqueued` (`almLib.c:295`) without the mutex. `alm_purge`
  in another thread's `alm_start` resets the flag of inactive alarms (`232`) before it moves
  `first_alm` (`235`). In between, the alarm looks unlinked, is freed, and the handler or a queue
  walk still reaches it. Testing under the mutex removes it.
* `linux_cancel` — on Linux `alm_cancel` takes no lock that the handler thread holds, so the alarm the
  handler has just found active can be inactive at `assert(alm->active)` (`almLib.c:114`). With real
  interrupts the assertion holds (`list_middle`).
* `clock_set_back` — on Linux the count comes from `CLOCK_REALTIME`; when that is set back
  `alm_get_stamp` sees a wrap and is 2^32 microseconds ahead from then on.
* `altivec_units` — `timer_timebase_to_usec` of the altivec port computes microseconds and returns ticks
  (`timer_vxWorks-ppc604_altivec.c:109,111`); its delays are in microseconds. The mvme5500 port, which is the same
  otherwise, returns what it has computed.

Disagreements met while modelling that no run of this project states:

* the comment at `almLib.c:53` says "strictly sorted"; alarms with equal due dates
  are neighbours in the queue (`almLib.c:213`). What the handler needs is sortedness, which holds;
* `almLib.h:118` says delays greater than `MAX_DELAY` are ignored; the call cancels
  and unlinks a running alarm before it looks at the delay, and `MAX_DELAY` itself is refused as well
  (`almLib.c:193-196`);
* on Linux, with alarms that are restarted while they are in the queue: the handler's cursor moves
  with an alarm that is linked further back, so that active alarms are passed over
  (`almLib.c:106,109`), and the reset of `active` after the callback (`almLib.c:104`) can undo a start; with
  alarms that are destroyed when their callback has come, as the drivers do, the handler goes on reading a freed
  alarm (`almLib.c:104,106`). This is why `Calls` in `linux` has neither. What `linux` shows holds only while no delay
  is refused, too: an alarm that rang may be purged by one thread and started by another while the handler, behind its test of the
  due date, has still to look at the flag. `NoStartUndone` says that this start does not come between, and what prevents it is that the thread
  that has purged keeps the mutex until it gets the interrupt lock in `alm_setup_alarm`. A thread that is refused does not go there;
  the start then fits between two steps of the handler, which undoes it;
* two `alm_test_cb` at a time, in two shells, overwrite each other's `counter` (`almLib.c:465`): with `OneAtATime = FALSE` `CounterExact` is
  violated, and a driver can go on to destroy alarms that have not rung;
* `alm_dump_queue` reads `first_alm` (`almLib.c:356`) before it takes the mutex (`362`);
* `timer_setup` on Linux stores microseconds in `tv_nsec` (`timer_Linux.c:60`): the timer is early, and the
  handler sets it up again, up to hundreds of times for one alarm. `LinuxKeeps` allows early interrupts and so does not
  catch the mistake itself; it shows that nothing worse comes of it: a delay of at least `MIN_WAIT` never becomes the
  zero that would disarm the timer;
* `timer_enable` on Linux can fail (`timer_Linux.c:77`) without `alm_init` knowing. `InitReported` and
  `LinuxKeeps` except that case (`Unnoticed`), and no other: they do not catch it, and no property does;
* `timer_init` of the beatnik port sets `done` before it writes the statics (`timer_RTEMS-beatnik.c:55-66`). If a thread has
  called `alm_get_stamp`, which `almLib.h:71-72` allows before `alm_init`, and is interrupted there, `alm_init` goes on with
  timer number -1 and can return `ALM_INIT_OK` without a timer. `InitReported` and `BeatnikKeeps` except
  that case (`hasty`) and so do not catch it either;
* on the beatnik both rates are cut to whole ticks per microsecond (`timer_RTEMS-beatnik.c:65-66`, `125`). If they are 133.33 and
  33.33, timestamps run one percent fast and the timer a quarter percent, so that an interrupt is late by 0.76
  percent of its delay, as timestamps have it. `alarm_max` limits a single setup to 32 seconds, and the lateness to a quarter of
  a second, which is within the contract with `Late` large enough.

## Proofs

All theorems hold for any sets of alarms and threads, any delays and any values of the timing
constants with `MIN_WAIT <= MAX_WAIT` and `MIN_WAIT <= TimerMax`
(`ConstantsAssumption`); those of AlmLib, but for `TypeCorrect`, assume
`DestroyRaces = FALSE`; those of AlmLibPtr about the list assume that there are finitely many alarms (`PtrAssumption`), as any memory holds, and `DestroyRaces = FALSE`;
those of AlmStamp assume `MAX_WAIT + Latency < WRAP` (`StampAssumption`), those of MCPorts `PortAssumption` and `PartsAssumption`;
`StampTypeCorrect` and `StampsAscending` are about AlmStampBack, where the count may be set back.

AlmLib. The safety properties are not inductive: that a flag agrees with the list depends on how far
`alm_purge` is, and that an alarm is covered depends on where the handler's cursor
is and whether the timer agrees with `next_due`. `Inductive` in AlmLib adds this, in layers that
are proved one on top of the other:

1. `TypeOK`, `Working` (a thread inside the library has an alarm): `TypeCorrect`;
2. `Locking`, `Handles` (mutual exclusion; a destroyer is alone with its alarm);
3. `QueueFlags`, `QueueSorted`: what alm_purge has marked is inactive and a prefix of the queue; an
   alarm about to be inserted or freed is not linked. Gives `FlagsCorrect`, `OrderCorrect`,
   `NoFreedReachable`, `AssertionsCorrect`. `AfterRemove` and `AfterInsert` say what the two list
   operations do to the order, on top of `QueueLemmas`;
4. `Inserted`, `Handler`, `TimerSetUp`, `ActiveCovered`: everything behind the
   handler's cursor is inactive, so by sortedness the alarm it finds is due first and the timer
   it sets up covers all; between interrupts the timer expires at `next_due`, so a thread that leaves
   it alone, or moves it to an earlier time, uncovers nobody. Gives `NoAlarmForgotten` and
   `InductiveInvariant`.

AlmStamp. `Agrees(s, l)` says that at moment s the count was l, and that less than a lap has passed
since, because the interrupt at `next_due` is at most `MAX_WAIT` after s and at most `Latency`
late. It holds of the statics outside of the two assignments of `alm_get_stamp`, and of the locals
inside; the comparison with `last_time` then decides correctly between no wrap and one. Gives
`StampCorrect` and `PollingCorrect`. `StampTypeCorrect` and `StampsAscending` need less:
`Excluded` and `Ascending`, which hold even when the count jumps.

AlmLib implements AlarmClock (`PromiseKept`). The invariant is `Kept`: the layers above, and `Cancelled`, which
says that between `alm_cancel` and the assignment to `active` inside `alm_start` nobody else activates the alarm. One
lemma (`Follows...`) for each kind of step says to which step of AlarmClock it maps: `Activate` arms, the step of the
handler at an active alarm rings, `Remove_` refuses or takes back, list operations and the timer stutter. That alarms do not ring early is
`AtDue`; that they do not ring twice is that `active` is reset in the same step; that a callback may take back an
alarm only while another is overdue is the guard of `CallbackCancels`.

AlmLibPtr, the list (`ListInvariant`, `PtrTypeCorrect`, `ListCorrect`). They hold with real interrupts and on Linux, for every
`Calls`. `ListInductive` says that some sequence `List` of different alarms is what the pointers form (`Chain`), that the
`enqueued` flags agree with it but for those alarms that `alm_purge` has passed and marked (`Flags`), where the alarms of running
calls are (`Places`), and that it is sorted but for one alarm that is being taken out. No induction over the list is needed: the walk `Node`, a
recursive function, is compared with a sequence that is a chain by looking at the least place at which they differ (`ChainIsList`,
`LeastNatural`), so each step has to show only that the sequence it leaves is a chain again: `CutList`, `UnlinkedList` and `LinkedList` for
`alm_purge`, `alm_remove` and `alm_insert`, on top of `QueueLemmas`. The loops that look for a place in the list (`Before`,
`Position`) stop at the least place with their exit condition (`PositionProperties`).

AlmLibPtr implements AlmLib (`ListImplementsQueue`), with `HandlerIsThread = FALSE`. The invariant `Mapped` adds to the list two
facts: `Handler`, that the handler's node has a place in the list and no alarm before it is active, those passed
in the first loop having been due (`HandlerPlace`); and `Dates`, that a thread that has assigned `time_due` and not yet `active` has
assigned the sum of its stamp and its delay. A lemma (`Follows...`) for each kind of step says what it is in AlmLib: `CancelIt`
unlinks, `Activate` sets the due date, `Link` inserts, `HandlerRing` is the handler's step at an alarm that is
due; `SetDue`, `Insert`, the second half of `alm_remove`, the handler's pointer accesses and `alm_dump_queue` are
stutters. What AlmLib's theorems say of the mapped state then holds of the list, by instantiation of the proofs
themselves (`Proved`): the list keeps the promise of `almLib.h` (`PromiseKeptByList`), and no active alarm is without
an interrupt that comes in time (`ListCoversAlarms`).

AlmLibPtr, the handler (`HandlerAssertHolds`). With `HandlerIsThread = FALSE` no thread takes a step between the handler's
loops and its assertion, so what it has read is still so (`Undisturbed`). The hypothesis is needed: `linux_cancel` is the
counterexample without it. `NoStartUndone` is a question only where the handler is a thread, and is model-checked there.

AlmTest (`TestsCleanUp`). Every step of the drivers is a step of AlmLib (`TestsAreClients`), so its invariant
holds; every created alarm is in the list of the driver that created it or being destroyed (`Tracked`), and a driver that has returned
has an empty list and is in no call (`EndsIdle`). So nothing is created in the end, and by
`QueueFlags` nothing linked. `CounterCorrect` adds that every alarm has one owner (`Owned`), that a driver inside
`alm_start` is busy with the last alarm it has started, and that what it has counted (`Rung`: how often its semaphore has been
posted, or how far `counter` has come down from the number of its alarms) is what it has started but for the
cardinality of `ToRing`, the alarms that are active or about to be (`Driven`): `Activate` moves an alarm within that set,
a callback takes one out and counts for its one owner. As all `alm_test_cb` count in the same variable, it assumes that
one runs at a time (`OneAtATime`): then the callbacks that decrease `counter` are those of the one driver that waits for it. Of the other
drivers there may be any number. It also assumes that no delay is too long for `alm_start`; with one the driver waits for ever.

AlmStamp once more: `StatesMeaning` is the invariant of the second paragraph itself.

MCPorts (`PartsCorrect`). Each part has an inductive invariant, and `PartsInvariant` says that the part that
runs has its own. `PartsAssumption` is what the boards guarantee: `MIN_WAIT` fits into
each count register; on the MCchip `SetupTicks`, which is about the few instructions that its `timer_setup` makes with interrupts locked, is less than `int_inhibit`,
and `Response` and `Slack` together, which are about everything between request and next compare value, callbacks included, are less than a lap of the
counter; the rate of the beatnik timer is a multiple of that of the time base, both are at least one tick per
microsecond, and `alarm_max` is at least `MIN_WAIT`. Nothing else is assumed of widths and rates, so the
theorems cover the registers of 32 bits and the rates of the boards.

The ports (`PpcDecCorrect`, `MccCorrect`, `Mv64260Correct`, `BeatnikCorrect`, `LinuxCorrect`, `InitReportCorrect`). The
invariant of a port has three layers. `...Typed` is the type. `...State` relates device and driver: the timer runs if, and only
if, there is a due date, and `Initialising` says what each point of `alm_init` has already done, so that what it reports is
true. `...Timing` relates registers and clock: inside `timer_setup` the delay has been asked for at a
timestamp not more than `spent` ticks ago (`SetupAsked`), and afterwards count and clock together give the due date, neither
before its microsecond nor more than `Late` after it. `StampOf` and `InTime` translate between ticks and truncated
microseconds, `DelayEnds` adds the delay, and a lemma per port says that `timer_get_max_delay` lets no delay overflow
(`PpcDelay`, ...) and that the register write loses no bit (`PpcLoads`, ...).

* The MCchip compares for equality, so its invariant is about a moment: the compare register stands for some t at which the counter
  meets it next (`MccMeets`), less than a lap away (`LapOnce`), and `MccMeaning` says which: the due date, or a value that
  is about to be replaced and a lap away. `MccReadCnt` is where `int_inhibit` matters.
* On the beatnik a delay is converted with one truncated rate and timestamps with another. `BeatnikRates` shows
  that the timer has at least as many ticks per microsecond as the timestamps, hence is never early, and that
  `alarm_max` keeps the product within the register. A `hasty` `alm_init` is exempt, as in the property.
* On Linux the delay that is set is positive and never longer than the one asked for (`LinuxItValue`). Without a timer
  nothing is claimed (`Unnoticed`).
* `Mv64260Correct` assumes `Altivec = FALSE`; with TRUE the run `altivec_units` refutes it. `InitReportCorrect` needs no
  such assumption.

TimeBase (`ReadCorrect`). The upper half only grows, so what the loop reads first is a lower bound of its value when the
lower half is read, and what it reads last an upper bound (`ReadInvariant`); when both are equal the value in between is
known. Halves may have any width.

Div64 (`DivisionInvariantCorrect`, `DivisionExactCorrect`, `DivisionSignedCorrect`). `Divided`: y is the divisor times d, and x plus
divisor times result is the dividend; d and e are powers of two, so that halving them is exact (`PowersHalve`). At the end
what is left is less than the divisor, and quotient and remainder are unique (`DivisionUnique`). For `__divdi3` dividend and divisor
are absolute values (`SignedWord`), and the sign is put back without overflow except for the least number divided by minus one
(`SignedResult`).

The provers know nothing of `2^n`, which is why registers have `Pow2[Bits]` values. That this recursive function exists
at all is proved first, without induction theorems: beginnings of every length (`BeginningExists`) agree
where they overlap (`BeginningsAgree`).

AlmStampBack in MCPorts (`SetBackCorrect`). The part is an instance of the module that AlmStampProofs is about, so the
theorem is `StampsAscending`, instantiated.

Only model-checked: liveness (`KeepsRinging`, `ActiveRings`, `TestsEnd`, `DivisionReturns`), which is
out of the prover's reach; and on Linux, that active alarms stay covered and that no start is undone (`ActiveCovered` and
`NoStartUndone` in `linux`), which depend on what clients call. With real interrupts it is proved for the same list (`ListCoversAlarms`).

## Not modelled, and why

* Callbacks that block, and so those that call `alm_start`, `alm_create` or `alm_destroy`: `almLib.h:49-56` excludes them, and with the mutex
  held by an interrupted thread they would hang.
* `timer_reset` and `timer_disable` of the ports: the library calls neither. (`timer_reset` sets the time base
  to zero on two boards, after which no timestamp would mean anything.) The ports are "partly" modelled for
  this reason only. `timer_dump_registers` prints.
* `alm_destroy` in the Linux instance with a handler thread: the handler then reads freed memory, about which a
  model can say no more than that it happens.
* `BSP_install_rtems_irq_handler`, `intConnect` and other routines of the board support packages, which are not part of
  the repository: each port is taken at its word about what their results mean.
* Latencies measured by the test drivers, which are printed, and failing allocation in them.
* The functions of `div64.c` before line 88, which are not compiled. The shell commands pass arguments, and the
  build files have no behaviour to check.
* Overflow of `tstart + delay`: `MAX_DELAY` is 2^63 and a stamp stays below 2^63 for 292000 years.

## Plan

Done, in this order: AlmLib with AlarmClock and its proofs; AlmStamp and its proofs; AlmLibPtr; AlmTest; the ports,
TimeBase and Div64 with MCPorts; `alm_init` on each port, with failures; beatnik and Linux; callbacks
that cancel; the proofs of the refinement of AlarmClock, the handler's assertion, and the counting and clean end of the tests;
the proofs about the linked list and its refinement of AlmLib; the proofs about the ports, the division and
the time base. Left:

1. `ActiveCovered` and `NoStartUndone` on Linux, with a handler thread that other threads overtake.
