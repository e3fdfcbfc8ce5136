------------------------------ MODULE TimerFd ------------------------------
(***************************************************************************)
(* The timerfd objects of linux_timerfd.rs.  No interrupt counts           *)
(* expirations: every operation first brings its slot up to date from the  *)
(* monotonic clock (refresh), whenever it happens to be called.  An        *)
(* operation is one lock section.                                          *)
(***************************************************************************)
EXTENDS Naturals, FiniteSets

CONSTANTS
  Timers,    \* slots of the table
  MaxTime,   \* u64::MAX, scaled down
  MaxNow,    \* the clock stays below it
  MaxReads,  \* bound on the generations of one slot
  Values, Intervals,
  NoTimer

TimerType == [interval : Nat, next : Nat, expirations : Nat, gen : Nat, cloexec : BOOLEAN]

ASSUME TfdConstants ==
  /\ MaxTime \in Nat /\ MaxNow \in Nat \ {0} /\ MaxNow < MaxTime /\ MaxReads \in Nat
  /\ Values \subseteq 0 .. MaxTime /\ Intervals \subseteq 0 .. MaxTime
  /\ NoTimer \notin TimerType

VARIABLES
  now,
  timer,  \* a slot: interval_ns, next_expiration_ns, expirations, readiness_generation
  armed,  \* history: the first expiration and the interval of the last settime
  taken,  \* history: expirations that reads have consumed since then
  seen,   \* the generation an edge-triggered watch last reported
  fell    \* history: the object was unreadable at some time since that report

tfdVars == <<now, timer, armed, taken, seen, fell>>

NewTimer(c) == [interval |-> 0, next |-> 0, expirations |-> 0, gen |-> 0, cloexec |-> c]
Disarmed == [first |-> 0, interval |-> 0]

saturating(n) == IF n > MaxTime THEN MaxTime ELSE n

\* Mutated form: a late refresh counts one expiration only.
refresh_once(t) ==
  IF t.next = 0 \/ now < t.next THEN t
  ELSE [t EXCEPT !.expirations = saturating(@ + 1),
                 !.gen = IF t.expirations = 0 THEN @ + 1 ELSE @,
                 !.next = IF t.interval = 0 THEN 0 ELSE saturating(@ + t.interval)]

refresh(t) ==
  IF t.next = 0 \/ now < t.next THEN t
  ELSE LET count == IF t.interval = 0 THEN 1 ELSE saturating((now - t.next) \div t.interval + 1)
       IN [t EXCEPT !.expirations = saturating(@ + count),
                    !.gen = IF t.expirations = 0 THEN @ + 1 ELSE @,
                    !.next = IF t.interval = 0 THEN 0
                             ELSE saturating(@ + saturating(t.interval * count))]

Readable(t) == t # NoTimer /\ refresh(t).expirations # 0

TfdInit ==
  /\ now = 1 /\ timer = [s \in Timers |-> NoTimer] /\ armed = [s \in Timers |-> Disarmed]
  /\ taken = [s \in Timers |-> 0] /\ seen = [s \in Timers |-> 0]
  /\ fell = [s \in Timers |-> TRUE]

\* The object of slot s becomes t.
Put(s, t) ==
  /\ timer' = [timer EXCEPT ![s] = t]
  /\ fell' = [fell EXCEPT ![s] = @ \/ ~Readable(timer[s]) \/ t = NoTimer
                                   \/ refresh(t).expirations = 0]
  /\ UNCHANGED <<now, seen>>

TimerCreate(s, c) ==
  /\ timer[s] = NoTimer
  /\ timer' = [timer EXCEPT ![s] = NewTimer(c)]
  /\ armed' = [armed EXCEPT ![s] = Disarmed] /\ taken' = [taken EXCEPT ![s] = 0]
  /\ seen' = [seen EXCEPT ![s] = 0] /\ fell' = [fell EXCEPT ![s] = TRUE]
  /\ UNCHANGED now

\* settime with a relative or an absolute value; an overflowing deadline is
\* refused after the refresh.
TimerSettime(s, abstime, value, interval) ==
  LET t == refresh(timer[s])
      deadline == IF abstime THEN value ELSE now + value
  IN /\ timer[s] # NoTimer /\ t.gen < MaxReads
     /\ IF value = 0
        THEN /\ Put(s, [t EXCEPT !.interval = 0, !.next = 0, !.expirations = 0])
             /\ armed' = [armed EXCEPT ![s] = Disarmed] /\ taken' = [taken EXCEPT ![s] = 0]
        ELSE IF deadline > MaxTime
        THEN Put(s, t) /\ UNCHANGED <<armed, taken>>
        ELSE /\ Put(s, [t EXCEPT !.interval = interval, !.next = deadline, !.expirations = 0])
             /\ armed' = [armed EXCEPT ![s] = [first |-> deadline, interval |-> interval]]
             /\ taken' = [taken EXCEPT ![s] = 0]

\* gettime, readiness and readiness_generation refresh the slot and report.
TimerObserve(s) ==
  /\ timer[s] # NoTimer
  /\ Put(s, refresh(timer[s])) /\ UNCHANGED <<armed, taken>>

TimerRead(s) ==
  LET t == refresh(timer[s])
  IN /\ timer[s] # NoTimer /\ t.expirations # 0 /\ t.gen < MaxReads
     /\ Put(s, [t EXCEPT !.expirations = 0, !.gen = @ + 1])
     /\ taken' = [taken EXCEPT ![s] = @ + t.expirations] /\ UNCHANGED armed

\* close, and close_all and close_on_exec for the slots they select.
TimerClose(s) ==
  /\ timer[s] # NoTimer
  /\ Put(s, NoTimer)
  /\ armed' = [armed EXCEPT ![s] = Disarmed] /\ taken' = [taken EXCEPT ![s] = 0]

\* An edge-triggered watch reports a readable object whose generation it has
\* not reported before.
EdgeReported(s) ==
  /\ Readable(timer[s])
  /\ LET t == refresh(timer[s])
     IN /\ t.gen # seen[s]
        /\ timer' = [timer EXCEPT ![s] = t] /\ seen' = [seen EXCEPT ![s] = t.gen]
  /\ fell' = [fell EXCEPT ![s] = FALSE]
  /\ UNCHANGED <<now, armed, taken>>

\* Time passes; a slot that becomes due was unreadable until then.
Tick(d) ==
  /\ now + d <= MaxNow /\ now' = now + d
  /\ fell' = [s \in Timers |-> fell[s] \/ ~Readable(timer[s])]
  /\ UNCHANGED <<timer, armed, taken, seen>>

TfdNext ==
  \/ \E d \in 1 .. 3 : Tick(d)
  \/ \E s \in Timers :
       \/ \E c \in BOOLEAN : TimerCreate(s, c)
       \/ TimerObserve(s) \/ TimerRead(s) \/ TimerClose(s) \/ EdgeReported(s)
       \/ \E a \in BOOLEAN, v \in Values, i \in Intervals : TimerSettime(s, a, v, i)

TfdSpec == TfdInit /\ [][TfdNext]_tfdVars

-----------------------------------------------------------------------------
\* The expirations of the setting in force up to now.
Due(a) ==
  IF a.first = 0 THEN 0
  ELSE IF a.interval = 0 THEN (IF a.first <= now THEN 1 ELSE 0)
  ELSE Cardinality({k \in 0 .. MaxNow : a.first + k * a.interval <= now})

\* However late and however often a timer is looked at, what it holds and what
\* reads have taken add up to the expirations that are due; and a timer that
\* became readable again after a report has a generation that the watch has not
\* reported, so that no expiration is hidden from an edge-triggered watch
\* (refresh).
ExpirationsExact ==
  \A s \in Timers :
    /\ timer[s] # NoTimer => refresh(timer[s]).expirations + taken[s] = Due(armed[s])
    /\ Readable(timer[s]) /\ fell[s] => refresh(timer[s]).gen # seen[s]
=============================================================================
