------------------------------- MODULE Alarms -------------------------------
(***************************************************************************)
(* Alarms (kernel/time.c), the secondary schedulers (kernel/sched.c) and   *)
(* round robin (kernel/sched_rr.c), with the scheduling core of KThreads   *)
(* and the timer of Clock.                                                 *)
(*                                                                         *)
(* These parts call each other in a circle: an expired alarm can end a     *)
(* time slice, which makes another thread active, which sets the alarm of  *)
(* its own slice, which looks for expired alarms.  The kernel stack is     *)
(* therefore part of the state: a C function that calls k_schedule_alarms, *)
(* kthreadq_release_all or rr_thread_activate leaves a frame with what it  *)
(* does after the call, and one step runs until the next such call or      *)
(* return, or through one turn of a loop.  The kernel has returned to user *)
(* code when the stack is empty; time passes only then.                    *)
(*                                                                         *)
(*   s.program what the program does (one of Programs)                     *)
(*   s.k       scheduling state (KThreads)                                 *)
(*   s.sched   the thread's secondary scheduler: policy, activated,        *)
(*             remainder, slice_end                                        *)
(*   s.alarm   the alarms: expiration, period (0 for once), flag IPC_WAIT, *)
(*             action, its parameter, creator, active, whether allocated   *)
(*   s.list    kalarms, first to last                                      *)
(*   s.clock   timer and system time (Clock)                               *)
(*   s.slice   time_slice of round robin                                   *)
(*   s.stack   frames, innermost first                                     *)
(*   s.torn    history: the threads that lost the processor in the middle  *)
(*             of rr_thread_activate, or went through it while a timer     *)
(*             interrupt was due and the system time read too low, and     *)
(*             have not been deactivated since                             *)
(***************************************************************************)
EXTENDS KThreads, Clock, FiniteSets

CONSTANTS
    Alarm,          \* addresses of kalarm_t
    RRAlarm,        \* the one reserved by rr_init
    Program,        \* the threads of the program; Idle and the descriptors
                    \* for threads that run actions are the others
    RRThreads,      \* the ones created with SCHED_RR
    Programs,       \* what programs do, records with
                    \*   prio: the priorities of the threads;
                    \*   delayers: the threads that create alarms with IPC_WAIT;
                    \*   requests: <<delay, period, action>>, when alarms are to
                    \*     expire after the call (NULL for no time), their period
                    \*     (0 for none) and action ("none" or "thread");
                    \*   changes: <<thread, thread, priority, slice>>, who changes
                    \*     whose parameters, and to what
    RR_THRESHOLD,   \* params.rr.threshold
    TIME_SLICE,     \* the initial params.rr.time_slice
    MaxTime         \* the time at which the model ends

AlarmQ(a) == <<"alarm", a>>

ASSUME AlarmsAssumption ==
    /\ RRAlarm \in Alarm /\ NULL \notin Alarm
    /\ Program \subseteq Thread \ {Idle} /\ IsFiniteSet(Program) /\ RRThreads \subseteq Program
    /\ RR_THRESHOLD \in Nat /\ threshold < RR_THRESHOLD
    /\ TIME_SLICE \in Nat /\ TIME_SLICE > RR_THRESHOLD
    /\ \A p \in Programs :
          /\ p.prio \in [Program -> Prio] /\ p.delayers \subseteq Program
          /\ \A r \in p.requests : (r[1] = NULL \/ r[1] \in Int) /\ r[2] \in Nat /\ r[3] \in {"none", "thread"}
          /\ \A c \in p.changes : c[1] \in Program /\ c[2] \in Program /\ c[3] \in Prio /\ c[4] \in Nat /\ c[4] > RR_THRESHOLD
    /\ MaxTime \in Nat
    /\ WaitQ = {AlarmQ(a) : a \in Alarm}

VARIABLE s

Now(x) == arch_get_time(x.clock)

\* An alarm_t, and the alarm that rr_init reserves.
alarm_t(exp, period, wait, action, param) ==
    [exp |-> exp, period |-> period, wait |-> wait, action |-> action, param |-> param]

kalarm_t(alarm, thread, live) ==
    [alarm |-> alarm, thread |-> thread, active |-> FALSE, live |-> live]

\* The threads of a priority, and the orders in which they may have been created.
WithPrio(program, p) == {t \in Program : program.prio[t] = p}

Orders(T) == {o \in BoundedSeq(Program, Cardinality(Program)) :
                 ToSet(o) = T /\ \A i, j \in DOMAIN o : o[i] = o[j] => i = j}

\* The idle thread runs, the program's threads are ready.
Created(program, order) ==
    [state  |-> [t \in Thread |-> IF t = Idle THEN "ACTIVE"
                                 ELSE IF t \in Program THEN "READY" ELSE "PASSIVE"],
     prio   |-> [t \in Thread |-> IF t \in Program THEN program.prio[t] ELSE 0],
     queue  |-> [t \in Thread |-> IF t \in Program THEN ReadyQ(program.prio[t]) ELSE NULL],
     q      |-> [x \in Queue |-> IF x \in ReadyQs THEN order[x[2]] ELSE <<>>],
     mask   |-> {p \in Prio : WithPrio(program, p) # {}}, active |-> Idle]

\* The secondary scheduler's data of new threads.
ksched_thread_add == [t \in Thread |->
    [policy |-> IF t \in RRThreads THEN "RR" ELSE "FIFO", activated |-> t = Idle,
     remainder |-> IF t \in RRThreads THEN TIME_SLICE ELSE 0, slice_end |-> 0]]

\* One alarm is reserved by rr_init, the others are free memory.
rr_init == [a \in Alarm |->
              kalarm_t(alarm_t(0, 0, FALSE, IF a = RRAlarm THEN "rr" ELSE "none", NULL),
                       NULL, a = RRAlarm)]

Init ==
    \E program \in Programs :
    \E order \in [Prio -> UNION {Orders(WithPrio(program, p)) : p \in Prio}] :
        /\ \A p \in Prio : order[p] \in Orders(WithPrio(program, p))
        /\ s = [program |-> program, k |-> Created(program, order), sched |-> ksched_thread_add,
                alarm |-> rr_init, list |-> <<>>, clock |-> arch_timer_init, slice |-> TIME_SLICE,
                stack |-> <<[f |-> "resched", resched |-> TRUE]>>, torn |-> {}]

-----------------------------------------------------------------------------
\* The kernel stack

push(x, frame) == [x EXCEPT !.stack = <<frame>> \o @]
pop(x) == [x EXCEPT !.stack = Tail(@)]
top == Head(s.stack)

\* The kernel is about to run the function, or the rest of it, that f names.
In(f) == s.stack # <<>> /\ top.f = f

\* The caller's variable reschedule or resched_thr counts what a call returned.
count(x, b) == [x EXCEPT !.stack[1].resched = @ \/ b]

-----------------------------------------------------------------------------
\* Alarms

\* list_sort_add: behind the alarms that expire at the same time or before.
list_sort_add(x, a) ==
    LET later == {i \in 1..Len(x.list) : x.alarm[x.list[i]].alarm.exp > x.alarm[a].alarm.exp}
    IN  [x EXCEPT !.list = InsertAt(@, Min(later \cup {Len(@) + 1}), a)]

list_remove(x, a) == IF x.alarm[a].active THEN [x EXCEPT !.list = RemoveFirst(@, a)] ELSE x

k_schedule_alarms(x) == push(x, [f |-> "expire", now |-> Now(x), resched |-> FALSE])

\* Put a in the list if it has an expiration time and look for expired alarms.
k_alarm_add(x, a) ==
    LET given == x.alarm[a].alarm.exp > 0
        g     == [x EXCEPT !.alarm[a].active = given]
    IN  k_schedule_alarms(push(IF given THEN list_sort_add(g, a) ELSE g,
                               [f |-> "added", alarm |-> a, resched |-> FALSE]))

\* The alarm moves only if its expiration time has changed.
k_alarm_set(x, a, new) ==
    LET g == [x EXCEPT !.alarm[a].alarm = new] IN
    IF x.alarm[a].alarm.exp = new.exp THEN g
    ELSE k_alarm_add([g EXCEPT !.list = list_remove(x, a).list], a)

-----------------------------------------------------------------------------
\* Round robin

\* Mutant: the alarm is not set again for a slice that was interrupted.
rr_thread_activate_once(x, t) ==
    LET rest == x.sched[t].remainder
        end  == Now(x) + rest + x.slice
    IN  IF rest > RR_THRESHOLD THEN [x EXCEPT !.sched[t].slice_end = Now(x) + rest]
        ELSE k_alarm_set([x EXCEPT !.sched[t].remainder = rest + x.slice, !.sched[t].slice_end = end],
                         RRAlarm, alarm_t(end, 0, FALSE, "rr", t))

\* Start the slice of t, or what is left of it, and set the alarm for its end.
rr_thread_activate(x, t) ==
    LET rest == x.sched[t].remainder
        full == IF rest <= RR_THRESHOLD THEN rest + x.slice ELSE rest
        end  == Now(x) + full
        g    == [x EXCEPT !.sched[t].remainder = full, !.sched[t].slice_end = end,
                          !.torn = IF x.clock.pending THEN @ \cup {t} ELSE @]
    IN  k_alarm_set(g, RRAlarm, alarm_t(end, 0, FALSE, "rr", t))

\* Mutant: a thread that blocks is put among the ready ones.
still_ready_always(x, t) == TRUE

still_ready(x, t) == x.k.state[t] \in {"ACTIVE", "READY"}

\* The slice of t is interrupted; a thread that could go on becomes the next of
\* its priority, or the last if too little is left.  A slice that ended has
\* remainder 0 and its thread is in the ready queue already.
rr_thread_deactivate(x, t) ==
    LET rest == x.sched[t].slice_end - Now(x)
        g    == [x EXCEPT !.sched[t].remainder = rest, !.sched[t].slice_end = rest]
    IN  IF x.sched[t].remainder = 0 THEN x
        ELSE IF ~still_ready(x, t) THEN g
        ELSE [g EXCEPT !.k = IF rest <= RR_THRESHOLD THEN kthread_move_to_ready(@, t)
                             ELSE kthread_move_to_ready_first(@, t)]

ksched_deactivate_thread(x, t) ==
    IF ~x.sched[t].activated THEN x
    ELSE [(IF x.sched[t].policy = "RR" THEN rr_thread_deactivate(x, t) ELSE x)
             EXCEPT !.sched[t].activated = FALSE, !.torn = @ \ {t}]

\* activated is set when thread_activate has returned.
ksched_activate_thread(x, t) ==
    IF x.sched[t].activated THEN x
    ELSE IF x.sched[t].policy = "RR"
         THEN rr_thread_activate(push(x, [f |-> "activated", thr |-> t]), t)
         ELSE [x EXCEPT !.sched[t].activated = TRUE]

\* Is t in the middle of its activation?
activating(x, t) == \E i \in DOMAIN x.stack : x.stack[i] = [f |-> "activated", thr |-> t]

\* kthreads_schedule with the hooks of the secondary schedulers.
schedule(x) ==
    LET curr    == x.k.active
        highest == kthread_ready_list_highest(x.k)
        left    == ksched_deactivate_thread(x, curr)
        kk      == IF left.k.state[curr] = "ACTIVE" THEN kthread_move_to_ready(left.k, curr)
                   ELSE left.k
        next    == activate_first(kk, highest)
        torn    == IF activating(x, curr) THEN left.torn \cup {curr} ELSE left.torn
    IN  IF x.k.state[curr] = "ACTIVE" /\ ~(highest > x.k.prio[curr]) THEN x
        ELSE ksched_activate_thread([left EXCEPT !.k = next, !.torn = torn], next.active)

\* The slice of t has ended, if t is still the active thread.
rr_timer(x, t) ==
    IF x.k.active # t THEN x
    ELSE schedule([x EXCEPT !.sched[t].remainder = 0, !.k = kthread_move_to_ready(@, t)])

-----------------------------------------------------------------------------
\* Returns into the frames of the stack

\* A thread that runs the action of alarm a, one priority above its creator; without
\* memory for it the machine stops.
spare(x) == {t \in Thread : x.k.state[t] = "PASSIVE"}

kthread_create(x, a) ==
    LET t == CHOOSE u \in spare(x) : TRUE
        p == at_most(x.k.prio[x.alarm[a].thread] + 1, PRIO_LEVELS - 1)
    IN  [x EXCEPT !.k = kthread_move_to_ready([@ EXCEPT !.prio[t] = p], t),
                  !.sched[t] = [@ EXCEPT !.policy = "FIFO", !.activated = FALSE]]

expired == s.list # <<>> /\ s.alarm[Head(s.list)].alarm.exp <= top.now + threshold

\* Mutant: a periodic alarm goes back where it was.
take_first_in_place(x) ==
    LET a == Head(x.list) IN
    IF x.alarm[a].alarm.period > 0
    THEN [x EXCEPT !.alarm[a].alarm.exp = @ + x.alarm[a].alarm.period]
    ELSE [x EXCEPT !.list = Tail(@), !.alarm[a].active = FALSE]

\* Take the first alarm out of the list; a periodic one goes back for its next time.
take_first(x) ==
    LET a == Head(x.list)
        g == [x EXCEPT !.list = Tail(@)]
    IN  IF x.alarm[a].alarm.period > 0
        THEN list_sort_add([g EXCEPT !.alarm[a].alarm.exp = @ + x.alarm[a].alarm.period], a)
        ELSE [g EXCEPT !.alarm[a].active = FALSE]

\* Release the threads that wait for alarm a: a call of the loop below.
kthreadq_release_all(x, a) ==
    IF x.k.q[AlarmQ(a)] = <<>> THEN x ELSE push(x, [f |-> "release", alarm |-> a])

\* The loop of k_schedule_alarms: the first alarm has expired.
expire_next ==
    /\ In("expire") /\ expired
    /\ LET a == Head(s.list)
           g == take_first(s)
           action == s.alarm[a].alarm.action
       IN  \/ action = "none" /\ s' = kthreadq_release_all(g, a)
           \/ action = "thread" /\ spare(s) # {} /\ s' = kthreadq_release_all(count(kthread_create(g, a), TRUE), a)
           \/ action = "thread" /\ spare(s) = {} /\ s' = push(g, [f |-> "halted"])
           \/ action = "rr" /\ s' = rr_timer(g, s.alarm[a].alarm.param)

\* The loop of kthreadq_release_all: the caller counts whom it releases.
release_next ==
    /\ In("release")
    /\ LET g == [s EXCEPT !.k = kthreadq_release(@, AlarmQ(top.alarm)), !.stack[2].resched = TRUE]
       IN  s' = IF g.k.q[AlarmQ(top.alarm)] = <<>> THEN pop(g) ELSE g

\* Mutant: the timer is set for the last alarm.
expire_done_last ==
    /\ In("expire") /\ ~expired
    /\ LET g == IF s.list = <<>> THEN s
                ELSE [s EXCEPT !.clock = arch_timer_set(@, s.alarm[Last(s.list)].alarm.exp - top.now)]
       IN  s' = count(pop(g), top.resched)

\* The end of the loop: set the timer for the first alarm and return.
expire_done ==
    /\ In("expire") /\ ~expired
    /\ LET g == IF s.list = <<>> THEN s
                ELSE [s EXCEPT !.clock = arch_timer_set(@, s.alarm[Head(s.list)].alarm.exp - top.now)]
       IN  s' = count(pop(g), top.resched)

\* The rest of k_alarm_add: block the creator, choose a thread.
added ==
    /\ In("added")
    /\ LET a     == s.alarm[top.alarm]
           block == a.thread # NULL /\ a.active /\ a.alarm.wait
           g     == IF block THEN [pop(s) EXCEPT !.k = kthread_enqueue(@, a.thread, AlarmQ(top.alarm))]
                    ELSE pop(s)
       IN  s' = IF block \/ top.resched THEN schedule(g) ELSE g

\* The rest of k_timer_interrupt and of k_alarm_remove.
reschedule ==
    /\ In("resched")
    /\ s' = IF top.resched THEN schedule(pop(s)) ELSE pop(s)

\* The rest of ksched_activate_thread.
activated ==
    /\ In("activated")
    /\ s' = [pop(s) EXCEPT !.sched[top.thr].activated = TRUE]

\* The rest of sys__set_thread_sched_params: the slice goes to all threads.
set_parameters ==
    /\ In("params")
    /\ s' = [pop(s) EXCEPT !.slice = top.slice]

Kernel ==
    \/ expire_next \/ release_next \/ expire_done
    \/ added \/ reschedule \/ activated \/ set_parameters

-----------------------------------------------------------------------------
\* System calls of the active thread

User(t) == s.stack = <<>> /\ s.k.active = t /\ t \in Program

\* The alarm_t that thread t passes for request r.
alarm_of(t, r) ==
    {alarm_t(IF r[1] = NULL THEN 0 ELSE Now(s) + r[1], r[2], wait, r[3], NULL) :
        wait \in IF t \in s.program.delayers THEN BOOLEAN ELSE {FALSE}}

Request(t) == UNION {alarm_of(t, r) : r \in s.program.requests}

sys__alarm_new(t, a, new) ==
    /\ User(t) /\ ~s.alarm[a].live
    /\ s' = k_alarm_add([s EXCEPT !.alarm[a] = kalarm_t(new, t, TRUE)], a)

\* It is the creator that is blocked if new says so, whoever the caller is, in
\* a queue or not: programs ask for it only on alarms of their own.
sys__alarm_set(t, a, new) ==
    /\ User(t) /\ s.alarm[a].live
    /\ new.wait => s.alarm[a].thread = t
    /\ s' = k_alarm_set(s, a, new)

\* Mutant: the threads that wait for the alarm are not released.
sys__alarm_remove_only(t, a) ==
    /\ User(t) /\ s.alarm[a].live
    /\ s' = k_schedule_alarms(push([list_remove(s, a) EXCEPT !.alarm[a].live = FALSE,
                                                           !.alarm[a].active = FALSE],
                                   [f |-> "resched", resched |-> FALSE]))

sys__alarm_remove(t, a) ==
    /\ User(t) /\ s.alarm[a].live
    /\ LET g == push([list_remove(s, a) EXCEPT !.alarm[a].live = FALSE, !.alarm[a].active = FALSE],
                     [f |-> "resched", resched |-> FALSE])
       IN  s' = kthreadq_release_all(k_schedule_alarms(g), a)

sys__wait_for_alarm(t, a) ==
    /\ User(t) /\ s.alarm[a].live /\ s.alarm[a].active
    /\ s' = schedule([s EXCEPT !.k = kthread_enqueue(@, t, AlarmQ(a))])

\* kthread_set_prio of a thread that is active, ready or blocked.
kthread_set_prio(x, t, p) ==
    LET to_ready(kk) == kthread_move_to_ready([kk EXCEPT !.prio[t] = p], t)
    IN  CASE x.k.state[t] = "ACTIVE" -> schedule([x EXCEPT !.k = to_ready(@)])
          [] x.k.state[t] = "READY" -> schedule([x EXCEPT !.k =
                                         to_ready(clear_if_empty(kthreadq_remove(@, t), @.prio[t]))])
          [] OTHER -> [x EXCEPT !.k.prio[t] = p]

\* Thread u becomes a round robin thread of priority p (the check of the policy
\* admits no other).
sys__set_thread_sched_params(t, u, p, slice) ==
    /\ User(t) /\ <<t, u, p, slice>> \in s.program.changes
    /\ LET g == push(s, [f |-> "params", slice |-> slice])
       IN  s' = kthread_set_prio([g EXCEPT !.sched[u].policy = "RR", !.sched[u].remainder = s.slice], u, p)

sys__set_sched_params(t, slice) ==
    /\ User(t) /\ \E c \in s.program.changes : c[1] = t /\ c[4] = slice
    /\ s' = [s EXCEPT !.slice = slice]

\* A thread that ran an action ends.
kthread_exit(t) ==
    /\ s.stack = <<>> /\ s.k.active = t /\ t \notin Program \cup {Idle}
    /\ s' = schedule([s EXCEPT !.k = kthread_unlink(@, t)])

-----------------------------------------------------------------------------
\* Time

tick ==
    /\ s.stack = <<>> /\ ~s.clock.pending /\ Now(s) < MaxTime
    /\ s' = [s EXCEPT !.clock = count_down(@)]

\* The interrupt, up to the call of k_schedule_alarms by k_timer_interrupt.
timer_interrupt ==
    /\ s.stack = <<>> /\ s.clock.pending
    /\ LET g == [s EXCEPT !.clock = arch_timer_handler(@)]
       IN  s' = IF delay_passed(s.clock) /\ s.clock.handler
                THEN k_schedule_alarms(push(g, [f |-> "resched", resched |-> FALSE]))
                ELSE g

UserAlarm == Alarm \ {RRAlarm}

Call(t) ==
    \/ \E a \in UserAlarm, new \in Request(t) : sys__alarm_new(t, a, new)
    \/ \E a \in UserAlarm, new \in Request(t) : sys__alarm_set(t, a, new)
    \/ \E a \in UserAlarm : sys__alarm_remove(t, a)
    \/ \E a \in UserAlarm : sys__wait_for_alarm(t, a)
    \/ \E c \in s.program.changes : sys__set_thread_sched_params(t, c[2], c[3], c[4])
    \/ \E c \in s.program.changes : sys__set_sched_params(t, c[4])
    \/ kthread_exit(t)

Next == Kernel \/ tick \/ timer_interrupt \/ \E t \in Thread : Call(t)

Spec == Init /\ [][Next]_s

-----------------------------------------------------------------------------
live == {t \in Thread : s.k.state[t] # "PASSIVE"}

\* Type invariant.  The kernel stack is bounded: the circle of calls between
\* alarms, slices and scheduler comes to an end.
TypeOK ==
    /\ s.k \in KState /\ s.clock \in ClockState
    /\ \A t \in Thread : s.sched[t] \in [policy : {"FIFO", "RR"}, activated : BOOLEAN,
                                         remainder : Int, slice_end : Int]
    /\ \A a \in Alarm :
          /\ s.alarm[a].alarm \in [exp : Int, period : Nat, wait : BOOLEAN,
                                   action : {"none", "thread", "rr"}, param : Thread \cup {NULL}]
          /\ s.alarm[a].thread \in Thread \cup {NULL}
          /\ s.alarm[a].active \in BOOLEAN /\ s.alarm[a].live \in BOOLEAN
    /\ s.list \in Seq(Alarm) /\ s.slice \in Nat /\ s.torn \subseteq Thread
    /\ Len(s.stack) <= 3 * Cardinality(Thread)

\* In user code no thread is lost or linked twice, the ready mask is exact and the
\* highest priority runs, although alarms, slices and the scheduler call each other.
\* (For Programs in which no thread changes its own parameters while it runs with a
\* slice: the round robin scheduler would put it into a ready queue as well.)
SchedulingKept ==
    /\ TypeOK
    /\ s.stack = <<>> => /\ LinkedOnce(s.k, live) /\ NoneLost(s.k, live)
                         /\ MaskExact(s.k) /\ HighestRuns(s.k)

\* The list of alarms holds the active ones, once each, by expiration time: looking
\* at the first is enough (the loop and the timer rely on it).
ListExact ==
    /\ ToSet(s.list) = {a \in Alarm : s.alarm[a].active}
    /\ \A i, j \in DOMAIN s.list : i < j =>
          /\ s.list[i] # s.list[j]
          /\ s.alarm[s.list[i]].alarm.exp <= s.alarm[s.list[j]].alarm.exp

\* In user code no alarm is more than the shortest interval late: the timer is set
\* for the first alarm, whatever was added, moved or removed.
NoneOverdue ==
    s.stack = <<>> /\ ~s.clock.pending =>
        \A a \in ToSet(s.list) : Now(s) < s.alarm[a].alarm.exp + MIN_INTERVAL - threshold - 1

\* No thread sleeps on an alarm that has expired for good or is freed memory (it
\* may sleep on one that was given a new time, or none, after it blocked).
NoSleepOnExpired ==
    s.stack = <<>> => \A a \in Alarm : s.k.q[AlarmQ(a)] # <<>> =>
        s.alarm[a].live /\ (s.alarm[a].active \/ s.alarm[a].alarm.exp <= 0)

\* In user code a running round robin thread is inside its slice and the alarm for
\* the end of the slice is set, for this thread, unless its activation was torn.
SliceBounded ==
    LET t == s.k.active IN
    s.stack = <<>> /\ ~s.clock.pending /\ s.sched[t].policy = "RR" /\ t \notin s.torn =>
        /\ s.alarm[RRAlarm].active /\ s.alarm[RRAlarm].alarm.param = t
        /\ s.alarm[RRAlarm].alarm.exp = s.sched[t].slice_end

\* The counter is loaded with an interval it can measure (asserted in
\* i8253_set_time_to_counter).
IntervalInRange == s.clock.last_load \in MIN_INTERVAL .. MAX_INTERVAL
=============================================================================
