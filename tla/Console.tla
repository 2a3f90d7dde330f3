------------------------------ MODULE Console -------------------------------
(***************************************************************************)
(* Programs that print and read on the serial line: the device lock        *)
(* (kernel/devices.c), print of the programs' library (programs/api/       *)
(* stdio.c), which locks the device, sends character by character and      *)
(* unlocks, and the serial driver behind it (arch/i386/arch/devices/       *)
(* uart.c) with its two buffers, its interrupts and its one-byte registers *)
(* to and from the line.                                                   *)
(*                                                                         *)
(* The chip is external: a written character keeps the transmit register   *)
(* (thr) busy until it has gone out, a received one waits in rbr and is    *)
(* lost if the next one comes before it is read.  An interrupt is pending  *)
(* (bit 0 of iir, as the driver reads it) while a character waits or since *)
(* the transmit register became free, until iir is read.                   *)
(***************************************************************************)
EXTENDS Workers, Ring

CONSTANTS
    Char,       \* characters
    MaxPrint    \* bound: characters in one print

DevQ == <<"device", "uart">>

ASSUME ConsoleAssumption ==
    /\ NULL \notin Char /\ MaxPrint \in Nat
    /\ WaitQ = AlarmQs \cup {DevQ}

VARIABLES
    locked,     \* kdev->locked
    printing,   \* characters a thread has yet to print, -1 outside of print
    in, out,    \* the buffers of arch_uart_t: inbuff, outbuff
    thr, rbr,   \* the registers of the chip, NULL when empty
    iir         \* the causes of interrupts that are pending

lockvars == <<locked, printing>>
uartvars == <<in, out, thr, rbr, iir>>
vars == <<k, lockvars, uartvars>>

Init ==
    /\ InitWorkers
    /\ locked = FALSE /\ printing = [t \in Thread |-> -1]
    /\ in = empty_ring(NULL) /\ out = empty_ring(NULL)
    /\ thr = NULL /\ rbr = NULL /\ iir = {}

Running(t) == k.active = t /\ t # Idle

-----------------------------------------------------------------------------
\* The serial driver.  [buffer, register] pairs before and after.

\* Send what the chip accepts: one character if its register is free.
uart_write(o, reg) ==
    IF o.size > 0 /\ reg = NULL THEN <<take(o), oldest(o)>> ELSE <<o, reg>>

\* Store what the chip has received.
uart_read(i, reg) == IF reg = NULL THEN <<i, NULL>> ELSE <<put_over(i, reg), NULL>>

\* Send character c: into the buffer, then from the buffer to the chip.
uart_send(c) ==
    /\ LET w == uart_write(put_if_room(out, c), thr) IN out' = w[1] /\ thr' = w[2]
    /\ iir' = IF thr' = thr THEN iir ELSE iir \ {"IIR_THR_EMPTY"}
    /\ UNCHANGED <<in, rbr>>

\* Read one character, after fetching what the chip has.
uart_recv(t) ==
    /\ Running(t) /\ printing[t] = -1
    /\ LET i == uart_read(in, rbr)[1] IN in' = IF i.size > 0 THEN take(i) ELSE i
    /\ rbr' = NULL /\ iir' = iir \ {"IIR_RECV_DATA"}
    /\ UNCHANGED <<k, lockvars, out, thr>>

\* The handler reads iir until nothing is pending.  Once it has received, it
\* takes every cause for another character received (rcv stays set).
uart_interrupt_handler ==
    /\ iir # {} /\ iir' = {}
    /\ IF "IIR_RECV_DATA" \in iir
       THEN /\ LET r == uart_read(in, rbr) IN in' = r[1] /\ rbr' = r[2]
            /\ UNCHANGED <<out, thr>>
       ELSE /\ LET w == uart_write(out, thr) IN out' = w[1] /\ thr' = w[2]
            /\ UNCHANGED <<in, rbr>>
    /\ UNCHANGED <<k, lockvars>>

\* The chip: a character has gone out, a character has come in.
transmitted ==
    /\ thr # NULL /\ thr' = NULL
    /\ iir' = iir \cup {"IIR_THR_EMPTY"}
    /\ UNCHANGED <<k, lockvars, in, out, rbr>>

received(c) ==
    /\ rbr' = c /\ iir' = iir \cup {"IIR_RECV_DATA"}
    /\ UNCHANGED <<k, lockvars, in, out, thr>>

-----------------------------------------------------------------------------
\* print

\* Mutant: an open device is not locked.
k_device_lock_else(t) ==
    IF locked THEN k' = kthreads_schedule(kthread_enqueue(k, t, DevQ)) /\ UNCHANGED locked
    ELSE UNCHANGED <<k, locked>>

\* Lock the device, or wait until it is passed on.
k_device_lock(t) ==
    /\ k' = IF locked THEN kthreads_schedule(kthread_enqueue(k, t, DevQ)) ELSE k
    /\ locked' = TRUE

\* Mutant: the device is opened although it is passed on.
k_device_unlock_open ==
    /\ k' = IF k.q[DevQ] = <<>> THEN k ELSE kthreads_schedule(kthreadq_release(k, DevQ))
    /\ locked' = FALSE

\* Pass the device on to the first waiting thread, or open it.
k_device_unlock ==
    /\ k' = IF k.q[DevQ] = <<>> THEN k ELSE kthreads_schedule(kthreadq_release(k, DevQ))
    /\ locked' = (locked /\ k.q[DevQ] # <<>>)

\* print of n characters: lock ...
print(t, n) ==
    /\ Running(t) /\ printing[t] = -1
    /\ k_device_lock(t)
    /\ printing' = [printing EXCEPT ![t] = n]
    /\ UNCHANGED uartvars

\* ... send them one by one ...
print_char(t, c) ==
    /\ Running(t) /\ printing[t] > 0
    /\ uart_send(c)
    /\ printing' = [printing EXCEPT ![t] = @ - 1]
    /\ UNCHANGED <<k, locked>>

\* ... and unlock.
print_done(t) ==
    /\ Running(t) /\ printing[t] = 0
    /\ k_device_unlock
    /\ printing' = [printing EXCEPT ![t] = -1]
    /\ UNCHANGED uartvars

sys__wait_for_alarm(t) ==
    printing[t] = -1 /\ sleep(t) /\ UNCHANGED <<lockvars, uartvars>>

k_timer_interrupt(t) == wake(t) /\ UNCHANGED <<lockvars, uartvars>>

-----------------------------------------------------------------------------
Next ==
    \/ \E t \in Worker, n \in 0..MaxPrint : print(t, n)
    \/ \E t \in Worker, c \in Char : print_char(t, c)
    \/ \E t \in Worker : print_done(t)
    \/ \E t \in Worker : uart_recv(t)
    \/ uart_interrupt_handler
    \/ transmitted
    \/ \E c \in Char : received(c)
    \/ \E t \in Worker : sys__wait_for_alarm(t)
    \/ \E t \in Worker : k_timer_interrupt(t)

Spec == Init /\ [][Next]_vars

-----------------------------------------------------------------------------
\* Type invariant.
TypeOK ==
    /\ k \in KState
    /\ locked \in BOOLEAN /\ printing \in [Thread -> -1..MaxPrint]
    /\ in \in RingState(Char, NULL) /\ out \in RingState(Char, NULL)
    /\ thr \in Char \cup {NULL} /\ rbr \in Char \cup {NULL}
    /\ iir \subseteq {"IIR_THR_EMPTY", "IIR_RECV_DATA"}

\* The thread is between its lock and its unlock, and not waiting for the lock.
inside(t) == printing[t] # -1 /\ k.queue[t] # DevQ

\* The texts of two threads are not mixed: only one thread at a time is past the
\* lock, however they are preempted, wherever the device was passed on.
PrintsWhole == \A t, u \in Worker : inside(t) /\ inside(u) => t = u

\* The device is locked exactly while a thread is inside that will unlock it, so
\* no thread waits for a device that nobody holds.
LockedHasHolder ==
    /\ locked <=> \E t \in Worker : inside(t)
    /\ k.q[DevQ] # <<>> => locked

\* The state is well formed, no thread is lost or linked twice, the ready mask is
\* exact and the highest ready priority runs.
SchedulingKept ==
    /\ TypeOK
    /\ LinkedOnce(k, Thread) /\ NoneLost(k, Thread) /\ MaskExact(k)
    /\ HighestRuns(k)

\* outbuff: what is printed goes to the line in order, nothing twice and nothing
\* from the middle missing; a character that finds no room is refused.
OutQueue == INSTANCE BoundedQueue WITH
    Element <- Char, Capacity <- SIZE, KeepNew <- FALSE, queue <- contents(out)

\* inbuff: what is received reaches programs in order; when nobody reads, each
\* new character costs exactly the oldest one.
InQueue == INSTANCE BoundedQueue WITH
    Element <- Char, Capacity <- SIZE, KeepNew <- TRUE, queue <- contents(in)

\* Each character sent by print and each one the driver takes from the chip comes
\* into its buffer, and no more than one leaves in that step: to the chip if that
\* is free, to the program that reads.
ArrivalsKept ==
    [][/\ \A t \in Worker, c \in Char : print_char(t, c) =>
            IF thr = NULL THEN OutQueue!ComeAndLeave(c) ELSE OutQueue!Come(c)
       /\ uart_interrupt_handler /\ rbr # NULL /\ rbr' = NULL => InQueue!Come(rbr)
       /\ \A t \in Worker : uart_recv(t) /\ rbr # NULL => InQueue!ComeAndLeave(rbr)]_vars

\* Both buffers of the serial driver, interleaved with the interrupts that fill
\* and empty them, are such queues: outbuff refuses a character only when it is
\* full, inbuff refuses none and keeps the most recent ones.
BuffersInOrder == OutQueue!Spec /\ InQueue!Spec /\ ArrivalsKept
=============================================================================
