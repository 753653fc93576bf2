------------------------------ MODULE Timeout ------------------------------
(***************************************************************************)
(* The timeout scheduler of src/timeout.c: timers in a list sorted by      *)
(* expiry, the counter of the RTC, which overflows when the timer at the   *)
(* head expires, the overflow interrupt, which moves that timer to the     *)
(* execute queue, and the main loop, which calls its callback.             *)
(*                                                                         *)
(* scheduler_timeout_create and scheduler_timeout_delete are two steps     *)
(* each: what they do before the overflow interrupt is off, and the rest.  *)
(* The counter advances at any time; if it overflows between the two, the  *)
(* scheduler breaks, and `raced` remembers it.  The interrupt is served    *)
(* before the next instruction, so neither the counter nor the main loop   *)
(* moves while it is pending and enabled.  On an empty list it follows a   *)
(* null pointer: the model stops there.  The counter is scaled down: TOP   *)
(* stands for 65535, ABS for 2^32.                                         *)
(***************************************************************************)
EXTENDS Integers, FiniteSets

CONSTANTS
  Timers, NULL, scheduler_dummy,
  TOP, ABS,
  Timeouts,         \* the ticks a timer may be created for
  MaxOps            \* calls of create, delete and flush_all

Nodes == Timers \cup {scheduler_dummy}

ASSUME TimeoutAssumption ==
  /\ IsFiniteSet(Timers) /\ scheduler_dummy \notin Timers /\ NULL \notin Nodes
  /\ TOP \in Nat \ {0} /\ ABS \in Nat \ {0} /\ MaxOps \in Nat
  /\ Timeouts \subseteq 1 .. ABS - 2 * (TOP + 1)

VARIABLES
  next, absolute_time,            \* of each timer
  list_head, queue_head,          \* scheduler_list_head, scheduler_execute_queue_head
  last, load, is_running,         \* ..._absolute_time_of_last_timeout, ..._last_timer_load
  CNT, ovf, ovfEnabled,           \* RTC.CNT, RTC.INTFLAGS, RTC.INTCTRL
  pc, arg,                        \* main: "idle", "create" or "delete" a timer
  asked, age, status,             \* per timer: its timeout, ticks since create,
                                  \* "off", "pending" or "due"
  ops,
  raced             \* history: the period of the head ended inside a call

list == <<next, absolute_time, list_head, last>>
rtc == <<CNT, load, ovfEnabled, is_running>>
ghost == <<asked, age, status>>
vars == <<list, queue_head, rtc, ovf, pc, arg, ghost, ops, raced>>

MaxAge == 2 * ABS                 \* ticks are counted up to here

-----------------------------------------------------------------------------
Init ==
  /\ next = [n \in Nodes |-> NULL] /\ absolute_time = [n \in Nodes |-> 0]
  /\ list_head = NULL /\ queue_head = NULL
  /\ last = 0 /\ load = 0 /\ is_running = FALSE
  /\ CNT = 0 /\ ovf = FALSE /\ ovfEnabled = TRUE
  /\ pc = "idle" /\ arg = NULL
  /\ asked = [t \in Timers |-> 0] /\ age = [t \in Timers |-> 0]
  /\ status = [t \in Timers |-> "off"]
  /\ ops = 0 /\ raced = FALSE

(* The nodes from h on along the links nxt: the least set that holds h and  *)
(* the node behind each of its nodes.                                       *)
closed(S, h, nxt) == {h} \cup {nxt[n] : n \in S} \subseteq S \cup {NULL}
reach(h, nxt) == {n \in Nodes : \A S \in SUBSET Nodes : closed(S, h, nxt) => n \in S}
chain(h) == reach(h, next)

(* scheduler_start_timer_at_head for a list of head h with links nxt and    *)
(* times abs; base is the time of the last timeout                          *)
startAtHeadUnguarded(h, nxt, abs, base) ==      \* variant: no dummy for a long period
  /\ list_head' = h /\ next' = nxt /\ absolute_time' = abs
  /\ ovfEnabled' = (h # NULL) /\ is_running' = (h # NULL)
  /\ last' = IF h = NULL THEN 0 ELSE base
  /\ load' = IF h = NULL THEN load ELSE (TOP - abs[h] + base) % (TOP + 1)
  /\ CNT' = IF h = NULL THEN CNT ELSE load'

startAtHead(h, nxt, abs, base) ==
  IF h = NULL
  THEN /\ list_head' = NULL /\ last' = 0          \* scheduler_stop_timeouts
       /\ ovfEnabled' = FALSE /\ is_running' = FALSE
       /\ next' = nxt /\ absolute_time' = abs
       /\ UNCHANGED <<CNT, load>>
  ELSE LET period == (abs[h] - base) % ABS
           far == period > TOP
       IN /\ list_head' = IF far THEN scheduler_dummy ELSE h
          /\ next' = IF far THEN [nxt EXCEPT ![scheduler_dummy] = h] ELSE nxt
          /\ absolute_time' = IF far THEN [abs EXCEPT ![scheduler_dummy] = (base + TOP) % ABS]
                              ELSE abs
          /\ load' = TOP - (IF far THEN TOP ELSE period)
          /\ CNT' = load'
          /\ last' = base
          /\ ovfEnabled' = TRUE /\ is_running' = TRUE

-----------------------------------------------------------------------------
served == ~(ovf /\ ovfEnabled)

(* the RTC counts *)
tick ==
  /\ served
  /\ raced' = (raced \/ (CNT = TOP /\ pc # "idle" /\ list_head # NULL))
  /\ CNT' = (CNT + 1) % (TOP + 1)
  /\ ovf' = (ovf \/ CNT = TOP)
  /\ age' = [t \in Timers |-> IF status[t] = "pending" /\ age[t] < MaxAge
                              THEN age[t] + 1 ELSE age[t]]
  /\ UNCHANGED <<list, queue_head, load, ovfEnabled, is_running, pc, arg, asked, status, ops>>

(* ISR(RTC_CNT_vect), with scheduler_enqueue_callback *)
enqueued(t) ==
  LET tail == CHOOSE n \in chain(queue_head) : next[n] = NULL
  IN IF queue_head = NULL THEN [next EXCEPT ![t] = NULL]
     ELSE [next EXCEPT ![t] = NULL, ![tail] = t]

overflowIsr ==
  /\ ~served /\ list_head # NULL
  /\ LET h == list_head
         nxt == IF h = scheduler_dummy THEN next ELSE enqueued(h)
     IN /\ queue_head' = IF queue_head = NULL /\ h # scheduler_dummy THEN h ELSE queue_head
        /\ status' = IF h = scheduler_dummy THEN status ELSE [status EXCEPT ![h] = "due"]
        /\ startAtHead(next[h], nxt, absolute_time, absolute_time[h])
  /\ ovf' = FALSE
  /\ UNCHANGED <<pc, arg, asked, age, ops, raced>>

-----------------------------------------------------------------------------
(* the age of a timer that is off is of no interest                         *)
forget == age' = [t \in Timers |-> IF status'[t] = "off" THEN 0 ELSE age[t]]

(* scheduler_timeout_create(t, timeout): the interrupt is turned off.  A    *)
(* timer is not created again while it is in the list or in the queue.      *)
beginCreate(t, timeout) ==
  /\ served /\ pc = "idle" /\ ops < MaxOps
  /\ status[t] = "off"
  /\ pc' = "create" /\ arg' = t /\ ops' = ops + 1
  /\ ovfEnabled' = FALSE
  /\ asked' = [asked EXCEPT ![t] = timeout] /\ age' = [age EXCEPT ![t] = 0]
  /\ status' = [status EXCEPT ![t] = "pending"]
  /\ UNCHANGED <<list, queue_head, CNT, load, is_running, ovf, raced>>

(* scheduler_make_absolute *)
makeAbsolute(timeout) ==
  (timeout + last + (IF is_running THEN CNT - load ELSE 0)) % ABS

(* scheduler_sorted_insert: the node a timer that expires at time is put    *)
(* behind, in a list whose times are abs: the walk goes on while the next   *)
(* node does not expire later                                               *)
insertAfter(time, abs) ==
  LET early == [n \in Nodes |-> IF next[n] # NULL /\ abs[next[n]] <= time
                                THEN next[n] ELSE NULL]
  IN CHOOSE n \in reach(list_head, early) : early[n] = NULL

(* the rest of scheduler_timeout_create, with scheduler_rebase_list         *)
finishCreate ==
  /\ served /\ pc = "create"
  /\ pc' = "idle"
  /\ LET time0 == makeAbsolute(asked[arg])
         base == absolute_time[list_head]
         past == time0 < last
         time == IF past THEN (time0 + TOP - base + 1) % ABS ELSE time0
         abs0 == IF past
                 THEN [n \in Nodes |-> IF n \in chain(list_head)
                                       THEN absolute_time[n] - base ELSE absolute_time[n]]
                 ELSE absolute_time
         abs == [abs0 EXCEPT ![arg] = time]
         since == IF past THEN (last - base) % ABS ELSE last
         prev == insertAfter(time, abs0)
         follower == IF list_head = scheduler_dummy THEN next[scheduler_dummy] ELSE list_head
     IN IF list_head = NULL \/ abs0[list_head] > time
        THEN /\ startAtHead(arg, [next EXCEPT ![arg] = follower], abs, since)
             /\ ovf' = FALSE
        ELSE /\ next' = [next EXCEPT ![arg] = next[prev], ![prev] = arg]
             /\ absolute_time' = abs /\ last' = since
             /\ ovfEnabled' = is_running
             /\ UNCHANGED <<list_head, CNT, load, is_running, ovf>>
  /\ arg' = NULL
  /\ UNCHANGED <<queue_head, ghost, ops, raced>>

(* scheduler_timeout_delete(t), of a timer created before: nothing to do if *)
(* the list is empty                                                        *)
beginDelete(t) ==
  /\ served /\ pc = "idle" /\ ops < MaxOps
  /\ asked[t] # 0
  /\ ops' = ops + 1
  /\ pc' = IF list_head = NULL THEN "idle" ELSE "delete"
  /\ arg' = IF list_head = NULL THEN NULL ELSE t
  /\ UNCHANGED <<list, queue_head, rtc, ovf, asked, age, status, raced>>

finishDeleteDeaf ==                             \* variant: the interrupt stays off
  /\ served /\ pc = "delete"
  /\ pc' = "idle"
  /\ status' = IF arg \in chain(list_head) THEN [status EXCEPT ![arg] = "off"] ELSE status
  /\ IF arg = list_head
     THEN startAtHead(next[arg], next, absolute_time, last)
     ELSE /\ next' = [n \in Nodes |-> IF n \in chain(list_head) /\ next[n] = arg
                                      THEN next[arg] ELSE next[n]]
          /\ ovfEnabled' = FALSE
          /\ UNCHANGED <<absolute_time, list_head, last, CNT, load, is_running>>
  /\ arg' = NULL /\ forget
  /\ UNCHANGED <<queue_head, ovf, asked, ops, raced>>

(* the rest: the interrupt is off; a timer in the queue stays there         *)
finishDelete ==
  /\ served /\ pc = "delete"
  /\ pc' = "idle"
  /\ status' = IF arg \in chain(list_head) THEN [status EXCEPT ![arg] = "off"] ELSE status
  /\ IF arg = list_head
     THEN startAtHead(next[arg], next, absolute_time, last)
     ELSE /\ next' = [n \in Nodes |-> IF n \in chain(list_head) /\ next[n] = arg
                                      THEN next[arg] ELSE next[n]]
          /\ ovfEnabled' = TRUE
          /\ UNCHANGED <<absolute_time, list_head, last, CNT, load, is_running>>
  /\ arg' = NULL /\ forget
  /\ UNCHANGED <<queue_head, ovf, asked, ops, raced>>

flushListening ==                               \* variant: the interrupt stays on
  /\ served /\ pc = "idle" /\ ops < MaxOps
  /\ ops' = ops + 1
  /\ list_head' = NULL
  /\ status' = [t \in Timers |-> IF status[t] = "pending" THEN "off" ELSE status[t]]
  /\ forget
  /\ UNCHANGED <<next, absolute_time, last, queue_head, rtc, ovf, pc, arg, asked, raced>>

scheduler_timeout_flush_all ==
  /\ served /\ pc = "idle" /\ ops < MaxOps
  /\ ops' = ops + 1
  /\ list_head' = NULL /\ last' = 0
  /\ ovfEnabled' = FALSE /\ is_running' = FALSE
  /\ status' = [t \in Timers |-> IF status[t] = "pending" THEN "off" ELSE status[t]]
  /\ forget
  /\ UNCHANGED <<next, absolute_time, queue_head, CNT, load, ovf, pc, arg, asked, raced>>

(* scheduler_timeout_call_next_callback: the callback may ask to be called  *)
(* again, which is a beginCreate of the same timer                          *)
callNextDropping ==                             \* variant: the queue is emptied
  /\ served /\ pc = "idle" /\ queue_head # NULL
  /\ queue_head' = NULL /\ status' = [status EXCEPT ![queue_head] = "off"]
  /\ forget
  /\ UNCHANGED <<list, rtc, ovf, pc, arg, asked, ops, raced>>

callNextCallback ==
  /\ served /\ pc = "idle" /\ queue_head # NULL
  /\ queue_head' = next[queue_head]
  /\ status' = [status EXCEPT ![queue_head] = "off"]
  /\ forget
  /\ UNCHANGED <<list, rtc, ovf, pc, arg, asked, ops, raced>>

Next ==
  \/ tick \/ overflowIsr
  \/ \E t \in Timers, d \in Timeouts : beginCreate(t, d)
  \/ finishCreate
  \/ \E t \in Timers : beginDelete(t)
  \/ finishDelete \/ scheduler_timeout_flush_all \/ callNextCallback

Spec == Init /\ [][Next]_vars

(* The RTC counts, interrupts are served, the main loop polls the queue.    *)
FairSpec ==
  /\ Spec
  /\ WF_vars(tick) /\ WF_vars(overflowIsr)
  /\ WF_vars(finishCreate) /\ WF_vars(finishDelete) /\ WF_vars(callNextCallback)

-----------------------------------------------------------------------------
(* Of interest: CNT stays in its register, a running scheduler has its      *)
(* interrupt off only inside a call, and the dummy is never in the queue.   *)
TypeOK ==
  /\ next \in [Nodes -> Nodes \cup {NULL}] /\ absolute_time \in [Nodes -> Int]
  /\ list_head \in Nodes \cup {NULL} /\ queue_head \in Timers \cup {NULL}
  /\ last \in 0 .. ABS - 1 /\ load \in 0 .. TOP /\ CNT \in 0 .. TOP
  /\ {ovf, ovfEnabled, is_running} \subseteq BOOLEAN
  /\ is_running /\ ~ovfEnabled => pc = "create"
  /\ pc \in {"idle", "create", "delete"} /\ arg \in Timers \cup {NULL}
  /\ asked \in [Timers -> Timeouts \cup {0}] /\ age \in [Timers -> 0 .. MaxAge]
  /\ status \in [Timers -> {"off", "pending", "due"}]
  /\ ops \in 0 .. MaxOps

(* Between calls, a timer that waits is in the list, one that has expired   *)
(* in the queue, each once, and no other: the ISR, which moves timers from  *)
(* one to the other through the same next pointer, and the main loop never  *)
(* lose or duplicate one.                                                   *)
EveryTimerHasItsPlace ==
  pc = "idle" =>
    /\ chain(list_head) \cap Timers = {t \in Timers : status[t] = "pending"}
    /\ chain(queue_head) = {t \in Timers : status[t] = "due"}

(* The list is sorted by expiry, the dummy included.                        *)
Sorted ==
  \A n \in chain(list_head) :
    next[n] \in Nodes => absolute_time[n] <= absolute_time[next[n]]

(* The list and the queue are what the callers take them for: no timer lost *)
(* or doubled, each where its state says, and the first to expire in front, *)
(* until a period ends inside a call.                                       *)
ListsWellFormed == ~raced => TypeOK /\ EveryTimerHasItsPlace /\ Sorted

(* timeout.h, create: "Number of ticks to wait before executing the task":  *)
(* no timer expires before its ticks have passed (timeout.c:92-170), until  *)
(* a period ends inside a call.                                             *)
NeverEarly == ~raced => \A t \in Timers : status[t] = "due" => age[t] >= asked[t]

(* "It is always the one at the head" that has expired (timeout.c:306).     *)
(* The interrupt finds an empty list in two cases only: before the first    *)
(* call, since it is on from the start (timeout.c:80), and once a period    *)
(* has ended inside a call (timeout.c:211-216).                             *)
IsrFindsTimer == ~served /\ list_head = NULL => ops = 0 \/ raced

(* Every timer that is neither deleted nor flushed gets its callback called *)
(* once the program stops changing the list, unless a period ended inside a *)
(* call.                                                                    *)
EveryTimerRuns == \A t \in Timers : status[t] = "pending" ~> status[t] = "off" \/ raced
=============================================================================
