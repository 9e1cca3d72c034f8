--------------------------- MODULE ResourceWaiter ---------------------------
(***************************************************************************)
(* The memory waiter and the supervisor's memory policy:                   *)
(*  - resource_waiter_t (src/src/synchronization/resource_waiter.h): a     *)
(*    signal_t, a counter_ changed by adjust_resource inside notify_all's  *)
(*    condition (so only while someone is blocked), threshold required_;   *)
(*  - memory_pager_t::get_page / free (src/src/memory/memory_pager.h) and  *)
(*    cache_t::take / store (src/src/memory/cache.h);                      *)
(*  - exceptor_t::except (src/src/exceptions/exceptor.h): a bad_alloc      *)
(*    makes the task wait on the waiter, and retry if it returns true;    *)
(*  - superviser_t::one_step (src/src/tasks/superviser.h l.62-88) and the  *)
(*    pause/resume of task_control_t (src/src/tasks/task.h).               *)
(*                                                                         *)
(* Memory consumers (connectors, receivers) take pages; memory producers   *)
(* (senders, loggers) release them.  Pages are counted: in the cache, in   *)
(* use, and allocated in all; the heap holds at most HeapMax pages, and    *)
(* operator new throws bad_alloc when it is exhausted.                     *)
(***************************************************************************)
EXTENDS Signal

CONSTANTS
  Consumers,   \* connectors and receivers (memory_consumers_ctrls)
  Producers,   \* senders and loggers (memory_producers)
  Supervisor,  \* the superviser task
  CacheSize,   \* cache_size
  Required,    \* required_ = cache_size / 5
  HeapMax      \* pages the heap can hold

Tasks == Consumers \cup Producers

VARIABLES
  avail,     \* pages_available(): pages in the cache
  used,      \* pages held by lines
  alloc,     \* pages allocated (in the cache or in use)
  counter,   \* resource_waiter_t::counter_
  tpc,       \* tpc[t]: "run", or "wait" (in exceptor_t::except's memory wait)
  pend,      \* pend[n]: the increment of n's adjust_resource in progress, 0 = none
  paused,    \* pause_flag_ of the consumers' task controls
  uflag      \* tasks whose utility flag is task_blocked

wvars == <<avail, used, alloc, counter, tpc, pend, paused, uflag>>
vars == <<sigvars, wvars>>

(* memory_pager_t::get_page (l.53-57) with cache_t::take (l.36-46): a     *)
(* page from the cache, or a new one; then adjust_resource(-1).  A        *)
(* consumer takes a page only between ticks, i.e. while not paused.       *)
GetPage(c) ==
  /\ tpc[c] = "run"
  /\ pend[c] = 0
  /\ ~paused
  /\ \/ /\ avail > 0
        /\ avail' = avail - 1
        /\ UNCHANGED alloc
     \/ /\ avail = 0
        /\ alloc < HeapMax
        /\ alloc' = alloc + 1
        /\ UNCHANGED avail
  /\ used' = used + 1
  /\ pend' = [pend EXCEPT ![c] = -1]
  /\ UNCHANGED <<sigvars, counter, tpc, paused, uflag>>

(* page_t::~page_t -> memory_pager_t::free (l.76-80) with cache_t::store *)
(* (l.48-56): back to the cache, or destroyed when it is full; then      *)
(* adjust_resource(1).                                                   *)
FreePage(p) ==
  /\ tpc[p] = "run"
  /\ pend[p] = 0
  /\ used > 0
  /\ used' = used - 1
  /\ IF avail < CacheSize
       THEN avail' = avail + 1 /\ UNCHANGED alloc
       ELSE alloc' = alloc - 1 /\ UNCHANGED avail
  /\ pend' = [pend EXCEPT ![p] = 1]
  /\ UNCHANGED <<sigvars, counter, tpc, paused, uflag>>

(* operator new throws in a step of task t (cache empty, heap full):     *)
(* except() calls memory_waiter_->wait(this), whose utility_flag_helper  *)
(* sets task_blocked and whose on_block_ pauses every consumer control   *)
(* (superviser_t::on_task_blocked l.41-45).  A consumer fails in         *)
(* get_page; a producer (a logger) in any allocation.                    *)
BadAlloc(t) ==
  /\ tpc[t] = "run"
  /\ pend[t] = 0
  /\ t \in Consumers => ~paused
  /\ avail = 0
  /\ alloc = HeapMax
  /\ tpc' = [tpc EXCEPT ![t] = "wait"]
  /\ uflag' = uflag \cup {t}
  /\ paused' = TRUE
  /\ UNCHANGED <<sigvars, avail, used, alloc, counter, pend>>

(* resource_waiter_t::wait l.33: signal_.wait with always_true. *)
WaitEnter(t) ==
  /\ tpc[t] = "wait"
  /\ WaitCheck(t)
  /\ UNCHANGED wvars

WaitSleep(t) ==
  /\ WaitBlock(t)
  /\ UNCHANGED wvars

(* The wait returns true: ~utility_flag_helper clears the flag and       *)
(* except() retries the operation.                                       *)
WaitReturn(t) ==
  /\ WaitWake(t)
  /\ tpc' = [tpc EXCEPT ![t] = "run"]
  /\ uflag' = uflag \ {t}
  /\ UNCHANGED <<avail, used, alloc, counter, pend, paused>>

(* adjust_resource (l.38-50) = notify_all with a condition that updates   *)
(* counter_ under mx_; it runs only when the pre-check finds a waiter.   *)
AdjustPre(n) ==
  /\ pend[n] # 0
  /\ NotifyPre(n)
  /\ UNCHANGED wvars

AdjustSkip(n) ==
  /\ pend[n] # 0
  /\ NotifySkip(n)
  /\ pend' = [pend EXCEPT ![n] = 0]
  /\ UNCHANGED <<avail, used, alloc, counter, tpc, paused, uflag>>

(* l.41-44: counter_ += increment; reset to 0 when enough or negative. *)
NewCounter(c) == IF Required < c \/ c < 0 THEN 0 ELSE c

AdjustLocked(n) ==
  /\ LET c == counter + pend[n]
     IN /\ NotifyLocked(n, Required < c, AllCnt)
        /\ counter' = IF blocked > 0 THEN NewCounter(c) ELSE counter
  /\ pend' = [pend EXCEPT ![n] = 0]
  /\ UNCHANGED <<avail, used, alloc, tpc, paused, uflag>>

(* superviser_t::one_step l.62-86: if a producer is blocked,               *)
(* release_tasks() = adjust_resource(required_); otherwise resume the     *)
(* paused consumers once the cache holds more than cache_size / 15.       *)
SupTick ==
  /\ pend[Supervisor] = 0
  /\ IF uflag \cap Producers # {}
       THEN /\ pend' = [pend EXCEPT ![Supervisor] = Required]
            /\ UNCHANGED paused
       ELSE /\ paused' = (paused /\ ~(CacheSize \div 15 < avail))
            /\ UNCHANGED pend
  /\ UNCHANGED <<sigvars, avail, used, alloc, counter, tpc, uflag>>

(* Sleeps, epoll_wait and wait_for time out and the loops go round again. *)
Poll == UNCHANGED vars

Init ==
  /\ SigInit
  /\ avail = CacheSize        \* the cache is prefilled
  /\ used = 0
  /\ alloc = CacheSize
  /\ counter = 0
  /\ tpc = [t \in Tasks |-> "run"]
  /\ pend = [n \in Tasks \cup {Supervisor} |-> 0]
  /\ paused = FALSE
  /\ uflag = {}

AdjustStep(n) == AdjustPre(n) \/ AdjustSkip(n) \/ AdjustLocked(n)

WaitStep(t) == WaitEnter(t) \/ WaitSleep(t) \/ WaitReturn(t)

Next ==
  \/ \E c \in Consumers : GetPage(c)
  \/ \E p \in Producers : FreePage(p)
  \/ \E t \in Tasks : BadAlloc(t) \/ WaitStep(t)
  \/ \E n \in Tasks \cup {Supervisor} : AdjustStep(n)
  \/ SupTick
  \/ Poll

(* Threads are scheduled by the OS, the supervisor ticks every 100 ms and *)
(* senders keep sending what the lines hold.  Taking pages depends on     *)
(* what clients and the server send, so GetPage and BadAlloc get no       *)
(* fairness.                                                              *)
Fairness ==
  /\ \A p \in Producers : WF_vars(FreePage(p))
  /\ \A t \in Tasks : WF_vars(WaitStep(t))
  /\ \A n \in Tasks \cup {Supervisor} : WF_vars(AdjustStep(n))
  /\ WF_vars(SupTick)

Spec == Init /\ [][Next]_vars /\ Fairness

TypeOK ==
  /\ SigTypeOK
  /\ avail \in 0..CacheSize
  /\ used \in 0..HeapMax
  /\ alloc \in 0..HeapMax
  /\ counter \in 0..Required
  /\ tpc \in [Tasks -> {"run", "wait"}]
  /\ pend \in [Tasks \cup {Supervisor} -> {-1, 0, 1, Required}]
  /\ paused \in BOOLEAN
  /\ uflag \subseteq Tasks

(***************************************************************************)
(* A producer (sender or logger) that ran out of memory is released: the   *)
(* supervisor sees its task_blocked flag and calls release_tasks() every   *)
(* tick until the waiter's counter crosses required_.                      *)
(***************************************************************************)
ProducerReleased ==
  \A p \in Producers : (tpc[p] = "wait") ~> (tpc[p] = "run")
=============================================================================
