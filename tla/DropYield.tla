------------------------------ MODULE DropYield ------------------------------
(***************************************************************************)
(* Dropping a peer whose slot is held by a task blocked for memory.        *)
(*  - drop_peer's get_locks (src/src/transfer_conveyer.h l.516-553): try   *)
(*    the slot lock; if a task holds it and its utility flag reads         *)
(*    task_blocked, yield() it and sleep 1ms + max_response, else 1ms;     *)
(*    give up after desperate_delay;                                       *)
(*  - task_t::yield / is_yielding and utility_flag_helper                  *)
(*    (src/src/tasks/task.h l.95-107, 136-148);                            *)
(*  - resource_waiter_t::wait (resource_waiter.h l.30-36) over             *)
(*    signal_t::do_wait (signal.h l.43-61): stop() = stop_flag() ||        *)
(*    is_yielding() is evaluated after every wake-up, timeout or notify;   *)
(*  - exceptor_t::except / show_message_except (exceptor.h l.39-71) and    *)
(*    write_operation's failure path (transfer_conveyer.h l.399-433).      *)
(* One receiver task and the supervisor; the slot is the receiver's       *)
(* writer slot of a client line, lane 0, so the first one get_locks       *)
(* takes and a give-up leaves no other lock held.                          *)
(***************************************************************************)
EXTENDS Naturals

CONSTANTS
  Peers,         \* the peers of the conveyer
  NoPeer,        \* no peer (model value)
  MaxAttempts,   \* desperate_delay counted in sleeps of get_locks
  PagesPerWrite  \* pages one write_operation may allocate (one_time_max)

VARIABLES
  live,      \* peers still in conveyer_
  rflag,     \* transfer flag of the receiver's slot of each peer
  otherDead, \* peers with a dead flag on another slot (EOF seen by others)
  rpc,       \* receiver: idle, hold, wait, woke, failing
  rpeer,     \* the peer whose slot the receiver holds
  rop,       \* what the memory wait is for: the "page" or the "msg"
  res,       \* the result of the last memory wait
  pages,     \* pages allocated by this write_operation
  uflag,     \* utility_flag_ = task_blocked
  yflag,     \* yield_flag_
  spc,       \* supervisor: rest, try, check, flag, yield, sleep
  sTarget,   \* the peer the supervisor is dropping
  attempts,  \* sleeps of get_locks so far
  long       \* the current sleep is 1ms + max_response (after a yield)

vars == <<live, rflag, otherDead, rpc, rpeer, rop, res, pages, uflag, yflag,
          spc, sTarget, attempts, long>>
rvars == <<rflag, rpc, rpeer, rop, res, pages, uflag>>
svars == <<live, spc, sTarget, attempts, long>>

(* check_flags of drop_peers: some slot holds a dead flag.                *)
Dead(p) == rflag[p] = "dead" \/ p \in otherDead

(* The receiver holds the slot of p (its write handle is alive).          *)
Holds(p) == rpc # "idle" /\ rpeer = p

Dropping(p) == spc # "rest" /\ sTarget = p

Init ==
  /\ live = Peers /\ rflag = [p \in Peers |-> "ok"] /\ otherDead = {}
  /\ rpc = "idle" /\ rpeer = NoPeer /\ rop = "page" /\ res = TRUE
  /\ pages = 0 /\ uflag = FALSE /\ yflag = FALSE
  /\ spc = "rest" /\ sTarget = NoPeer /\ attempts = 0 /\ long = FALSE

----------------------------------------------------------------------------
(* The receiver.                                                           *)

(* conveyer write: the sweep or an epoll event takes a live peer's slot   *)
(* whose own flag is not dead (acquire_buffer_lock succeeded).            *)
(* write_handle takes conveyer_mutex_ shared (l.498-501), which           *)
(* drop_peers holds exclusively through drop_peer (l.623): no slot is     *)
(* taken during a drop.                                                    *)
Take(p) ==
  /\ rpc = "idle" /\ p \in live /\ rflag[p] = "ok"
  /\ spc = "rest"
  /\ rpc' = "hold" /\ rpeer' = p /\ pages' = 0
  /\ UNCHANGED <<rflag, rop, res, uflag, yflag, otherDead, svars>>

(* write_operation ends: set_transfer_flag(flag) from receive() (data     *)
(* pending or EAGAIN, or EOF / error) and the handle releases the lock.   *)
Finish ==
  /\ rpc = "hold"
  /\ \E f \in {"ok", "dead"} : rflag' = [rflag EXCEPT ![rpeer] = f]
  /\ rpc' = "idle"
  /\ UNCHANGED <<rpeer, rop, res, pages, uflag, yflag, otherDead, svars>>

(* handle.advance / handle.page throws bad_alloc: except() calls          *)
(* memory_waiter_->wait, whose utility_flag_helper sets task_blocked.     *)
NeedMemory ==
  /\ rpc = "hold" /\ pages < PagesPerWrite
  /\ pages' = pages + 1 /\ rpc' = "wait" /\ rop' = "page" /\ uflag' = TRUE
  /\ UNCHANGED <<rflag, rpeer, res, yflag, otherDead, svars>>

(* The wait returns ok; stop() has run is_yielding(), which clears       *)
(* yield_flag_.                                                           *)
WaitEnds(ok) == rpc' = "woke" /\ res' = ok /\ yflag' = FALSE

(* wait_for(max_response) returns on a timeout: stop() consumes a yield   *)
(* and ends the wait with false; without one the loop waits again.        *)
Timeout ==
  /\ rpc = "wait" /\ yflag
  /\ WaitEnds(FALSE)
  /\ UNCHANGED <<rflag, rpeer, rop, pages, uflag, otherDead, svars>>

(* adjust_resource's notify_all (a page freed, release_tasks) wakes it:   *)
(* stop() is still evaluated first, so a pending yield wins.              *)
Notify ==
  /\ rpc = "wait"
  /\ WaitEnds(~yflag)
  /\ UNCHANGED <<rflag, rpeer, rop, pages, uflag, otherDead, svars>>

(* wait returns: ~utility_flag_helper resets the flag.  except() retries  *)
(* the page on true; on false write_operation goes to its message; a      *)
(* message's wait ends in the message (retried on true) or its default.   *)
Unblock ==
  /\ rpc = "woke"
  /\ uflag' = FALSE
  /\ rpc' = CASE res /\ rop = "page" -> "hold"
              [] ~res /\ rop = "msg" -> "idle"
              [] OTHER -> "failing"
  /\ rflag' = IF ~res /\ rop = "msg"
               THEN [rflag EXCEPT ![rpeer] = "dead"] ELSE rflag
  /\ UNCHANGED <<rpeer, rop, res, pages, yflag, otherDead, svars>>

(* show_message_except builds the message, which may throw bad_alloc and  *)
(* wait again; then set_transfer_flag(operational_error) and the lock is  *)
(* released.                                                              *)
FailMsg ==
  /\ rpc = "failing"
  /\ \/ /\ rpc' = "wait" /\ rop' = "msg" /\ uflag' = TRUE
        /\ UNCHANGED rflag
     \/ /\ rflag' = [rflag EXCEPT ![rpeer] = "dead"] /\ rpc' = "idle"
        /\ UNCHANGED <<rop, uflag>>
  /\ UNCHANGED <<rpeer, res, pages, yflag, otherDead, svars>>

(* Another slot of p sees EOF or an error.                                *)
OtherDies(p) ==
  /\ p \in live \ otherDead
  /\ otherDead' = otherDead \cup {p}
  /\ UNCHANGED <<rvars, yflag, svars>>

----------------------------------------------------------------------------
(* The supervisor: drop_peers finds a dead flag and drop_peer's get_locks *)
(* tries the receiver's slot.                                             *)

(* drop_peers: check_flags saw a dead flag on a live peer.               *)
Tick ==
  /\ spc = "rest"
  /\ \E p \in live :
       /\ Dead(p)
       /\ spc' = "try" /\ sTarget' = p /\ attempts' = 0
  /\ UNCHANGED <<live, long, rvars, yflag, otherDead>>

(* Try with the give-up test one sleep late (delay <= desperate_delay).    *)
TryLateGiveUp ==
  /\ spc = "try"
  /\ IF ~Holds(sTarget)
       THEN live' = live \ {sTarget} /\ spc' = "rest"
       ELSE /\ spc' = IF attempts > MaxAttempts THEN "rest" ELSE "check"
            /\ UNCHANGED live
  /\ UNCHANGED <<sTarget, attempts, long, rvars, yflag, otherDead>>

(* The loop condition: acquire_buffer_lock, then delay < desperate_delay. *)
(* With the lock taken the peer is erased (the rest of drop_peer); once   *)
(* the delay is spent the drop gives up ("unable to remove peer").        *)
Try ==
  /\ spc = "try"
  /\ IF ~Holds(sTarget)
       THEN live' = live \ {sTarget} /\ spc' = "rest"
       ELSE /\ spc' = IF attempts >= MaxAttempts THEN "rest" ELSE "check"
            /\ UNCHANGED live
  /\ UNCHANGED <<sTarget, attempts, long, rvars, yflag, otherDead>>

(* Check that never looks at the task: no yield, 1ms sleeps.             *)
CheckNoYield ==
  /\ spc = "check"
  /\ spc' = "sleep" /\ long' = FALSE
  /\ UNCHANGED <<live, sTarget, attempts, rvars, yflag, otherDead>>

(* task = active_task(idx): the task holding the slot now, if any.        *)
Check ==
  /\ spc = "check"
  /\ IF Holds(sTarget)
       THEN spc' = "flag" /\ UNCHANGED long
       ELSE spc' = "sleep" /\ long' = FALSE
  /\ UNCHANGED <<live, sTarget, attempts, rvars, yflag, otherDead>>

(* task->utility_flag() == task_blocked, read a moment later: by then the *)
(* task may have left the slot and be blocked on another peer's write.    *)
ReadFlag ==
  /\ spc = "flag"
  /\ IF uflag
       THEN spc' = "yield" /\ UNCHANGED long
       ELSE spc' = "sleep" /\ long' = FALSE
  /\ UNCHANGED <<live, sTarget, attempts, rvars, yflag, otherDead>>

(* task->yield(); sleep_delay += max_response.                            *)
Yield ==
  /\ spc = "yield"
  /\ yflag' = TRUE /\ spc' = "sleep" /\ long' = TRUE
  /\ UNCHANGED <<live, sTarget, attempts, rvars, otherDead>>

(* sleep_for(sleep_delay); delay += sleep_delay.  A sleep of             *)
(* 1ms + max_response outlasts the yielded task's wait_for(max_response), *)
(* so it ends only after that wait has seen the yield.                    *)
Sleep ==
  /\ spc = "sleep"
  /\ ~(long /\ rpc = "wait" /\ yflag)
  /\ spc' = "try" /\ attempts' = attempts + 1
  /\ UNCHANGED <<live, sTarget, long, rvars, yflag, otherDead>>

----------------------------------------------------------------------------
RStep ==
  \/ \E p \in Peers : Take(p)
  \/ Finish \/ NeedMemory \/ Timeout \/ Unblock \/ FailMsg

SStep == Tick \/ Try \/ Check \/ ReadFlag \/ Yield \/ Sleep

Next == RStep \/ SStep \/ Notify \/ \E p \in Peers : OtherDies(p)

(* The receiver and the supervisor are threads that run while they can;  *)
(* a memory notify and a peer's EOF are up to the environment.            *)
Spec == Init /\ [][Next]_vars /\ WF_vars(RStep) /\ WF_vars(SStep)

----------------------------------------------------------------------------
TypeOK ==
  /\ live \subseteq Peers /\ otherDead \subseteq Peers
  /\ rflag \in [Peers -> {"ok", "dead"}]
  /\ rpc \in {"idle", "hold", "wait", "woke", "failing"}
  /\ rpeer \in Peers \cup {NoPeer} /\ rop \in {"page", "msg"}
  /\ res \in BOOLEAN /\ uflag \in BOOLEAN /\ yflag \in BOOLEAN
  /\ pages \in 0..PagesPerWrite
  /\ spc \in {"rest", "try", "check", "flag", "yield", "sleep"}
  /\ sTarget \in Peers \cup {NoPeer}
  /\ attempts \in 0..MaxAttempts /\ long \in BOOLEAN

(* exceptor.h:44 / get_locks: a receiver blocked in except()'s memory     *)
(* wait while holding the slot of the peer being dropped lets go of that  *)
(* slot once memory stops being freed: the yield, not a notify, ends the  *)
(* wait.  (With notifies forever, show_message_except may retry its       *)
(* allocation forever; that is not the hazard asked about.)               *)
BlockedHolderReleases ==
  <>[][~Notify]_vars =>
    \A p \in Peers : (rpc = "wait" /\ rpeer = p /\ Dropping(p)) ~> ~Holds(p)

(* task.h:107 / resource_waiter.h:34: a memory wait is cancelled by a     *)
(* yield only while the supervisor is dropping the peer whose slot the    *)
(* task holds, so write_operation never marks another peer                *)
(* operational_error (and gets it dropped) because of a yield.            *)
NoInnocentCancel ==
  [][(rpc = "wait" /\ rpc' = "woke" /\ ~res') => Dropping(rpeer)]_vars

====
