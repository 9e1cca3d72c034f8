----------------------------- MODULE DataSignal -----------------------------
(***************************************************************************)
(* One lane's data signal of one side (proxy_t::clients_data_signal_ or    *)
(* server_data_signal_, src/src/proxy.h l.53-54, 100-106) with the         *)
(* readers that wait on it and the receivers that notify it.               *)
(*                                                                         *)
(* reader_t::one_step (src/src/tasks/reader.h l.29-48): read the lane of   *)
(* every line it can lock; if nothing was read, wait on the signal with    *)
(* the condition "ready_read <= reader_num_", i.e. reader i sleeps only    *)
(* while at most i lines are readable.  receiver_t::one_step              *)
(* (src/src/tasks/receiver.h l.67-88) commits bytes to k lines and then    *)
(* calls notify_n(k) (sweep) or notify_one() (epoll path).                 *)
(*                                                                         *)
(* Data is abstracted to the number of lines with readable bytes on the    *)
(* lane; reading a line takes its slot lock, drains it and releases it.    *)
(***************************************************************************)
EXTENDS Signal

CONSTANTS
  Lines,     \* peers (lines) in the conveyer
  Lvl,       \* threading_level_ = hardware_concurrency, set on the signal
  MaxData    \* commits the receivers make in a behaviour

Readers == SigWaiters      \* reader_num_ of each reader of the lane
Receivers == SigNotifiers

VARIABLES
  ready,     \* lines whose lane has readable bytes
  produced,  \* lines committed so far
  rpc,       \* rpc[r]: "read" (conveyer read) or "wait" (in data_signal_->wait)
  pend       \* pend[n]: lines committed by receiver n not yet notified, 0 = none

cvars == <<ready, produced, rpc, pend>>
vars == <<sigvars, cvars>>

(* receiver_t::one_step l.77-80, 83: conveyer write puts bytes on k lines *)
(* that had none.                                                         *)
Commit(n) ==
  /\ pend[n] = 0
  /\ \E k \in 1..(Lines - ready) :
       /\ produced + k <= MaxData
       /\ ready' = ready + k
       /\ produced' = produced + k
       /\ pend' = [pend EXCEPT ![n] = k]
  /\ UNCHANGED <<sigvars, rpc>>

(* receiver.h l.81, 84: notify_n(k) / notify_one(), through do_notify. *)
NotifyStart(n) ==
  /\ pend[n] > 0
  /\ NotifyPre(n)
  /\ UNCHANGED cvars

NotifyDropped(n) ==
  /\ pend[n] > 0
  /\ NotifySkip(n)
  /\ pend' = [pend EXCEPT ![n] = 0]
  /\ UNCHANGED <<ready, produced, rpc>>

NotifyDone(n) ==
  /\ NotifyLocked(n, TRUE, NCnt(pend[n], Lvl))
  /\ pend' = [pend EXCEPT ![n] = 0]
  /\ UNCHANGED <<ready, produced, rpc>>

(* reader.h l.39-42: conveyer read drains a readable line; one_step       *)
(* returns true and the task loop calls it again.                        *)
Read(r) ==
  /\ rpc[r] = "read"
  /\ ready > 0
  /\ ready' = ready - 1
  /\ UNCHANGED <<sigvars, produced, rpc, pend>>

(* reader.h l.39: read found nothing: go on to the wait of l.48. *)
NoData(r) ==
  /\ rpc[r] = "read"
  /\ ready = 0
  /\ rpc' = [rpc EXCEPT ![r] = "wait"]
  /\ UNCHANGED <<sigvars, ready, produced, pend>>

(* reader.h l.43-48, under mx_: cond_f compares ready_read with reader_num_. *)
CondTrue(r) ==
  /\ rpc[r] = "wait"
  /\ ready <= r
  /\ WaitCheck(r)
  /\ UNCHANGED cvars

CondFalse(r) ==
  /\ rpc[r] = "wait"
  /\ ready > r
  /\ WaitSkip(r)
  /\ rpc' = [rpc EXCEPT ![r] = "read"]
  /\ UNCHANGED <<ready, produced, pend>>

Block(r) ==
  /\ WaitBlock(r)
  /\ UNCHANGED cvars

Wake(r) ==
  /\ WaitWake(r)
  /\ rpc' = [rpc EXCEPT ![r] = "read"]
  /\ UNCHANGED <<ready, produced, pend>>

(* With nothing to do, wait_for and epoll_wait time out after            *)
(* max_response and the loops go round again.                            *)
Poll == UNCHANGED vars

Init ==
  /\ SigInit
  /\ ready = 0
  /\ produced = 0
  /\ rpc = [r \in Readers |-> "read"]
  /\ pend = [n \in Receivers |-> 0]

ReaderStep(r) ==
  Read(r) \/ NoData(r) \/ CondTrue(r) \/ CondFalse(r) \/ Block(r) \/ Wake(r)

ReceiverStep(n) ==
  Commit(n) \/ NotifyStart(n) \/ NotifyDropped(n) \/ NotifyDone(n)

Next ==
  \/ \E r \in Readers : ReaderStep(r)
  \/ \E n \in Receivers : ReceiverStep(n)
  \/ Poll

(* Every thread is scheduled by the OS; a reader back from wait_for       *)
(* re-evaluates its loop condition, so a waiter whose counts differ is    *)
(* bound to leave (weak fairness of Wake).                                *)
Fairness ==
  /\ \A r \in Readers : WF_vars(ReaderStep(r))
  /\ \A n \in Receivers : /\ WF_vars(NotifyStart(n))
                          /\ WF_vars(NotifyDropped(n))
                          /\ WF_vars(NotifyDone(n))

Spec == Init /\ [][Next]_vars /\ Fairness

TypeOK ==
  /\ SigTypeOK
  /\ ready \in 0..Lines
  /\ produced \in 0..MaxData
  /\ rpc \in [Readers -> {"read", "wait"}]
  /\ pend \in [Receivers -> 0..Lines]

(***************************************************************************)
(* Every line a receiver made readable is eventually read: the data signal *)
(* wakes "readers when a receiver has committed bytes" (spec, glossary).   *)
(***************************************************************************)
AllRead == (ready > 0) ~> (ready = 0)
=============================================================================
