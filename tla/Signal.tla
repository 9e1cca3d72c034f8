------------------------------- MODULE Signal -------------------------------
(***************************************************************************)
(* signal_t (src/src/synchronization/signal.h): a condition variable with  *)
(* an atomic count of blocked waiters and a count of outstanding wake-ups. *)
(*                                                                         *)
(* A waiter (do_wait) takes mx_, evaluates its condition, and if it holds  *)
(* increments blocked_cnt_, copies it into notify_cnt_ and waits until the *)
(* two differ.  A notifier (do_notify) first reads blocked_cnt_ WITHOUT    *)
(* the mutex and does nothing when it is 0; otherwise it takes mx_,        *)
(* re-reads it and applies its count operation to notify_cnt_.             *)
(*                                                                         *)
(* The condition-variable wake-up itself (vr_.notify_*, wait_for) is not   *)
(* state: every wait is a wait_for with max_response, so a waiter          *)
(* re-evaluates the loop condition periodically whatever it is woken by.   *)
(* The operators below change only the signal's variables; the modules     *)
(* that use a signal conjoin them with their own state changes.            *)
(***************************************************************************)
EXTENDS Integers, FiniteSets

CONSTANTS
  SigWaiters,    \* the tasks that wait on this signal
  SigNotifiers,  \* the tasks that notify it
  NoHolder       \* mx_ is not held

VARIABLES
  mx,         \* the holder of mx_, or NoHolder
  blocked,    \* blocked_cnt_
  notifyCnt,  \* notify_cnt_
  wst,        \* wst[w]: "out", "checked" (holds mx_, condition true), "waiting"
  nst         \* nst[n]: "idle", or "pre" (passed the unlocked pre-check)

sigvars == <<mx, blocked, notifyCnt, wst, nst>>

SigInit ==
  /\ mx = NoHolder
  /\ blocked = 0
  /\ notifyCnt = 0
  /\ wst = [w \in SigWaiters |-> "out"]
  /\ nst = [n \in SigNotifiers |-> "idle"]

(* do_wait l.45-48: lock mx_ and find the condition true (it stays held). *)
WaitCheck(w) ==
  /\ wst[w] = "out"
  /\ mx = NoHolder
  /\ mx' = w
  /\ wst' = [wst EXCEPT ![w] = "checked"]
  /\ UNCHANGED <<blocked, notifyCnt, nst>>

(* do_wait l.45-47: the condition is false: unlock and return true.  The *)
(* signal's state is untouched.                                          *)
WaitSkip(w) ==
  /\ wst[w] = "out"
  /\ mx = NoHolder
  /\ UNCHANGED sigvars

(* do_wait l.49-53: count itself blocked, reset notify_cnt_ to the new    *)
(* count and release mx_ inside wait_for.                                 *)
WaitBlock(w) ==
  /\ wst[w] = "checked"
  /\ blocked' = blocked + 1
  /\ notifyCnt' = blocked + 1
  /\ mx' = NoHolder
  /\ wst' = [wst EXCEPT ![w] = "waiting"]
  /\ UNCHANGED nst

(* do_wait l.52-60: back from wait_for with mx_, the counts differ: leave *)
(* the loop, decrement blocked_cnt_ and unlock.  When they are equal the  *)
(* waiter waits again, which changes nothing.                             *)
WaitWake(w) ==
  /\ wst[w] = "waiting"
  /\ mx = NoHolder
  /\ blocked # notifyCnt
  /\ blocked' = blocked - 1
  /\ wst' = [wst EXCEPT ![w] = "out"]
  /\ UNCHANGED <<mx, notifyCnt, nst>>

(* do_notify l.27: the unlocked pre-check finds waiters. *)
NotifyPre(n) ==
  /\ nst[n] = "idle"
  /\ blocked > 0
  /\ nst' = [nst EXCEPT ![n] = "pre"]
  /\ UNCHANGED <<mx, blocked, notifyCnt, wst>>

(* do_notify l.27: the pre-check reads 0: the notification is dropped. *)
NotifySkip(n) ==
  /\ nst[n] = "idle"
  /\ blocked = 0
  /\ UNCHANGED sigvars

(* do_notify l.29-36 under mx_: if someone is still blocked and the       *)
(* caller's condition holds, notify_cnt_ becomes newCnt.                  *)
NotifyLocked(n, cond, newCnt) ==
  /\ nst[n] = "pre"
  /\ mx = NoHolder
  /\ notifyCnt' = IF blocked > 0 /\ cond THEN newCnt ELSE notifyCnt
  /\ nst' = [nst EXCEPT ![n] = "idle"]
  /\ UNCHANGED <<mx, blocked, wst>>

(* The count operations of notify_all, notify_one and notify_n (l.74-95). *)
AllCnt == 0
OneCnt == notifyCnt - 1
NCnt(k, lvl) == IF k < lvl THEN notifyCnt - k ELSE AllCnt

SigTypeOK ==
  /\ mx \in SigWaiters \cup {NoHolder}
  /\ blocked \in 0..Cardinality(SigWaiters)
  /\ notifyCnt \in Int
  /\ wst \in [SigWaiters -> {"out", "checked", "waiting"}]
  /\ nst \in [SigNotifiers -> {"idle", "pre"}]
=============================================================================
