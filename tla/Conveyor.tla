------------------------------ MODULE Conveyor ------------------------------
(***************************************************************************)
(* The transfer conveyor's locking protocol (src/src/transfer_conveyer.h)  *)
(* with the workers that use it (src/src/tasks/receiver.h, sender.h,       *)
(* logger.h), the connector's add_peer and the supervisor's drop_peers     *)
(* (src/src/tasks/superviser.h).                                           *)
(*                                                                         *)
(* Every peer has two lines (client: bytes from the client, server: bytes  *)
(* from the server) with three slots each: 0 the writer (receivers), 1     *)
(* lane 0 (senders and the senders helper), 2 lane 1 (loggers).  A slot   *)
(* is an atomic_flag test-and-set lock plus a transfer flag.  The registry *)
(* is a shared_mutex (glibc rwlock, readers preferred): per-line lookups   *)
(* take it shared, add_peer and drop_peer exclusive.                       *)
(*                                                                         *)
(* Buffer contents are abstracted away (module Buffer models them); a      *)
(* worker's operation is represented by the transfer flag it can leave.    *)
(***************************************************************************)
EXTENDS Integers, Sequences, FiniteSets

CONSTANTS
  Peers,        \* peers the connector accepts in a behaviour, in order
  Receivers,    \* receiver tasks: [side]
  Senders,      \* sender tasks (lane 0)
  Loggers,      \* logger tasks (lane 1)
  Helpers,      \* senders helper tasks (lane 0 flag clearing)
  Side,         \* Side[w]: the side ("client" or "server") task w serves
  PeerOrder,    \* the sequence in which the connector accepts Peers
  Nil

Sides == {"client", "server"}
Slots == {0, 1, 2}
Workers == Receivers \cup Senders \cup Loggers \cup Helpers
Supervisor == "supervisor"
Free == "free"

(* transfer_flags *)
OperationalError == -3
DescriptorError == -2
DescriptorShutdown == -1
NoTransferFlag == 0
DataPending == 1
Flags == {OperationalError, DescriptorError, DescriptorShutdown,
          NoTransferFlag, DataPending}

ASSUME /\ Side \in [Workers -> Sides]
       /\ PeerOrder \in Seq(Peers)
       /\ Supervisor \notin Workers /\ Free \notin Workers

VARIABLES
  conveyer,   \* conveyer_ list: live peers in insertion order
  accepted,   \* how many peers of PeerOrder the connector has added
  lock,       \* lock[p][s][i]: the owner of slot i of p's line s, or Free
  flag,       \* flag[p][s][i]: the slot's transfer flag
  armed,      \* armed[p][s]: the EPOLLONESHOT read readiness of p's s socket
  registered, \* registered[p]: the epolls p's sockets have been added to
  creg,       \* the connector's add_peer: 0 idle, i registering EpollOrder[i],
              \* Len(EpollOrder) + 1 about to hand the cleanup to the peer
  shared,     \* tasks holding conveyer_mutex_ shared across steps
  exclusive,  \* the holder of conveyer_mutex_ exclusive, or Nil
  pc,         \* pc[w]: where worker w is
  target,     \* target[w]: the peer whose line w works on
  spc,        \* the supervisor's place in drop_peers
  sPos,       \* drop_peers' iterator, an index into conveyer
  sSlot       \* get_locks: index into DropOrder of the next slot to take

vars == <<conveyer, accepted, lock, flag, armed, registered, creg, shared,
          exclusive, pc, target, spc, sPos, sSlot>>
cvars == <<accepted, registered, creg>>

Live == {conveyer[i] : i \in 1..Len(conveyer)}

(* The slot a worker role uses on its line. *)
SlotOf(w) == IF w \in Receivers THEN 0 ELSE IF w \in Loggers THEN 2 ELSE 1

Dead(f) == f \in {DescriptorShutdown, DescriptorError, OperationalError}

(* The registry can be taken shared: no exclusive owner (readers preferred). *)
SharedFree == exclusive = Nil

(* Mutant (see PROJECT.json): a release that forgets the slot's owner is *)
(* cleared and records the null task pointer as the holder.              *)
SetLockNullOwner(p, s, i, v) ==
  [lock EXCEPT ![p][s][i] = IF v = Free THEN Nil ELSE v]

SetLock(p, s, i, v) == [lock EXCEPT ![p][s][i] = v]

(***************************************************************************)
(* Mutants (see PROJECT.json): get_locks taking only the writer slot of    *)
(* each line; the senders helper clearing the lane flag whatever it is.    *)
(***************************************************************************)
DropOrderWriterOnly ==
  <<<<"client", 0>>, <<"server", 0>>>>

FlagClearedAny(f) == NoTransferFlag

(***************************************************************************)
(* drop_peer: get_locks(client line) then get_locks(server line), each     *)
(* over idx 0 .. index_count()-1.                                          *)
(***************************************************************************)
DropOrder ==
  <<<<"client", 0>>, <<"client", 1>>, <<"client", 2>>,
    <<"server", 0>>, <<"server", 1>>, <<"server", 2>>>>

(* connector.cpp: the register_epoll calls, in order. *)
EpollOrder ==
  <<<<"client", "receivers">>, <<"client", "senders">>,
    <<"server", "receivers">>, <<"server", "senders">>>>

(* The senders helper's flag_f: clear data_pending, leave anything else. *)
FlagCleared(f) == IF f = DataPending THEN NoTransferFlag ELSE f

-----------------------------------------------------------------------------
(***************************************************************************)
(* connector_t::add_peer after a successful connect: the peer is appended *)
(* to the registry under the exclusive lock, then its sockets are added   *)
(* to the four epolls one after the other (client receivers, client       *)
(* senders, server receivers, server senders; the receivers' as           *)
(* EPOLLIN | EPOLLET | EPOLLONESHOT, armed), and finally the cleanup stack *)
(* is swapped into the peer's disconnector_ through the raw pointer taken *)
(* before the peer was moved into the conveyer.                           *)
(***************************************************************************)
AddPeer ==
  /\ creg = 0
  /\ accepted < Len(PeerOrder)
  /\ exclusive = Nil /\ shared = {}
  /\ conveyer' = Append(conveyer, PeerOrder[accepted + 1])
  /\ accepted' = accepted + 1
  /\ creg' = 1
  /\ UNCHANGED <<lock, flag, armed, registered, shared, exclusive, pc, target,
                 spc, sPos, sSlot>>

(* register_epoll(epolls, socket, events), whose result is ignored. *)
Register ==
  /\ creg \in 1..Len(EpollOrder)
  /\ LET p == PeerOrder[accepted]
         e == EpollOrder[creg]
     IN /\ registered' = [registered EXCEPT ![p] = @ \cup {e}]
        /\ armed' = IF e[2] = "receivers"
                      THEN [armed EXCEPT ![p][e[1]] = TRUE] ELSE armed
  /\ creg' = creg + 1
  /\ UNCHANGED <<conveyer, accepted, lock, flag, shared, exclusive, pc,
                 target, spc, sPos, sSlot>>

(* peer_disconnector->swap(cleaner) *)
Handover ==
  /\ creg = Len(EpollOrder) + 1
  /\ creg' = 0
  /\ UNCHANGED <<conveyer, accepted, lock, flag, armed, registered, shared,
                 exclusive, pc, target, spc, sPos, sSlot>>

(***************************************************************************)
(* iterate/find_handler: under a shared lock, find a live line whose slot  *)
(* flag satisfies the caller's predicate and try-lock its slot without     *)
(* forcing.  Receivers sweep data_pending lines (receiver_t::one_step);    *)
(* senders and loggers read lines whose flag is no_transfer_flag          *)
(* (read_if).  A sender that finds data calls other_side() from take_f;    *)
(* a logger hands the data to its parser.                                  *)
(***************************************************************************)
Find(w, p) ==
  /\ pc[w] = "idle"
  /\ w \in Receivers \cup Senders \cup Loggers
  /\ SharedFree
  /\ p \in Live
  /\ lock[p][Side[w]][SlotOf(w)] = Free
  /\ flag[p][Side[w]][SlotOf(w)] =
       IF w \in Receivers THEN DataPending ELSE NoTransferFlag
  /\ w \notin Receivers => <<Side[w], "receivers">> \in registered[p]
  /\ lock' = SetLock(p, Side[w], SlotOf(w), w)
  /\ pc' = [pc EXCEPT ![w] = IF w \in Senders THEN "other_side" ELSE "hold"]
  /\ target' = [target EXCEPT ![w] = p]
  /\ UNCHANGED <<conveyer, cvars, flag, armed, shared, exclusive, spc,
                 sPos, sSlot>>

(***************************************************************************)
(* The single-descriptor paths: a receiver's epoll event on a socket       *)
(* (write(task, fd): the one-shot readiness is consumed) and the senders   *)
(* helper's EPOLLOUT edge (flag(task, fd, lane 0)).  write_handle /        *)
(* read_handle look the line up and force the slot lock, spinning while    *)
(* they hold the registry shared.                                          *)
(***************************************************************************)
EpollEvent(w, p) ==
  /\ pc[w] = "idle"
  /\ w \in Receivers \cup Helpers
  /\ SharedFree
  /\ p \in Live
  /\ w \in Receivers => armed[p][Side[w]]
  /\ w \in Helpers => <<Side[w], "senders">> \in registered[p]
  /\ armed' = IF w \in Receivers
                THEN [armed EXCEPT ![p][Side[w]] = FALSE] ELSE armed
  /\ shared' = shared \cup {w}
  /\ pc' = [pc EXCEPT ![w] = "spin"]
  /\ target' = [target EXCEPT ![w] = p]
  /\ UNCHANGED <<conveyer, cvars, lock, flag, exclusive, spc, sPos, sSlot>>

(* acquire_buffer_lock(force = true) succeeds; the shared lock is released *)
(* when write_handle/read_handle return.                                   *)
SpinAcquire(w) ==
  /\ pc[w] = "spin"
  /\ lock[target[w]][Side[w]][SlotOf(w)] = Free
  /\ lock' = SetLock(target[w], Side[w], SlotOf(w), w)
  /\ shared' = shared \ {w}
  /\ pc' = [pc EXCEPT ![w] = "hold"]
  /\ UNCHANGED <<conveyer, cvars, flag, armed, exclusive, target, spc,
                 sPos, sSlot>>

(* Releasing the handle: the flag is stored, then the slot lock cleared. *)
Finish(w, f) ==
  /\ flag' = [flag EXCEPT ![target[w]][Side[w]][SlotOf(w)] = f]
  /\ lock' = SetLock(target[w], Side[w], SlotOf(w), Free)
  /\ pc' = [pc EXCEPT ![w] = "idle"]
  /\ target' = [target EXCEPT ![w] = Nil]

(***************************************************************************)
(* write_operation with receiver_t::receive as get_f.  The flag left is    *)
(* the last get_f result: data_pending after one_time_max bytes,           *)
(* no_transfer_flag on EAGAIN (the socket is re-armed first),              *)
(* descriptor_shutdown on EOF, descriptor_error on a read or re-arm        *)
(* failure, operational_error when a page cannot be had.                   *)
(***************************************************************************)
WriteDone(w) ==
  /\ pc[w] = "hold" /\ w \in Receivers
  /\ \E f \in Flags :
       /\ Finish(w, f)
       /\ armed' = IF f = NoTransferFlag
                     THEN [armed EXCEPT ![target[w]][Side[w]] = TRUE]
                     ELSE armed
  /\ UNCHANGED <<conveyer, cvars, shared, exclusive, spc, sPos, sSlot>>

(* sender_t::read_data: other_side() takes the registry shared. *)
OtherSide(w) ==
  /\ pc[w] = "other_side"
  /\ SharedFree
  /\ pc' = [pc EXCEPT ![w] = "send"]
  /\ UNCHANGED <<conveyer, cvars, lock, flag, armed, shared, exclusive,
                 target, spc, sPos, sSlot>>

(***************************************************************************)
(* The send loop ends with everything sent (the flag stays                 *)
(* no_transfer_flag), EAGAIN (data_pending: wait for the helper),          *)
(* send returning 0 (descriptor_shutdown) or an error (descriptor_error).  *)
(***************************************************************************)
SendDone(w) ==
  /\ pc[w] = "send"
  /\ \E f \in {NoTransferFlag, DataPending, DescriptorShutdown,
               DescriptorError} : Finish(w, f)
  /\ UNCHANGED <<conveyer, cvars, armed, shared, exclusive, spc, sPos,
                 sSlot>>

(* logger_t / psql_logger_t::read_data consume everything; the flag is   *)
(* stored back unchanged.                                                *)
LogDone(w) ==
  /\ pc[w] = "hold" /\ w \in Loggers
  /\ Finish(w, flag[target[w]][Side[w]][SlotOf(w)])
  /\ UNCHANGED <<conveyer, cvars, armed, shared, exclusive, spc, sPos,
                 sSlot>>

(* flag_handle with the helper's flag_f. *)
HelperDone(w) ==
  /\ pc[w] = "hold" /\ w \in Helpers
  /\ Finish(w, FlagCleared(flag[target[w]][Side[w]][SlotOf(w)]))
  /\ UNCHANGED <<conveyer, cvars, armed, shared, exclusive, spc, sPos,
                 sSlot>>

-----------------------------------------------------------------------------
(***************************************************************************)
(* superviser_t::one_step -> drop_peers.  A tick takes the registry        *)
(* shared and walks the list; a peer with a dead flag on any slot of       *)
(* either line is dropped: shared is released, exclusive taken,            *)
(* drop_peer called, exclusive released and shared taken again, and the    *)
(* walk resumes at the iterator drop_peer returned.                        *)
(***************************************************************************)
TickStart ==
  /\ spc = "rest"
  /\ SharedFree
  /\ spc' = "scan" /\ sPos' = 1
  /\ shared' = shared \cup {Supervisor}
  /\ UNCHANGED <<conveyer, cvars, lock, flag, armed, exclusive, pc,
                 target, sSlot>>

ScanPeer ==
  /\ spc = "scan"
  /\ IF sPos > Len(conveyer)
       THEN /\ spc' = "rest"
            /\ shared' = shared \ {Supervisor}
            /\ UNCHANGED sPos
       ELSE LET p == conveyer[sPos] IN
            IF \E s \in Sides, i \in Slots : Dead(flag[p][s][i])
              THEN /\ spc' = "upgrade"
                   /\ shared' = shared \ {Supervisor}
                   /\ UNCHANGED sPos
              ELSE /\ sPos' = sPos + 1
                   /\ UNCHANGED <<spc, shared>>
  /\ UNCHANGED <<conveyer, cvars, lock, flag, armed, exclusive, pc,
                 target, sSlot>>

Upgrade ==
  /\ spc = "upgrade"
  /\ exclusive = Nil /\ shared = {}
  /\ exclusive' = Supervisor
  /\ spc' = "locks" /\ sSlot' = 1
  /\ UNCHANGED <<conveyer, cvars, lock, flag, armed, shared, pc, target,
                 sPos>>

(* get_locks: acquire_buffer_lock(nullptr, idx) succeeds on a free slot; *)
(* after the last slot the peer is unhashed, clear_f runs and the loop    *)
(* is erased.                                                             *)
TakeSlot ==
  /\ spc = "locks"
  /\ LET p == conveyer[sPos]
         s == DropOrder[sSlot][1]
         i == DropOrder[sSlot][2]
     IN /\ lock[p][s][i] = Free
        /\ IF sSlot = Len(DropOrder)
             THEN /\ conveyer' = [j \in 1..(Len(conveyer) - 1) |->
                                    IF j < sPos THEN conveyer[j]
                                                ELSE conveyer[j + 1]]
                  /\ lock' = [lock EXCEPT ![p] = [t \in Sides |->
                                                   [k \in Slots |-> Free]]]
                  /\ exclusive' = Nil
                  /\ spc' = "relock"
                  /\ UNCHANGED sSlot
             ELSE /\ lock' = SetLock(p, s, i, Supervisor)
                  /\ sSlot' = sSlot + 1
                  /\ UNCHANGED <<conveyer, exclusive, spc>>
  /\ UNCHANGED <<cvars, flag, armed, shared, pc, target, sPos>>

(***************************************************************************)
(* The slot stays taken for desperate_delay (10 x max_response): get_locks *)
(* gives up and drop_peer returns the same iterator, leaving the locks it  *)
(* took as they are.  The wait runs out only when the holder cannot        *)
(* finish while the supervisor holds the registry exclusive: a sender      *)
(* blocked in other_side(), or a slot the supervisor took itself in an     *)
(* earlier attempt.                                                        *)
(***************************************************************************)
GiveUp ==
  /\ spc = "locks"
  /\ LET owner == lock[conveyer[sPos]][DropOrder[sSlot][1]][DropOrder[sSlot][2]]
     IN \/ owner = Supervisor
        \/ owner \in Workers /\ pc[owner] = "other_side"
  /\ exclusive' = Nil
  /\ spc' = "relock"
  /\ UNCHANGED <<conveyer, cvars, lock, flag, armed, shared, pc, target,
                 sPos, sSlot>>

Relock ==
  /\ spc = "relock"
  /\ SharedFree
  /\ spc' = "scan"
  /\ shared' = shared \cup {Supervisor}
  /\ UNCHANGED <<conveyer, cvars, lock, flag, armed, exclusive, pc,
                 target, sPos, sSlot>>

-----------------------------------------------------------------------------
Init ==
  /\ conveyer = <<>>
  /\ accepted = 0
  /\ lock = [p \in Peers |-> [s \in Sides |-> [i \in Slots |-> Free]]]
  /\ flag = [p \in Peers |-> [s \in Sides |-> [i \in Slots |-> NoTransferFlag]]]
  /\ armed = [p \in Peers |-> [s \in Sides |-> FALSE]]
  /\ registered = [p \in Peers |-> {}]
  /\ creg = 0
  /\ shared = {}
  /\ exclusive = Nil
  /\ pc = [w \in Workers |-> "idle"]
  /\ target = [w \in Workers |-> Nil]
  /\ spc = "rest"
  /\ sPos = 1
  /\ sSlot = 1

Next ==
  \/ AddPeer \/ Register \/ Handover
  \/ \E w \in Workers, p \in Peers : Find(w, p) \/ EpollEvent(w, p)
  \/ \E w \in Workers :
       \/ SpinAcquire(w) \/ WriteDone(w) \/ OtherSide(w) \/ SendDone(w)
       \/ LogDone(w) \/ HelperDone(w)
  \/ TickStart \/ ScanPeer \/ Upgrade \/ TakeSlot \/ GiveUp \/ Relock

Spec == Init /\ [][Next]_vars

-----------------------------------------------------------------------------
TypeOK ==
  /\ conveyer \in Seq(Peers)
  /\ accepted \in 0..Len(PeerOrder)
  /\ lock \in [Peers -> [Sides -> [Slots -> Workers \cup {Supervisor, Free}]]]
  /\ flag \in [Peers -> [Sides -> [Slots -> Flags]]]
  /\ armed \in [Peers -> [Sides -> BOOLEAN]]
  /\ registered \in [Peers -> SUBSET (Sides \X {"receivers", "senders"})]
  /\ creg \in 0..(Len(EpollOrder) + 1)
  /\ shared \subseteq Workers \cup {Supervisor}
  /\ exclusive \in {Supervisor, Nil}
  /\ pc \in [Workers -> {"idle", "spin", "hold", "other_side", "send"}]
  /\ target \in [Workers -> Peers \cup {Nil}]
  /\ spc \in {"rest", "scan", "upgrade", "locks", "relock"}
  /\ sPos \in 1..(Len(PeerOrder) + 1)
  /\ sSlot \in 1..Len(DropOrder)

(***************************************************************************)
(* Drop serialization: no task is ever inside a handle, or spinning for    *)
(* one, on a peer that drop_peer has erased (the loop, its lines and its   *)
(* locks are destroyed by conveyer_.erase).                                *)
(***************************************************************************)
NoUseAfterDrop ==
  \A w \in Workers : pc[w] # "idle" => target[w] \in Live

(***************************************************************************)
(* A dead transfer flag (shutdown or error) is what makes the supervisor   *)
(* drop a peer: once set on a live line it is never overwritten until the  *)
(* peer is dropped, whatever receivers, senders, loggers and the senders   *)
(* helper do meanwhile.                                                    *)
(***************************************************************************)
DeadFlagsStick ==
  [][\A p \in Live, s \in Sides, i \in Slots :
        Dead(flag[p][s][i]) /\ p \in Live' => flag'[p][s][i] = flag[p][s][i]
    ]_vars

(***************************************************************************)
(* Every slot lock the supervisor holds belongs to the drop_peer call in   *)
(* progress: once drop_peer returns, it holds none (spec 4.4: if any slot  *)
(* cannot be acquired the drop is aborted and the peer remains).           *)
(***************************************************************************)
NoOrphanedSlotLock ==
  \A p \in Live, s \in Sides, i \in Slots :
     lock[p][s][i] = Supervisor => spc = "locks"
=============================================================================
