----------------------------- MODULE SenderFlow -----------------------------
(***************************************************************************)
(* Back-pressure on the send path of one peer (src/src/tasks/sender.h,     *)
(* src/src/tasks/connector.cpp, transfer_conveyer_t::flag).               *)
(*                                                                         *)
(* sender_t<S> reads lane 0 of line S (bytes that arrived on socket S) and *)
(* writes them to the other socket.  When send() says EAGAIN it leaves the *)
(* lane flagged data_pending and stops taking that line.  The senders      *)
(* helper of side T owns the epoll in which the connector registered       *)
(* socket T with EPOLLOUT | EPOLLET; on an edge it calls                   *)
(* conveyer->flag(sock, lane 0), which clears data_pending on the line     *)
(* line(sock) looks up: line T.                                            *)
(*                                                                         *)
(* Sockets are abstracted to free send space; the remote ends drain them.  *)
(* An EPOLLOUT edge is raised when space is freed on a socket whose last   *)
(* send failed with EAGAIN (SOCK_NOSPACE), and once on registration.       *)
(***************************************************************************)
EXTENDS Integers

CONSTANTS
  MaxData,   \* bytes the receivers put on each line in a behaviour
  SockBuf    \* send buffer of a socket, in bytes

Sides == {"client", "server"}
Opposite(s) == IF s = "client" THEN "server" ELSE "client"

NoTransferFlag == 0
DataPending == 1

VARIABLES
  produced,  \* produced[s]: bytes committed to line s by its receivers
  unsent,    \* unsent[s]: bytes on lane 0 of line s not yet sent
  flag,      \* flag[s]: the transfer flag of lane 0 of line s
  spc,       \* spc[s]: sender_t<s>: "idle", or "hold" with the slot lock
  space,     \* space[t]: free space in socket t's send buffer
  nospace,   \* nospace[t]: the last send on socket t returned EAGAIN
  edge       \* edge[t]: an EPOLLOUT edge of socket t is waiting in its epoll

vars == <<produced, unsent, flag, spc, space, nospace, edge>>

Min2(a, b) == IF a < b THEN a ELSE b

(* senders_helper_t::one_step flag_f: data_pending becomes no_transfer_flag. *)
HelperFlag(f) == IF f = DataPending THEN NoTransferFlag ELSE f

(* sender_t::read_data, EAGAIN branch: *transfer_flag = data_pending. *)
EagainFlag == DataPending

(* A receiver commits bytes read from socket s to line s. *)
Receive(s) ==
  /\ produced[s] < MaxData
  /\ produced' = [produced EXCEPT ![s] = @ + 1]
  /\ unsent' = [unsent EXCEPT ![s] = @ + 1]
  /\ UNCHANGED <<flag, spc, space, nospace, edge>>

(* reader_t::one_step -> conveyer read<S>: find a line whose lane 0 flag   *)
(* is no_transfer_flag (read_if) and take its slot.                        *)
Take(s) ==
  /\ spc[s] = "idle"
  /\ flag[s] = NoTransferFlag
  /\ unsent[s] > 0
  /\ spc' = [spc EXCEPT ![s] = "hold"]
  /\ UNCHANGED <<produced, unsent, flag, space, nospace, edge>>

(***************************************************************************)
(* read_operation / read_data: send the lane's bytes to the other socket   *)
(* until they are all sent or send() returns EAGAIN; the flag is stored    *)
(* and the slot released when read_operation returns.                      *)
(***************************************************************************)
Send(s) ==
  /\ spc[s] = "hold"
  /\ LET t == Opposite(s)
         n == Min2(unsent[s], space[t])
     IN /\ unsent' = [unsent EXCEPT ![s] = @ - n]
        /\ space' = [space EXCEPT ![t] = @ - n]
        /\ IF n < unsent[s]
             THEN /\ flag' = [flag EXCEPT ![s] = EagainFlag]
                  /\ nospace' = [nospace EXCEPT ![t] = TRUE]
             ELSE UNCHANGED <<flag, nospace>>
  /\ spc' = [spc EXCEPT ![s] = "idle"]
  /\ UNCHANGED <<produced, edge>>

(* The remote end reads from socket t; tcp_check_space raises EPOLLOUT   *)
(* when the socket had run out of space.                                 *)
Drain(t) ==
  /\ space[t] < SockBuf
  /\ space' = [space EXCEPT ![t] = SockBuf]
  /\ edge' = [edge EXCEPT ![t] = edge[t] \/ nospace[t]]
  /\ nospace' = [nospace EXCEPT ![t] = FALSE]
  /\ UNCHANGED <<produced, unsent, flag, spc>>

(* senders_helper_t<T>::one_step: the edge for socket T clears            *)
(* data_pending on line(T) once the slot lock is free (forced lock).      *)
HelperLine(t) == t

HelperEvent(t) ==
  /\ edge[t]
  /\ spc[HelperLine(t)] = "idle"
  /\ flag' = [flag EXCEPT ![HelperLine(t)] = HelperFlag(@)]
  /\ edge' = [edge EXCEPT ![t] = FALSE]
  /\ UNCHANGED <<produced, unsent, spc, space, nospace>>

(* The workers never stop: with nothing to do, epoll_wait and the data    *)
(* signal's wait time out after max_response and the step is repeated.   *)
Poll == UNCHANGED vars

Init ==
  /\ produced = [s \in Sides |-> 0]
  /\ unsent = [s \in Sides |-> 0]
  /\ flag = [s \in Sides |-> NoTransferFlag]
  /\ spc = [s \in Sides |-> "idle"]
  /\ space = [t \in Sides |-> SockBuf]
  /\ nospace = [t \in Sides |-> FALSE]
  /\ edge = [t \in Sides |-> TRUE]

Next ==
  \/ \E s \in Sides :
       Receive(s) \/ Take(s) \/ Send(s) \/ Drain(s) \/ HelperEvent(s)
  \/ Poll

(* Threads are scheduled by the OS and poll with a timeout; the remote    *)
(* ends keep reading their sockets.                                       *)
Fairness ==
  \A s \in Sides : /\ WF_vars(Take(s)) /\ WF_vars(Send(s))
                   /\ WF_vars(Drain(s)) /\ WF_vars(HelperEvent(s))

Spec == Init /\ [][Next]_vars /\ Fairness

TypeOK ==
  /\ produced \in [Sides -> 0..MaxData]
  /\ unsent \in [Sides -> 0..MaxData]
  /\ flag \in [Sides -> {NoTransferFlag, DataPending}]
  /\ spc \in [Sides -> {"idle", "hold"}]
  /\ space \in [Sides -> 0..SockBuf]
  /\ nospace \in [Sides -> BOOLEAN]
  /\ edge \in [Sides -> BOOLEAN]

(***************************************************************************)
(* Every byte a receiver put on a line is eventually sent to the other     *)
(* socket (spec 4.6: the senders helper clears data_pending when the       *)
(* write fd becomes ready again).                                          *)
(***************************************************************************)
AllForwarded ==
  \A s \in Sides : (unsent[s] > 0) ~> (unsent[s] = 0)
=============================================================================
