----------------------------- MODULE Connector -----------------------------
(***************************************************************************)
(* connector_t::add_peer (src/src/tasks/connector.cpp) with the cleanup    *)
(* stacks it builds (destructoid_t, src/src/exceptions/destructoid.h) and  *)
(* exceptor_t's except / prepend_or_call (src/src/exceptions/exceptor.h).  *)
(*                                                                         *)
(* Every system call and every except() is a step with its outcomes; the  *)
(* descriptors and epoll registrations add_peer acquires are the set       *)
(* open, and each cleanup stack is the sequence of release operations its  *)
(* std::function will run, first element first.  A return from add_peer    *)
(* runs the destructors in scope: epoll_cleaner (inside the EINPROGRESS    *)
(* block) before cleaner.  After the hand-over the peer's disconnector_    *)
(* owns cleaner's operations; they run when drop_peer erases the peer.     *)
(***************************************************************************)
EXTENDS Integers, Sequences, SequencesExt, FiniteSets

CONSTANT
  RetryLimit    \* the i < 5 of the EAGAIN retry (connector.cpp l.103)

ASSUME RetryLimit \in Nat

(* Descriptors and registrations.  "watch" is server_sock in the scratch  *)
(* epoll of the EINPROGRESS wait; r1..r4 are server_sock / client_sock in  *)
(* the four worker epolls, in the order add_peer registers them.           *)
Regs == <<"r1", "r2", "r3", "r4">>
RegSocket == <<"client", "client", "server", "server">>
Resources == {"client", "server", "epoll", "watch"} \cup Range(Regs)

(* The operations the cleanup stacks hold. *)
Ops == {"shutCloseClient", "closeServer", "shutServer", "closeEpoll",
        "delWatch", "message"} \cup {"del" \o Regs[j] : j \in 1..4}

(* What an operation needs open, and what it releases.  close() of a       *)
(* descriptor also drops its epoll registrations (the kernel removes them *)
(* with the last reference).                                               *)
Needs(o) ==
  CASE o = "shutCloseClient" -> {"client"}
    [] o \in {"closeServer", "shutServer"} -> {"server"}
    [] o = "closeEpoll" -> {"epoll"}
    [] o = "delWatch" -> {"epoll", "server", "watch"}
    [] o = "message" -> {}
    [] OTHER -> LET n == CHOOSE j \in 1..4 : o = "del" \o Regs[j]
                IN {RegSocket[n], Regs[n]}

Frees(o) ==
  CASE o = "shutCloseClient" -> {"client"} \cup
                                {Regs[j] : j \in {n \in 1..4 : RegSocket[n] = "client"}}
    [] o = "closeServer" -> {"server", "watch"} \cup
                            {Regs[j] : j \in {n \in 1..4 : RegSocket[n] = "server"}}
    [] o = "closeEpoll" -> {"epoll", "watch"}
    [] o = "delWatch" -> {"watch"}
    [] o \in {"shutServer", "message"} -> {}
    [] OTHER -> {CHOOSE r \in Range(Regs) : o = "del" \o r}

(* except(op): TRUE, or FALSE after an exception (any std::exception, or   *)
(* a bad_alloc whose wait on the memory waiter was cancelled).             *)
Excepted == BOOLEAN

(* Running one operation: an operation whose descriptor or registration is *)
(* no longer there fails with EBADF/ENOENT, or acts on a reused descriptor. *)
Exec(s, o) ==
  [open |-> s.open \ Frees(o),
   bad  |-> IF Needs(o) \subseteq s.open THEN s.bad ELSE s.bad \cup {o}]

(* destructoid_t::act: the stored function runs its operations in order. *)
RunAll(s, seq) == FoldLeft(Exec, s, seq)

(* transfer_conveyer_t::add_peer (transfer_conveyer.h l.576-605) creates *)
(* the peer's registry entries in this order; a bad_alloc may come at any *)
(* of the three (a hash node, the list node or the lines it constructs).  *)
EntryOrder == <<"clientKey", "serverKey", "element">>
Entries == Range(EntryOrder)

(* What add_peer has inserted when its t-th insertion throws.            *)
InsertedBefore(t) == {EntryOrder[j] : j \in 1..(t - 1)}

(* Mutant: the catch block forgets the server key. *)
UndoNoServer(t) == InsertedBefore(t) \ {"serverKey"}

(* add_peer's catch(...): erase the keys this call inserted, rethrow.     *)
Undo(t) == InsertedBefore(t)

(* Mutant: destructoid_t::append's order, the new operation running last. *)
PrependAsAppend(stack, o) == stack \o <<o>>

(* destructoid_t::prepend: the new operation runs before the earlier ones. *)
Prepend(stack, o) == <<o>> \o stack

VARIABLES
  pc,        \* where add_peer is
  i,         \* the for loop's attempt index
  k,         \* the register_epoll call in progress (1..4)
  open,      \* descriptors and registrations currently held
  stacks,    \* stacks.cleaner, stacks.epoll: the operations of cleaner and
             \* of epoll_cleaner (the latter lives in the EINPROGRESS block)
  disc,      \* the peer's disconnector_ operations
  conv,      \* the peer's registry entries: its two descriptors_hash_
             \* keys and its conveyer_ element
  stop,      \* the task's stop_flag()
  ebadf      \* operations that ran on something already released

vars == <<pc, i, k, open, stacks, disc, conv, stop, ebadf>>

(* add_peer has returned: failed, or the peer since dropped. *)
Returned == {"returned", "dropped"}

NoStacks == [d \in {"cleaner", "epoll"} |-> <<>>]

(* Leaving add_peer while holding held: first the operation              *)
(* prepend_or_call ran itself (if any), then epoll_cleaner's destructor,  *)
(* then cleaner's.                                                         *)
Unwind(held, now) ==
  LET s == RunAll([open |-> held, bad |-> ebadf],
                  now \o stacks.epoll \o stacks.cleaner)
  IN /\ open' = s.open
     /\ ebadf' = s.bad
     /\ stacks' = NoStacks
     /\ pc' = "returned"

(* The end of the EINPROGRESS block: epoll_cleaner's destructor runs.     *)
EndBlock(next) ==
  LET s == RunAll([open |-> open, bad |-> ebadf], stacks.epoll)
  IN /\ open' = s.open
     /\ ebadf' = s.bad
     /\ stacks' = [stacks EXCEPT !.epoll = <<>>]
     /\ pc' = next

(* Mutant: destructoid_f without the op() call when the prepend fails. *)
PrependOrCallNoCall(held, d, o, ok, next) ==
  IF ok THEN /\ stacks' = [stacks EXCEPT ![d] = Prepend(@, o)]
             /\ open' = held
             /\ pc' = next
             /\ UNCHANGED ebadf
        ELSE Unwind(held, <<>>)

(* prepend_or_call (exceptor_t::destructoid_f) right after acquiring what  *)
(* makes open held: if except(prepend) fails the operation is called at   *)
(* once and add_peer returns.                                              *)
PrependOrCall(held, d, o, ok, next) ==
  IF ok THEN /\ stacks' = [stacks EXCEPT ![d] = Prepend(@, o)]
             /\ open' = held
             /\ pc' = next
             /\ UNCHANGED ebadf
        ELSE Unwind(held, <<o>>)

(* A step that may fail and make add_peer return (a system call returning *)
(* -1, or except() returning false), and otherwise goes on to next.       *)
StepOr(ok, next) ==
  IF ok THEN pc' = next /\ UNCHANGED <<open, stacks, ebadf>>
        ELSE Unwind(open, <<>>)

Init ==
  /\ pc = "accept"
  /\ i = 0
  /\ k = 1
  /\ open = {}
  /\ stacks = NoStacks
  /\ disc = <<>>
  /\ conv = {}
  /\ stop = FALSE
  /\ ebadf = {}

(* l.24-37: accept4; cleaner gets shutdown + close of client_sock. *)
Accept ==
  /\ pc = "accept"
  /\ \/ pc' = "returned" /\ UNCHANGED <<open, stacks, ebadf>>
     \/ \E ok \in Excepted :
          PrependOrCall(open \cup {"client"}, "cleaner", "shutCloseClient",
                        ok, "socket")
  /\ UNCHANGED <<i, k, disc, conv, stop>>

(* l.38-44: socket; cleaner gets close of server_sock. *)
Socket ==
  /\ pc = "socket"
  /\ \/ Unwind(open, <<>>)
     \/ \E ok \in Excepted :
          PrependOrCall(open \cup {"server"}, "cleaner", "closeServer",
                        ok, "connect")
  /\ UNCHANGED <<i, k, disc, conv, stop>>

(* l.45-50, 111-113: one connect attempt of the for loop. *)
Connect ==
  /\ pc = "connect"
  /\ \/ \E next \in {"shutdown",         \* 0: connected, break
                      "epollCreate",      \* EINPROGRESS
                      "backoff"} :        \* EAGAIN
          StepOr(TRUE, next)
     \/ Unwind(open, <<>>)                \* any other errno
  /\ UNCHANGED <<i, k, disc, conv, stop>>

(* l.51-59: the scratch epoll and epoll_cleaner's close of it. *)
EpollCreate ==
  /\ pc = "epollCreate"
  /\ \/ Unwind(open, <<>>)
     \/ \E ok \in Excepted :
          PrependOrCall(open \cup {"epoll"}, "epoll", "closeEpoll", ok,
                        "epollAdd")
  /\ UNCHANGED <<i, k, disc, conv, stop>>

(* l.60-71: EPOLL_CTL_ADD of server_sock for EPOLLOUT, and its DEL. *)
EpollAdd ==
  /\ pc = "epollAdd"
  /\ \/ Unwind(open, <<>>)
     \/ \E ok \in Excepted :
          PrependOrCall(open \cup {"watch"}, "epoll", "delWatch", ok,
                        "epoller")
  /\ UNCHANGED <<i, k, disc, conv, stop>>

(* l.72-78: the epoller_t<1> made under except. *)
MakeEpoller ==
  /\ pc = "epoller"
  /\ \E ok \in Excepted : StepOr(ok, "wait")
  /\ UNCHANGED <<i, k, disc, conv, stop>>
(* l.79-86: while((res = epoll) == 0) if(stop_flag()) return;  A timeout *)
(* with stop_flag() unset leaves the state as it is.                       *)
Wait ==
  /\ pc = "wait"
  /\ \/ stop /\ Unwind(open, <<>>)       \* timeout, stop_flag() set
     \/ StepOr(TRUE, "sockopt")          \* server_sock writable
     \/ Unwind(open, <<>>)               \* epoll_wait failed
  /\ UNCHANGED <<i, k, disc, conv, stop>>

(* l.88-100: SO_ERROR; leaving the EINPROGRESS block on 0 and EAGAIN runs *)
(* epoll_cleaner before the code after it.                                *)
SockOpt ==
  /\ pc = "sockopt"
  /\ \/ Unwind(open, <<>>)               \* getsockopt failed
     \/ EndBlock("shutdown")             \* error 0: break
     \/ EndBlock("backoff")              \* EAGAIN: falls to l.101
     \/ Unwind(open, <<>>)               \* any other error
  /\ UNCHANGED <<i, k, disc, conv, stop>>

(* Mutant: retrying while i <= 5. *)
BackoffRetryInclusive ==
  /\ pc = "backoff"
  /\ IF i <= RetryLimit
       THEN IF stop THEN Unwind(open, <<>>) /\ UNCHANGED i
                    ELSE /\ i' = i + 1
                         /\ StepOr(TRUE, "connect")
       ELSE Unwind(open, <<>>) /\ UNCHANGED i
  /\ UNCHANGED <<k, disc, conv, stop>>

(* Mutant: the retry does not advance the attempt index. *)
BackoffNoCount ==
  /\ pc = "backoff"
  /\ IF i < RetryLimit
       THEN IF stop THEN Unwind(open, <<>>) /\ UNCHANGED i
                    ELSE /\ i' = i
                         /\ StepOr(TRUE, "connect")
       ELSE Unwind(open, <<>>) /\ UNCHANGED i
  /\ UNCHANGED <<k, disc, conv, stop>>

(* l.101-111: EAGAIN: sleep max_response and retry while i < 5. *)
Backoff ==
  /\ pc = "backoff"
  /\ IF i < RetryLimit
       THEN IF stop THEN Unwind(open, <<>>) /\ UNCHANGED i
                    ELSE /\ i' = i + 1
                         /\ StepOr(TRUE, "connect")
       ELSE Unwind(open, <<>>) /\ UNCHANGED i
  /\ UNCHANGED <<k, disc, conv, stop>>

(* l.115-118: cleaner gets shutdown of server_sock. *)
Shutdown ==
  /\ pc = "shutdown"
  /\ \E ok \in Excepted :
       PrependOrCall(open, "cleaner", "shutServer", ok, "peer")
  /\ UNCHANGED <<i, k, disc, conv, stop>>

(* l.119-127: the connected_peer_t and client_name, each under except.  A *)
(* peer destroyed on return closes nothing (~peer_t is empty).            *)
MakePeer ==
  /\ pc = "peer"
  /\ \E ok \in Excepted : StepOr(ok, "conveyor")
  /\ UNCHANGED <<i, k, disc, conv, stop>>

(* l.129-131: except(conveyer_->add_peer(...)).  add_peer runs under the *)
(* exclusive registry lock, so it is one step: it inserts every entry, or *)
(* the t-th insertion throws, the catch undoes what this call inserted    *)
(* and rethrows (the peer is moved only by the last member initialiser,   *)
(* so it is intact).  except() then retries the whole call after its      *)
(* memory wait, or returns false and add_peer unwinds.                    *)
AddToConveyor ==
  /\ pc = "conveyor"
  /\ \/ /\ conv' = Entries
        /\ pc' = "register"
        /\ UNCHANGED <<open, stacks, ebadf>>
     \/ \E t \in 1..Len(EntryOrder) :
          /\ conv' = conv \cup (InsertedBefore(t) \ Undo(t))
          /\ \/ UNCHANGED <<pc, open, stacks, ebadf>>  \* bad_alloc, wait true: retry
             \/ Unwind(open, <<>>)                    \* except() returns false
  /\ UNCHANGED <<i, k, disc, stop>>

(* l.132-150: register_epoll(k); its result is ignored.  EPOLL_CTL_ADD    *)
(* may fail (ENOMEM, ENOSPC at max_user_watches); if the DEL cannot be    *)
(* prepended, prepend_or_call runs it at once.                             *)
Register ==
  /\ pc = "register"
  /\ LET r == Regs[k]
         del == "del" \o r
     IN \/ UNCHANGED <<open, stacks, ebadf>>                  \* ADD failed
        \/ /\ open' = open \cup {r}                           \* registered
           /\ stacks' = [stacks EXCEPT !.cleaner = Prepend(@, del)]
           /\ UNCHANGED ebadf
        \/ LET s == Exec([open |-> open \cup {r}, bad |-> ebadf], del)
           IN /\ open' = s.open                               \* DEL called
              /\ ebadf' = s.bad
              /\ UNCHANGED stacks
  /\ k' = IF k < Len(Regs) THEN k + 1 ELSE 1
  /\ pc' = IF k < Len(Regs) THEN "register" ELSE "handover"
  /\ UNCHANGED <<i, disc, conv, stop>>

(* l.151-155: the disconnect message (prepended if except allows), then  *)
(* peer_disconnector->swap(cleaner); cleaner, now empty, dies at return. *)
Handover ==
  /\ pc = "handover"
  /\ \E ok \in Excepted :
       LET c == IF ok THEN Prepend(stacks.cleaner, "message")
                      ELSE stacks.cleaner
       IN /\ disc' = c
          /\ stacks' = [stacks EXCEPT !.cleaner = disc]
  /\ pc' = "done"
  /\ UNCHANGED <<i, k, open, conv, stop, ebadf>>

(* drop_peer erases the peer from conveyer_; ~connected_peer_t runs      *)
(* disconnector_.                                                         *)
Drop ==
  /\ pc = "done"
  /\ LET s == RunAll([open |-> open, bad |-> ebadf], disc)
     IN /\ open' = s.open
        /\ ebadf' = s.bad
  /\ disc' = <<>>
  /\ conv' = {}
  /\ pc' = "dropped"
  /\ UNCHANGED <<i, k, stacks, stop>>

(* connector_t::one_step: the next readiness of the listening socket      *)
(* calls add_peer again, until the task is stopped.                        *)
NextClient ==
  /\ pc \in Returned
  /\ ~stop
  /\ pc' = "accept"
  /\ i' = 0
  /\ UNCHANGED <<k, open, stacks, disc, conv, stop, ebadf>>

(* task_t::stop: another thread sets the stop flag. *)
SetStop ==
  /\ ~stop
  /\ stop' = TRUE
  /\ UNCHANGED <<pc, i, k, open, stacks, disc, conv, ebadf>>

AddPeerStep ==
  \/ Accept \/ Socket \/ Connect \/ EpollCreate \/ EpollAdd \/ MakeEpoller
  \/ Wait \/ SockOpt \/ Backoff \/ Shutdown \/ MakePeer \/ AddToConveyor
  \/ Register \/ Handover

Next == AddPeerStep \/ Drop \/ NextClient \/ SetStop

(* add_peer runs on its own thread and is never starved; its epoll wait   *)
(* ends because the kernel completes or fails a pending connect (TCP's    *)
(* SYN retries are bounded).                                               *)
Spec == Init /\ [][Next]_vars /\ WF_vars(AddPeerStep)

-----------------------------------------------------------------------------
TypeOK ==
  /\ pc \in {"accept", "socket", "connect", "epollCreate", "epollAdd",
             "epoller", "wait", "sockopt", "backoff", "shutdown", "peer",
             "conveyor", "register", "handover", "done"} \cup Returned
  /\ i \in 0..RetryLimit
  /\ k \in 1..Len(Regs)
  /\ open \subseteq Resources
  /\ stacks \in [{"cleaner", "epoll"} -> Seq(Ops)]
  /\ disc \in Seq(Ops)
  /\ conv \subseteq Entries
  /\ stop \in BOOLEAN
  /\ ebadf \subseteq Ops

(* No cleanup operation of cleaner, epoll_cleaner, prepend_or_call or the *)
(* disconnector acts on a descriptor or registration already released: no *)
(* double close, no shutdown or EPOLL_CTL_DEL after close (with other     *)
(* threads opening descriptors, a stale number is someone else's).       *)
NoStaleRelease == ebadf = {}

(* Every path out of add_peer releases everything it acquired, except    *)
(* when the peer is in the conveyor: then its sockets are open and every *)
(* remaining descriptor and registration is released by the peer's      *)
(* disconnector, which drop_peer runs.                                   *)
ReleasedOrOwned ==
  /\ pc \in Returned => open = {} /\ conv = {}
  /\ pc = "done" =>
       /\ conv = Entries
       /\ {"client", "server"} \subseteq open
       /\ open \subseteq UNION {Frees(disc[j]) : j \in DOMAIN disc}

(* add_peer's rollback: the descriptors hash has a peer's keys exactly    *)
(* while conveyer_ has the peer, whatever allocation failed, however many *)
(* times except() retried and whether it finally gave up: a key left      *)
(* behind maps a descriptor to conveyer_.end() for the workers' find.     *)
RegistryWhole == conv \in {{}, Entries}

(* Every add_peer call returns: the connect retries are bounded. *)
AddPeerReturns == pc = "accept" ~> pc \in Returned \cup {"done"}

(* Spec: "On success it ... installs ... readiness for the two sockets in *)
(* each of the four I/O-multiplex fds ... On any error all partial       *)
(* resources are released": a peer handed to the conveyor has all four   *)
(* registrations.                                                         *)
PeerFullyWired == pc = "done" => Range(Regs) \subseteq open
====
