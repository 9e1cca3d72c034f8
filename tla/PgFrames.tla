------------------------------ MODULE PgFrames ------------------------------
(***************************************************************************)
(* The client-side logger's PostgreSQL frontend-message decoder            *)
(* (protocol_message_t, src/src/postgre_msg.cpp), fed chunk by chunk by    *)
(* psql_logger_t::read_data (src/src/tasks/psql_logger.h l.26-35).        *)
(*                                                                         *)
(* add_data is a state machine over the chunks of one descriptor: the type *)
(* byte (absent, i.e. 0, for typeless messages), four length bytes, then   *)
(* the payload, which is either collected in data_ until complete or, for  *)
(* CopyData / password messages and beyond max_data_size, not kept.        *)
(* process then reads the payload from data_ and the current chunk, logs   *)
(* one record, and hands the rest of the chunk back to add_data.           *)
(*                                                                         *)
(* Bytes are naturals.  The field-by-field parsing of a payload (c_str,    *)
(* params_pack) is abstracted to reading the payload's size_ bytes, which  *)
(* is what it reads of a well-formed message; the 4-byte codes of typeless *)
(* messages are decoded, since the dispatch depends on them.  A log record *)
(* is <<id, outcome>>: id is the type byte, or the typeless message's      *)
(* int32 code, or 0 for the decoder's own diagnostics.                     *)
(***************************************************************************)
EXTENDS Integers, Sequences

LOCAL INSTANCE SequencesExt

CONSTANTS
  MaxData,    \* max_data_size (1 MiB in the code)
  MaxChunk,   \* largest chunk handed to add_data in one call
  Streams     \* the message sequences a client may send

(* message_state (l.15-25) *)
OutOfSync == -1
WaitingForType == 0
WaitingForSize1 == 1
WaitingForSize4 == 4
WaitingForData == 5
Undefined == -2     \* not a state of the code: after undefined behaviour

(* message_id (l.38-60): type bytes, and typeless codes as 4 bytes. *)
BindId == 66        \* 'B'
CloseId == 67       \* 'C'
CopyDataId == 100   \* 'd'
CopyDoneId == 99    \* 'c'
CopyFailId == 102   \* 'f'
DescribeId == 68    \* 'D'
ExecuteId == 69     \* 'E'
FlushId == 72       \* 'H'
FunctionCallId == 70 \* 'F'
ParseId == 80       \* 'P'
QueryId == 81       \* 'Q'
SyncId == 83        \* 'S'
TerminateId == 88   \* 'X'
PasswId == 112      \* 'p'
StartupCode == <<0, 3, 0, 0>>         \* PG_PROTOCOL(3,0)
SslCode == <<4, 210, 22, 47>>         \* PG_PROTOCOL(1234,5679)
GssCode == <<4, 210, 22, 48>>         \* PG_PROTOCOL(1234,5680)
CancelCode == <<4, 210, 22, 46>>      \* PG_PROTOCOL(1234,5678)

ParsedTypes == {BindId, CloseId, CopyFailId, DescribeId, ExecuteId,
                FunctionCallId, ParseId, QueryId}
SkippedTypes == {CopyDataId, PasswId}
EmptyTypes == {CopyDoneId, FlushId, SyncId, TerminateId}

(* Big-endian integer of a byte sequence (size_bytes_ read back as uint32). *)
RECURSIVE FromBE(_)
FromBE(s) == IF s = <<>> THEN 0 ELSE FromBE(Front(s)) * 256 + Last(s)

(* size_ (an int) = *reinterpret_cast<uint32_t*>(size_bytes_): a length  *)
(* of 2^31 or more becomes negative.                                      *)
Int32BE(s) == (IF s[1] >= 128 THEN s[1] - 256 ELSE s[1]) * 16777216 + FromBE(Tail(s))

BE4(n) == <<(n \div 16777216) % 256, (n \div 65536) % 256, (n \div 256) % 256, n % 256>>

Drop(s, k) == SubSeq(s, k + 1, Len(s))

(***************************************************************************)
(* The decoder's fields: state_, type_ (typed or not), type_byte_, size_,  *)
(* cur_size_, size_bytes_ and data_ (its pages as one byte sequence: a     *)
(* page is queued only when non-empty and popped once read, so the queue   *)
(* is empty exactly when no collected byte is left).                       *)
(***************************************************************************)
InitDecoder ==                       \* protocol_message_t() (l.66)
  [st |-> WaitingForType, typed |-> FALSE, tb |-> 0, size |-> 0,
   cur |-> 0, sb |-> <<>>, dq |-> <<>>]

Result(d, log) == [dec |-> d, log |-> log]

Diag(what) == <<0, what>>

(* throw_error (l.68-74): forget the payload, go out of sync, log the     *)
(* diagnostic; the exception unwinds add_data, dropping the chunk's rest. *)
ThrowError(d, log) ==
  Result([d EXCEPT !.dq = <<>>, !.cur = 0, !.st = OutOfSync], log \o <<Diag("error")>>)

(* check_type (l.397-420) *)
CheckType(d) ==
  \/ ~d.typed
  \/ d.tb \in ParsedTypes \cup SkippedTypes
  \/ d.tb \in EmptyTypes /\ d.size = 0

(* process's too_big (l.83-94) compares the bytes of earlier chunks only. *)
TooBig(d) == MaxData < d.cur

(* get_byte (l.95-106) k times: from data_ first, then the chunk; it      *)
(* throws when both are empty or size_ would go negative (at once when    *)
(* size_ already is: a length field under 4 or of 2^31 and more).         *)
CanRead(d, w, k) == k \in 0..d.size /\ k <= Len(d.dq) + Len(w)
ReadDec(d, w, k) ==
  [d EXCEPT !.size = @ - k, !.dq = IF k <= Len(@) THEN Drop(@, k) ELSE <<>>]
ReadChunk(d, w, k) == IF k <= Len(d.dq) THEN w ELSE Drop(w, k - Len(d.dq))
Peek4(d, w) == SubSeq(d.dq \o w, 1, 4)

(* skip_data (l.78-82): adjust_pos(size_ - cur_size_) on the chunk, whose *)
(* assert fails, or whose unsigned arithmetic wraps, if that is out of    *)
(* range: the outcome is then undefined.                                  *)
SkipOk(d, w) == d.size - d.cur \in 0..Len(w)
SkipDec(d) == [d EXCEPT !.dq = <<>>, !.size = 0]
SkipChunk(d, w) == Drop(w, d.size - d.cur)

RECURSIVE AddData(_, _, _)

(* Mutant (see PROJECT.json): the rest of the chunk is dropped. *)
FinishNoTail(d, w, log) ==
  IF d.size # 0 \/ d.dq # <<>>
    THEN ThrowError(d, log)
    ELSE Result([d EXCEPT !.st = WaitingForType, !.cur = 0], log)

(* Mutant (see PROJECT.json): cur_size_ not reset after a message. *)
FinishNoCurReset(d, w, log) ==
  IF d.size # 0 \/ d.dq # <<>>
    THEN ThrowError(d, log)
    ELSE LET d2 == [d EXCEPT !.st = WaitingForType]
         IN IF w = <<>> THEN Result(d2, log) ELSE AddData(d2, w, log)

(* process, l.388-394: the final checks, then the rest of the chunk. *)
Finish(d, w, log) ==
  IF d.size # 0 \/ d.dq # <<>>
    THEN ThrowError(d, log)
    ELSE LET d2 == [d EXCEPT !.st = WaitingForType, !.cur = 0]
         IN IF w = <<>> THEN Result(d2, log) ELSE AddData(d2, w, log)

(* A payload read through or skipped, then Finish; rec is the log record. *)
ReadAll(d, w, log, rec) ==
  IF CanRead(d, w, d.size)
    THEN Finish(ReadDec(d, w, d.size), ReadChunk(d, w, d.size), log \o <<rec>>)
    ELSE ThrowError(d, log \o <<rec>>)
SkipAll(d, w, log, rec) ==
  IF SkipOk(d, w)
    THEN Finish(SkipDec(d), SkipChunk(d, w), log \o <<rec>>)
    ELSE Result([d EXCEPT !.st = Undefined], log \o <<rec, Diag("undefined")>>)

(* process l.181-223: get_int4 reads the code, then switch(i). *)
ProcessTypeless(d, w, log) ==
  IF ~CanRead(d, w, 4) THEN ThrowError(d, log) ELSE
  LET code == Peek4(d, w)
      id == FromBE(code)
      d1 == ReadDec(d, w, 4)
      w1 == ReadChunk(d, w, 4)
  IN CASE code = StartupCode ->
            IF TooBig(d1) THEN SkipAll(d1, w1, log, <<id, "too big">>)
                          ELSE ReadAll(d1, w1, log, <<id, "logged">>)
       [] code \in {SslCode, GssCode} ->
            Finish(d1, w1, log \o <<<<id, "logged">>>>)
       [] code = CancelCode ->
            IF CanRead(d1, w1, 8)
              THEN Finish(ReadDec(d1, w1, 8), ReadChunk(d1, w1, 8),
                          log \o <<<<id, "logged">>>>)
              ELSE ThrowError(d1, log \o <<<<id, "logged">>>>)
       [] OTHER -> ThrowError(d1, log)

(* Mutant (see PROJECT.json): CopyData / password payloads parsed like a *)
(* query although add_data never collected them.                         *)
ProcessTypedReadSkipped(d, w, log) ==
  CASE d.tb \in ParsedTypes \cup SkippedTypes ->
         IF TooBig(d) THEN SkipAll(d, w, log, <<d.tb, "too big">>)
                      ELSE ReadAll(d, w, log, <<d.tb, "logged">>)
    [] OTHER -> Finish(d, w, log \o <<<<d.tb, "logged">>>>)

(* process l.224-386: switch(type_byte_).  The parsed types check too_big *)
(* first; CopyData and password messages log their size and skip_data;   *)
(* the empty types only log.                                              *)
ProcessTyped(d, w, log) ==
  CASE d.tb \in ParsedTypes ->
         IF TooBig(d) THEN SkipAll(d, w, log, <<d.tb, "too big">>)
                      ELSE ReadAll(d, w, log, <<d.tb, "logged">>)
    [] d.tb \in SkippedTypes -> SkipAll(d, w, log, <<d.tb, "size only">>)
    [] OTHER -> Finish(d, w, log \o <<<<d.tb, "logged">>>>)

(* add_data l.468-469: CopyData and password payloads are not collected. *)
Collect(d) == ~(d.typed /\ d.tb \in SkippedTypes)

(* process (l.76-77, 180-181, 224) *)
Process(d, w, log) ==
  IF d.typed THEN ProcessTyped(d, w, log) ELSE ProcessTypeless(d, w, log)

(* add_data l.462-474: complete, or count (and keep) the chunk. *)
DataStep(d, w, log) ==
  IF d.size <= d.cur + Len(w)
    THEN Process(d, w, log)
    ELSE IF w = <<>> THEN Result(d, log)
    ELSE LET c == d.cur + Len(w)
         IN Result([d EXCEPT !.cur = c,
                             !.dq = IF Collect(d) /\ c <= MaxData THEN @ \o w ELSE @],
                   log)

(* Mutant (see PROJECT.json): the length taken as the payload size. *)
Size4StepNoMinus4(d, w, log) ==
  LET d1 == [d EXCEPT !.sb = @ \o <<Head(w)>>, !.size = Int32BE(d.sb \o <<Head(w)>>)]
  IN IF ~CheckType(d1) THEN ThrowError(d1, log)
     ELSE DataStep([d1 EXCEPT !.st = WaitingForData], Tail(w), log)

(* add_data l.451-461: the last length byte; size_ excludes the length. *)
Size4Step(d, w, log) ==
  LET d1 == [d EXCEPT !.sb = @ \o <<Head(w)>>, !.size = Int32BE(d.sb \o <<Head(w)>>) - 4]
  IN IF ~CheckType(d1) THEN ThrowError(d1, log)
     ELSE DataStep([d1 EXCEPT !.st = WaitingForData], Tail(w), log)

(* add_data l.442-450: the first three length bytes, returning when the   *)
(* chunk runs out.                                                        *)
SizeStep(d, w, log) ==
  LET n == WaitingForSize4 - d.st
  IN IF Len(w) <= n
       THEN Result([d EXCEPT !.sb = @ \o w, !.st = @ + Len(w)], log)
       ELSE Size4Step([d EXCEPT !.sb = @ \o SubSeq(w, 1, n), !.st = WaitingForSize4],
                      Drop(w, n), log)

(* add_data (l.422-475) on a non-empty chunk w, appending to log. *)
AddData(d, w, log) ==
  CASE d.st = OutOfSync -> Result(d, log \o <<Diag("out of sync")>>)
    [] d.st = Undefined -> Result(d, log)
    [] d.st = WaitingForType ->
         LET typed == Head(w) # 0
             d1 == [d EXCEPT !.tb = Head(w), !.typed = typed, !.st = WaitingForSize1,
                             !.sb = <<>>]
             w1 == IF typed THEN Tail(w) ELSE w
         IN IF w1 = <<>> THEN Result(d1, log) ELSE SizeStep(d1, w1, log)
    [] d.st \in WaitingForSize1..(WaitingForSize4 - 1) -> SizeStep(d, w, log)
    [] d.st = WaitingForSize4 -> Size4Step(d, w, log)
    [] OTHER -> DataStep(d, w, log)

(***************************************************************************)
(* The descriptor's byte stream.  A message is [tb |-> type byte, 0 for a  *)
(* typeless one, body |-> payload, len |-> its length field] (a typeless   *)
(* body starts with its code).  A well-formed length counts itself and the *)
(* payload; a client may send any 32-bit value.                            *)
(***************************************************************************)
Encode(m) == (IF m.tb = 0 THEN <<>> ELSE <<m.tb>>) \o BE4(m.len) \o m.body

Wire(ms) == FlattenSeq([i \in 1..Len(ms) |-> Encode(ms[i])])

MsgId(m) == IF m.tb = 0 THEN FromBE(SubSeq(m.body, 1, 4)) ELSE m.tb

(* The log the spec describes (section "Wire protocol"): one record per   *)
(* message; CopyData and password messages log their size; a startup or   *)
(* parsed message whose payload exceeds max_data_size is logged as too    *)
(* big and skipped.                                                       *)
Expected(m) ==
  <<MsgId(m),
    CASE m.tb \in SkippedTypes -> "size only"
      [] ((m.tb = 0 /\ MsgId(m) = FromBE(StartupCode)) \/ m.tb \in ParsedTypes)
           /\ MaxData < Len(m.body) -> "too big"
      [] OTHER -> "logged">>

Ref(ms) == [i \in 1..Len(ms) |-> Expected(ms[i])]

MaxPayload ==
  LET lens == UNION {{Len(ms[i].body) : i \in 1..Len(ms)} : ms \in Streams}
  IN CHOOSE x \in lens : \A y \in lens : y <= x

VARIABLES
  msgs,   \* the messages the client sends on the descriptor
  rest,   \* their bytes not yet handed to the logger
  dec,    \* postgre_msg_t's protocol_message_t for the descriptor
  out     \* the records written to the log file

vars == <<msgs, rest, dec, out>>

Init ==
  /\ msgs \in Streams
  /\ rest = Wire(msgs)
  /\ dec = InitDecoder
  /\ out = <<>>

(* psql_logger_t::read_data (psql_logger.h l.26-35) with postgre_msg_t::  *)
(* add_data (postgre_msg.h l.64-70): the conveyer hands the logger the    *)
(* next 1..MaxChunk bytes; add_data runs on them to completion, and an    *)
(* exception (throw_error) is caught by exceptor_t::except.               *)
Deliver ==
  \E k \in 1..MaxChunk :
    /\ k <= Len(rest)
    /\ LET r == AddData(dec, SubSeq(rest, 1, k), out)
       IN /\ dec' = r.dec
          /\ out' = r.log
    /\ rest' = Drop(rest, k)
    /\ UNCHANGED msgs

(* The client has sent everything: the reader waits for data. *)
Idle ==
  /\ rest = <<>>
  /\ UNCHANGED vars

Next == Deliver \/ Idle

(* The reader reads whatever bytes the line holds (reader_t::one_step). *)
Spec == Init /\ [][Next]_vars /\ WF_vars(Deliver)

TypeOK ==
  /\ dec.st \in {Undefined, OutOfSync, WaitingForType, WaitingForData}
                  \cup WaitingForSize1..WaitingForSize4
  /\ dec.size \in 0..MaxPayload
  /\ dec.cur \in 0..MaxPayload
  /\ Len(dec.sb) <= 4
  /\ out \in Seq((Nat \X STRING))

(* A record matches the reference; a payload over max_data_size may be    *)
(* logged in full (too_big sees only the bytes of earlier chunks).        *)
Agrees(o, e) == o = e \/ (e[2] = "too big" /\ o = <<e[1], "logged">>)

(***************************************************************************)
(* Whatever the chunking of the stream, the log holds one record per      *)
(* message sent, in order, each for the right message: add_data and       *)
(* process never lose framing, raise the decoder error, or misread a       *)
(* message across a chunk boundary.                                        *)
(***************************************************************************)
DecodedAsSent ==
  /\ Len(out) <= Len(msgs)
  /\ \A i \in 1..Len(out) : Agrees(out[i], Ref(msgs)[i])

(***************************************************************************)
(* Every message sent is eventually logged: no message stays pending in    *)
(* data_ once its last byte has been delivered.                           *)
(***************************************************************************)
AllLogged == <>(Len(out) = Len(msgs))

(* The number of bytes handed to add_data so far, and the offsets in the   *)
(* stream at which a message ends.                                         *)
Delivered == Len(Wire(msgs)) - Len(rest)
Boundaries == {Len(Wire(SubSeq(msgs, 1, k))) : k \in 0..Len(msgs)}

(***************************************************************************)
(* Framing: however the stream is chunked, add_data is waiting for a type  *)
(* byte (state_ = waiting_for_type) exactly when the bytes delivered end   *)
(* at a message boundary.  process's reset (l.390-391) and its hand-back   *)
(* of the page's rest (l.392-393), and waiting_for_data's size_ <=         *)
(* cur_size_ + sz test, must agree for this to hold after every chunk.     *)
(***************************************************************************)
FramingInSync == (dec.st = WaitingForType) <=> (Delivered \in Boundaries)

(***************************************************************************)
(* Spec ("Protocol decode error"): a decode error marks the descriptor     *)
(* out_of_sync and the pipeline goes on relaying.  Whatever length field a *)
(* client sends, add_data and process end in throw_error, never in an      *)
(* out-of-range skip_data (adjust_pos's assert, or wrapped arithmetic).    *)
(***************************************************************************)
DecodeErrorContained == dec.st # Undefined
=============================================================================
