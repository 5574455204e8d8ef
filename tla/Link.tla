-------------------------------- MODULE Link --------------------------------
(***************************************************************************)
(* The socket between the Rust supervisor and one Python child: the frames *)
(* each side encodes, the decoders that reassemble them from arbitrary     *)
(* chunks, and the three loops joined in a cycle by bounded buffers        *)
(* (gylo-core/src/protocol.rs, gylo-worker/src/lib.rs session, dispatch    *)
(* and collect_completions, python/gylo/_protocol.py and _worker.py).      *)
(*                                                                         *)
(* A byte is only its position: put[d] counts the bytes handed to the      *)
(* kernel in direction d, taken[d] those the reader has copied out, and a  *)
(* frame remembers where it starts.  Every size is a CONSTANT, so that the *)
(* limits keep their relations at a scale TLC can step through.            *)
(***************************************************************************)
EXTENDS Integers, Sequences, FiniteSets, FiniteSetsExt, Functions

CONSTANTS
  MaxJobs,              \* jobs the queue leases to this session
  Concurrency,          \* Config::concurrency
  CompletionBatch,      \* Config::completion_batch
  ACK_CAPACITY,         \* bound of the channel of step acknowledgements
  PipeBytes,            \* what the kernel buffers of one direction hold
  ReadBytes,            \* READ_BUFFER, READ_BYTES: the most one read returns
  HEADER_BYTES, MAX_FRAME_BYTES, MAX_ERROR_BYTES, COMPACT_THRESHOLD,
  DISPATCH_HEAD_BYTES, COMPLETE_HEAD_BYTES,
  PY_MAX_FRAME_BYTES, PY_DISPATCH_HEAD_BYTES,  \* what _protocol.py has for them
  MAX_NAME_BYTES,       \* u16::MAX, which the length of a task name must fit
  TrailerBytes,         \* length of "\n... truncated"
  TaskName,             \* TaskName[j]: length of the encoded task name of job j
  Payload,              \* Payload[j]: size of the payload of job j
  Replay,               \* Replay[j]: packed size of its prior steps, or 0
  Results,              \* encoded sizes of step and task results
  Errors,               \* rendered errors: [chars, width], width in bytes
  MaxFrames,            \* frames the child writes (a bound of the model)
  MaxFaults             \* record_step calls that may fail

ASSUME LinkConstants ==
  /\ {Concurrency, CompletionBatch, ACK_CAPACITY, PipeBytes, ReadBytes,
      HEADER_BYTES, MAX_FRAME_BYTES, COMPACT_THRESHOLD} \subseteq Nat \ {0}
  /\ {MaxJobs, MAX_ERROR_BYTES, DISPATCH_HEAD_BYTES,
      COMPLETE_HEAD_BYTES, TrailerBytes, MAX_NAME_BYTES, MaxFrames, MaxFaults}
       \subseteq Nat
  /\ {TaskName, Payload, Replay} \subseteq [1 .. MaxJobs -> Nat]
  /\ Results \subseteq Nat
  /\ Errors \subseteq [chars: Nat, width: Nat \ {0}]
  /\ COMPLETE_HEAD_BYTES + MAX_ERROR_BYTES + TrailerBytes <= MAX_FRAME_BYTES
  \* "Mirrors protocol.rs; the two must change together."
  /\ PY_MAX_FRAME_BYTES = MAX_FRAME_BYTES
  /\ PY_DISPATCH_HEAD_BYTES = DISPATCH_HEAD_BYTES

Dirs == {"down", "up"}
Jobs == 1 .. MaxJobs
NoJob == 0

(***************************************************************************)
(* Frames.  `text` is FALSE when the bytes that must be UTF-8 are not.     *)
(***************************************************************************)
Body(kind, job, size, text) ==
  [kind |-> kind, job |-> job, body |-> size, text |-> text]

\* Mutant of payload_limit: the task name is forgotten.
payload_limit_unnamed(j) == PY_MAX_FRAME_BYTES - PY_DISPATCH_HEAD_BYTES

payload_limit(j) == PY_MAX_FRAME_BYTES - PY_DISPATCH_HEAD_BYTES - TaskName[j]

encode_dispatch(j) ==
  Body("dispatch", j, DISPATCH_HEAD_BYTES + TaskName[j] + Payload[j], TRUE)
encode_steps(j) == Body("steps", j, 1 + Replay[j], TRUE)
encode_stored(j) == Body("stored", j, 1, TRUE)
encode_register == Body("register", NoJob, 1, TRUE)
encode_record(j, result) == Body("record", j, 1 + result, TRUE)
encode_success(j, result) ==
  Body("success", j, COMPLETE_HEAD_BYTES + result, TRUE)

\* Mutant of encode_failure: nothing is trimmed.
encode_failure_whole(j, error) ==
  Body("failure", j, COMPLETE_HEAD_BYTES + error.chars * error.width, TRUE)

\* The cut counts bytes, so it may fall inside a character.
encode_failure(j, error) ==
  LET rendered == error.chars * error.width
  IN  IF rendered > MAX_ERROR_BYTES
      THEN Body("failure", j,
                COMPLETE_HEAD_BYTES + MAX_ERROR_BYTES + TrailerBytes,
                MAX_ERROR_BYTES % error.width = 0)
      ELSE Body("failure", j, COMPLETE_HEAD_BYTES + rendered, TRUE)

\* The supervisor's encoder refuses a task name whose length does not fit its
\* field, and what the far side would refuse for its size.
Encodes(frame) ==
  /\ frame.kind = "dispatch" => TaskName[frame.job] <= MAX_NAME_BYTES
  /\ frame.body <= MAX_FRAME_BYTES

(***************************************************************************)
(* State.                                                                  *)
(***************************************************************************)
VARIABLES
  frames,     \* frames[d]: every frame written in direction d, and where
  put,        \* put[d]: bytes the kernel has accepted
  taken,      \* taken[d]: bytes the reader has copied into its decoder
  base, pos,  \* supervisor's Decoder: stream position of buf[0], and pos
  start,      \* child's Decoder: stream position of _buf[0]
  got,        \* got[d]: the frames decoded in direction d
  dsp,        \* dispatch: "top", "full", "idle", "writing" or "gone"
  col,        \* collect_completions: "read", "decode", "send" or "gone"
  sending,    \* the job whose acknowledgement the collector is sending
  acks,       \* the channel of acknowledgements
  leased,     \* jobs fetched so far
  refused,    \* jobs discarded because their dispatch did not encode
  inflight, pending,  \* InFlight::ids and the collector's Pending
  freed,      \* the permit of InFlight::freed
  shutdown,   \* the cancellation token
  over,       \* session has killed the child
  child,      \* serve: "reading", "ended" after EOF or "dead"
  task,       \* task[j]: the coroutine of job j
  unstored    \* jobs whose record_step failed: nobody will answer them

wire == <<frames, put, taken>>
supervisor == <<base, pos, dsp, col, sending, acks, leased, refused,
                inflight, pending, freed, shutdown, over>>
python == <<start, child, task>>
vars == <<wire, supervisor, python, got, unstored>>

\* A frame's place in its stream follows from the frames before it.
After(s) ==
  IF s = <<>> THEN 0 ELSE s[Len(s)].at + HEADER_BYTES + s[Len(s)].body
Place(s, f) == Append(s, [kind |-> f.kind, job |-> f.job, body |-> f.body,
                          text |-> f.text, at |-> After(s)])
Write(d, f) == frames' = [frames EXCEPT ![d] = Place(@, f)]

StartsAt(d, p) == {f \in Range(frames[d]) : f.at = p}
EndOf(f) == f.at + HEADER_BYTES + f.body

Init ==
  /\ frames = [d \in Dirs |->
                 IF d = "up" THEN Place(<<>>, encode_register) ELSE <<>>]
  /\ put = [d \in Dirs |-> 0] /\ taken = [d \in Dirs |-> 0]
  /\ base = 0 /\ pos = 0 /\ start = 0
  /\ got = [d \in Dirs |-> <<>>]
  /\ dsp = "top" /\ col = "read" /\ sending = NoJob /\ acks = <<>>
  /\ leased = 0 /\ refused = {} /\ inflight = {} /\ pending = {}
  /\ freed = FALSE /\ shutdown = FALSE /\ over = FALSE
  /\ child = "reading"
  /\ task = [j \in Jobs |-> "none"]
  /\ unstored = {}

(***************************************************************************)
(* The kernel, once per direction.  The child's transport buffers what     *)
(* does not fit, so writing never blocks it; the supervisor's write_all    *)
(* returns only when the kernel has taken everything.                      *)
(***************************************************************************)
Room(d) == PipeBytes - (put[d] - taken[d])
Accept(d) ==
  LET n == Min({Room(d), After(frames[d]) - put[d]})
  IN  /\ n > 0
      /\ put' = [put EXCEPT ![d] = @ + n]

PipeUp ==
  /\ ~over
  /\ Accept("up")
  /\ UNCHANGED <<frames, taken, supervisor, python, got, unstored>>

WriteAll ==
  /\ dsp = "writing" /\ ~over
  /\ Accept("down")
  /\ dsp' = IF put'["down"] = After(frames["down"]) THEN "top" ELSE "writing"
  /\ UNCHANGED <<frames, taken, base, pos, col, sending, acks, leased, refused,
                 inflight, pending, freed, shutdown, over, python, got, unstored>>

\* Mutant of Chunk: the child's loop awaits drain() before it reads again.
ChunkDrained(d) ==
  IF d = "down" /\ put["up"] < After(frames["up"])
  THEN 0 ELSE Min({ReadBytes, put[d] - taken[d]})

\* reader.read: whatever is there, up to the size of the chunk
Chunk(d) == Min({ReadBytes, put[d] - taken[d]})

(***************************************************************************)
(* dispatch.  Acknowledgements go first; a full session waits for one or   *)
(* for a freed slot, an idle one also for the poll interval.               *)
(***************************************************************************)
ForwardAck ==
  /\ dsp \in {"top", "full", "idle"}
  /\ acks # <<>>
  /\ acks' = Tail(acks)
  /\ Write("down", encode_stored(Head(acks)))
  /\ dsp' = "writing"
  /\ UNCHANGED <<put, taken, base, pos, col, sending, leased, refused, inflight,
                 pending, freed, shutdown, over, python, got, unstored>>

WaitForSlot ==
  /\ dsp = "top" /\ ~shutdown /\ acks = <<>>
  /\ Cardinality(inflight) >= Concurrency
  /\ dsp' = "full"
  /\ UNCHANGED <<wire, base, pos, col, sending, acks, leased, refused, inflight,
                 pending, freed, shutdown, over, python, got, unstored>>

SlotFreed ==
  /\ dsp = "full" /\ freed
  /\ freed' = FALSE /\ dsp' = "top"
  /\ UNCHANGED <<wire, base, pos, col, sending, acks, leased, refused, inflight,
                 pending, shutdown, over, python, got, unstored>>

\* What one job adds to the batch: a frame that does not encode adds nothing.
AddFrame(s, f) == IF Encodes(f) THEN Place(s, f) ELSE s
AddJob(s, j) ==
  AddFrame(IF Replay[j] > 0 THEN AddFrame(s, encode_steps(j)) ELSE s,
           encode_dispatch(j))
AddJobs(s, last, n) ==
  LET buf[k \in 0 .. n] ==
        IF k = 0 THEN s ELSE AddJob(buf[k - 1], last + k)
  IN  buf[n]

\* The keyed pass of gylo_pg::fetch may lease one job more than it was asked for.
Fetch(n) ==
  LET batch == leased + 1 .. leased + n
      sent == {j \in batch : Encodes(encode_dispatch(j))}
  IN  /\ dsp = "top" /\ ~shutdown /\ acks = <<>>
      /\ n <= Concurrency - Cardinality(inflight) + 1
      /\ Cardinality(inflight) < Concurrency
      /\ batch \subseteq Jobs
      /\ leased' = leased + n
      /\ refused' = refused \cup (batch \ sent)
      /\ inflight' = inflight \cup sent
      /\ IF sent = {}
         THEN /\ dsp' = IF n = 0 THEN "idle" ELSE "top"
              /\ UNCHANGED frames
         ELSE /\ frames' = [frames EXCEPT !["down"] = AddJobs(@, leased, n)]
              /\ dsp' = "writing"
      /\ UNCHANGED <<put, taken, base, pos, col, sending, acks, pending, freed,
                     shutdown, over, python, got, unstored>>

Poll ==
  /\ dsp = "idle"
  /\ dsp' = "top"
  /\ UNCHANGED <<wire, base, pos, col, sending, acks, leased, refused, inflight,
                 pending, freed, shutdown, over, python, got, unstored>>

Shutdown ==
  /\ ~shutdown
  /\ shutdown' = TRUE
  /\ UNCHANGED <<wire, base, pos, dsp, col, sending, acks, leased, refused,
                 inflight, pending, freed, over, python, got, unstored>>

\* dispatch returns: the write half and the receiving end of the channel drop
StopDispatch ==
  /\ shutdown /\ dsp \in {"top", "full", "idle"}
  /\ dsp' = "gone" /\ acks' = <<>>
  /\ UNCHANGED <<wire, base, pos, col, sending, leased, refused, inflight,
                 pending, freed, shutdown, over, python, got, unstored>>

\* The drain ends when nothing is in flight, or when DRAIN_TIMEOUT is up.
Kill ==
  /\ dsp = "gone" /\ ~over
  /\ over' = TRUE
  /\ UNCHANGED <<wire, base, pos, dsp, col, sending, acks, leased, refused,
                 inflight, pending, freed, shutdown, python, got, unstored>>
Drained == inflight = {} /\ Kill
DrainTimeout == inflight # {} /\ Kill

(***************************************************************************)
(* collect_completions.                                                    *)
(***************************************************************************)
Flush(reports) ==
  /\ pending' = {}
  /\ inflight' = inflight \ reports
  /\ freed' = (freed \/ reports # {})

Hold(reports) ==
  /\ pending' = reports
  /\ UNCHANGED <<inflight, freed>>

Collect ==
  /\ col = "read" /\ Chunk("up") > 0
  /\ taken' = [taken EXCEPT !["up"] = @ + Chunk("up")]
  /\ col' = "decode"
  /\ UNCHANGED <<frames, put, base, pos, dsp, sending, acks, leased, refused,
                 inflight, pending, freed, shutdown, over, python, got, unstored>>

Linger ==
  /\ col = "read" /\ pending # {}
  /\ Flush(pending)
  /\ UNCHANGED <<wire, base, pos, dsp, col, sending, acks, leased, refused,
                 shutdown, over, python, got, unstored>>

\* Decoder::next_message on what is buffered from `base + pos` on
Buffered == taken["up"] - (base + pos)
Announced == StartsAt("up", base + pos)
NeedsMore ==
  \/ Buffered < HEADER_BYTES
  \/ \E f \in Announced : /\ f.body <= MAX_FRAME_BYTES
                          /\ Buffered - HEADER_BYTES < f.body
\* A frame of the child's encoders has a known kind and outcome, its fixed fields
\* and a MessagePack body that unpacks: its size and its text are what can be wrong.
Readable(f) == f.body <= MAX_FRAME_BYTES /\ f.text

\* Mutant of Advance: compaction forgets to reset pos.
AdvanceKeepsPos(f) ==
  LET next == pos + HEADER_BYTES + f.body
  IN  /\ pos' = next
      /\ base' = IF next >= COMPACT_THRESHOLD THEN base + next ELSE base

Advance(f) ==
  LET next == pos + HEADER_BYTES + f.body
  IN  IF next >= COMPACT_THRESHOLD
      THEN base' = base + next /\ pos' = 0
      ELSE base' = base /\ pos' = next

\* Mutant of NextChunk: `if let` instead of the inner loop.
NextChunkAfterOne ==
  /\ col = "decode"
  /\ col' = "read"
  /\ IF Cardinality(pending) >= CompletionBatch THEN Flush(pending) ELSE Hold(pending)
  /\ UNCHANGED <<wire, base, pos, dsp, sending, acks, leased, refused, shutdown,
                 over, python, got, unstored>>

\* the inner loop found no further frame
NextChunk ==
  /\ col = "decode" /\ NeedsMore
  /\ col' = "read"
  /\ IF Cardinality(pending) >= CompletionBatch THEN Flush(pending) ELSE Hold(pending)
  /\ UNCHANGED <<wire, base, pos, dsp, sending, acks, leased, refused, shutdown,
                 over, python, got, unstored>>

\* an unreadable frame, or bytes that are not the start of one
Unreadable ==
  /\ col = "decode" /\ ~NeedsMore
  /\ \A f \in Announced : ~Readable(f)
  /\ col' = "gone"
  /\ Flush(pending)
  /\ UNCHANGED <<wire, base, pos, dsp, sending, acks, leased, refused, shutdown,
                 over, python, got, unstored>>

NextMessage ==
  /\ col = "decode" /\ ~NeedsMore
  /\ \E f \in Announced :
       /\ Readable(f)
       /\ Advance(f)
       /\ got' = [got EXCEPT !["up"] = Append(@, f)]
       /\ \/ /\ f.kind \in {"success", "failure"}
             /\ Hold(pending \cup {f.job})
             /\ UNCHANGED <<col, sending, unstored>>
          \/ /\ f.kind = "register"
             /\ UNCHANGED <<col, sending, unstored, inflight, pending, freed>>
          \/ /\ f.kind = "record"                       \* record_step succeeds
             /\ col' = "send" /\ sending' = f.job
             /\ UNCHANGED <<unstored, inflight, pending, freed>>
          \/ /\ f.kind = "record"                       \* record_step fails
             /\ Cardinality(unstored) < MaxFaults
             /\ unstored' = unstored \cup {f.job}
             /\ UNCHANGED <<col, sending, inflight, pending, freed>>
  /\ UNCHANGED <<wire, dsp, acks, leased, refused, shutdown, over, python>>

\* Mutant of SendAck: the channel is unbounded.
SendAckUnbounded ==
  /\ col = "send"
  /\ acks' = IF dsp = "gone" THEN acks ELSE Append(acks, sending)
  /\ col' = "decode" /\ sending' = NoJob
  /\ UNCHANGED <<wire, base, pos, dsp, leased, refused, inflight, pending, freed,
                 shutdown, over, python, got, unstored>>

\* acks.send waits for room, and fails at once when the receiver is gone
SendAck ==
  /\ col = "send"
  /\ \/ /\ dsp = "gone"
        /\ UNCHANGED acks
     \/ /\ dsp # "gone" /\ Len(acks) < ACK_CAPACITY
        /\ acks' = Append(acks, sending)
  /\ col' = "decode" /\ sending' = NoJob
  /\ UNCHANGED <<wire, base, pos, dsp, leased, refused, inflight, pending, freed,
                 shutdown, over, python, got, unstored>>

Closed == \/ over
          \/ /\ child = "ended"
             /\ \A j \in Jobs : task[j] \in {"none", "done"}
             /\ put["up"] = After(frames["up"])

CollectEOF ==
  /\ col = "read" /\ Closed /\ put["up"] = taken["up"]
  /\ col' = "gone"
  /\ Flush(pending)
  /\ UNCHANGED <<wire, base, pos, dsp, sending, acks, leased, refused, shutdown,
                 over, python, got, unstored>>

(***************************************************************************)
(* The child: serve's read loop, and the coroutine of each job.  One pass  *)
(* of the loop has no await between the read and the next read, so a chunk *)
(* and everything it completes are one step.                               *)
(***************************************************************************)
Complete(limit) ==
  {f \in Range(frames["down"]) : f.at >= start /\ EndOf(f) <= limit}
Rejects(limit) ==
  \E f \in Range(frames["down"]) :
     /\ f.at >= start /\ f.at + HEADER_BYTES <= limit
     /\ f.body > PY_MAX_FRAME_BYTES

\* the part of a stream that is in a set, in order
InOrder(s, out) ==
  LET kept[i \in 0 .. Len(s)] ==
        IF i = 0 THEN <<>>
        ELSE IF s[i] \in out THEN Append(kept[i - 1], s[i]) ELSE kept[i - 1]
  IN  kept[Len(s)]

Serve ==
  LET limit == taken["down"] + Chunk("down")
      out == Complete(limit)
      arrived(kind) == {f.job : f \in {g \in out : g.kind = kind}}
  IN  /\ child = "reading" /\ ~over /\ Chunk("down") > 0
      /\ taken' = [taken EXCEPT !["down"] = limit]
      /\ IF Rejects(limit)
         THEN /\ child' = "dead"
              /\ UNCHANGED <<start, task, got>>
         ELSE /\ start' = Max({start} \cup {EndOf(f) : f \in out})
              /\ got' = [got EXCEPT !["down"] = @ \o InOrder(frames["down"], out)]
              /\ task' = [j \in Jobs |->
                   IF j \in arrived("dispatch")
                      \/ (j \in arrived("stored") /\ task[j] = "wait")
                   THEN "run" ELSE task[j]]
              /\ UNCHANGED child
      /\ UNCHANGED <<frames, put, supervisor, unstored>>

\* EOF: StepAcks.abandon fails every step that is waiting at this moment
ServeEOF ==
  /\ child = "reading" /\ ~over
  /\ dsp = "gone" /\ put["down"] = taken["down"]
  /\ child' = "ended"
  /\ task' = [j \in Jobs |-> IF task[j] = "wait" THEN "fail" ELSE task[j]]
  /\ UNCHANGED <<wire, supervisor, start, got, unstored>>

\* StepContext.step: the record is written, then the coroutine waits
Step(j) ==
  /\ task[j] = "run" /\ child # "dead" /\ ~over
  /\ Len(frames["up"]) < MaxFrames
  /\ \E r \in Results : Write("up", encode_record(j, r))
  /\ task' = [task EXCEPT ![j] = "wait"]
  /\ UNCHANGED <<put, taken, supervisor, start, child, got, unstored>>

\* asyncio.timeout fires while the step waits
StepTimeout(j) ==
  /\ task[j] = "wait" /\ child # "dead" /\ ~over
  /\ task' = [task EXCEPT ![j] = "fail"]
  /\ UNCHANGED <<wire, supervisor, start, child, got, unstored>>

Report(j, frame) ==
  /\ child # "dead" /\ ~over
  /\ Len(frames["up"]) < MaxFrames
  /\ Write("up", frame)
  /\ task' = [task EXCEPT ![j] = "done"]
  /\ UNCHANGED <<put, taken, supervisor, start, child, got, unstored>>

Succeed(j) ==
  /\ task[j] = "run"
  /\ \E r \in Results : Report(j, encode_success(j, r))
Fail(j) ==
  /\ task[j] \in {"run", "fail"}
  /\ \E e \in Errors : Report(j, encode_failure(j, e))

(***************************************************************************)
(* The specification.                                                      *)
(***************************************************************************)
Finish(j) == Succeed(j) \/ Fail(j)
Dispatching == \/ ForwardAck \/ WaitForSlot \/ SlotFreed \/ Poll
               \/ (\E n \in 0 .. MaxJobs : Fetch(n))
               \/ StopDispatch \/ WriteAll
Collecting == \/ Collect \/ Linger \/ NextChunk \/ Unreadable \/ NextMessage
              \/ SendAck \/ CollectEOF
Serving == Serve \/ ServeEOF

Next ==
  \/ PipeUp \/ Dispatching \/ Shutdown \/ Drained \/ DrainTimeout \/ Collecting
  \/ Serving
  \/ \E j \in Jobs : Step(j) \/ StepTimeout(j) \/ Finish(j)

Spec == Init /\ [][Next]_vars

(***************************************************************************)
(* Properties.                                                             *)
(***************************************************************************)
\* No more bytes are read than written or held than the kernel has room for,
\* the acknowledgement channel of session stays within ACK_CAPACITY, and
\* exactly a collector that is sending has an acknowledgement to send.
LinkTypeOK ==
  /\ \A d \in Dirs : 0 <= taken[d] /\ taken[d] <= put[d]
                     /\ put[d] <= After(frames[d]) /\ Room(d) >= 0
  /\ dsp \in {"top", "full", "idle", "writing", "gone"}
  /\ col \in {"read", "decode", "send", "gone"}
  /\ (sending # NoJob) = (col = "send")
  /\ acks \in Seq(Jobs) /\ Len(acks) <= ACK_CAPACITY
  /\ child \in {"reading", "ended", "dead"}
  /\ task \in [Jobs -> {"none", "run", "wait", "fail", "done"}]

\* However the reads cut the streams, each side decodes exactly the frames
\* the other wrote, in order, and its buffer begins where the next one does:
\* "Reassembles messages from arbitrarily chunked reads", including across
\* the compaction of the supervisor's buffer.
InSync ==
  /\ \A d \in Dirs : /\ Len(got[d]) <= Len(frames[d])
                     /\ got[d] = SubSeq(frames[d], 1, Len(got[d]))
  /\ base + pos = After(got["up"])
  /\ start = After(got["down"])

\* A reader that waits for bytes has nothing left to decode: a report never
\* sits complete in a buffer until some later message pushes it out.
NothingStranded ==
  /\ col = "read" => NeedsMore
  /\ child = "reading" => Complete(taken["down"]) = {}

\* The supervisor never writes a frame the child's decoder raises on, and a
\* job whose arguments passed payload_limit at enqueue is discarded at dispatch
\* for one reason only, which nothing checks at enqueue: a task name of more
\* bytes than the dispatch frame can count (TaskNameTooLong).
EnqueuedIsDispatchable ==
  /\ child # "dead"
  /\ \A j \in refused : Payload[j] > payload_limit(j) \/ TaskName[j] > MAX_NAME_BYTES

\* encode_failure trims "to a size the supervisor will accept": the collector
\* never gives up on a failure report for its size, only for an error of
\* wider characters cut in the middle of one.
FailureFits ==
  (col = "gone" /\ ~Closed) =>
     \A f \in StartsAt("up", base + pos) : f.kind = "failure" => ~f.text

\* One of the loops or sockets can take a step: the guards of PipeUp, WriteAll
\* and ForwardAck, of the collector's and of the child's steps.
Accepts(d) == ~over /\ Room(d) > 0 /\ put[d] < After(frames[d])
Moving ==
  \/ Accepts("up")
  \/ Accepts("down") /\ dsp = "writing"
  \/ acks # <<>> /\ dsp \in {"top", "full", "idle"}
  \/ /\ col = "read"
     /\ Chunk("up") > 0 \/ pending # {} \/ (Closed /\ put["up"] = taken["up"])
  \/ /\ col = "decode"
     /\ \/ NeedsMore \/ \A f \in Announced : ~Readable(f)
        \/ \E f \in Announced : /\ Readable(f)
                                /\ f.kind \in {"register", "record", "success", "failure"}
  \/ col = "send" /\ (dsp = "gone" \/ Len(acks) < ACK_CAPACITY)
  \/ /\ child = "reading" /\ ~over
     /\ Chunk("down") > 0 \/ (dsp = "gone" /\ put["down"] = taken["down"])

\* The channel, the two sockets and the three loops form a cycle of bounded
\* buffers, and "the cycle cannot deadlock": as long as a job's dispatch,
\* step or report is in the machinery's hands, one of the loops can move it
\* on.  Polling, fetching and waiting for a slot do not count as a move.  The
\* exceptions are the ones the code has: a collector that met an unreadable
\* frame, and a step that waits though it could not be recorded or though
\* the dispatcher has stopped.
NeverJams ==
  \A j \in inflight :
     \/ task[j] \in {"run", "fail"}
     \/ col = "gone" \/ over
     \/ task[j] = "wait" /\ (j \in unstored \/ dsp = "gone")
     \/ Moving

=============================================================================
