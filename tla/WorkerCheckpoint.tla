-------------------------- MODULE WorkerCheckpoint --------------------------
(***************************************************************************)
(* How the recording worker brings its encoded file to S3                  *)
(* (backend/recording_agent/worker.mjs: createMultipartCheckpointer, the   *)
(* checkpoint timer and shutdown), and how the backend recovers what a     *)
(* worker that died left there (complete_orphaned_multipart_upload).       *)
(*                                                                         *)
(* While recording, a timer uploads the full parts of the growing file.    *)
(* Shutdown stops the timer, lets the encoder finish and completes the     *)
(* upload, or puts the whole file.  A flush that is under way when the     *)
(* timer is stopped goes on: the flush ("tick") and shutdown ("fin") are   *)
(* two coroutines over the same variables, each waiting for one S3 call at *)
(* a time.  A call may fail without an effect, or have its effect and lose *)
(* its answer; the worker may be killed at any moment.                     *)
(*                                                                         *)
(* Sizes are in units of the file; a part is a range of it and a number.   *)
(***************************************************************************)
EXTENDS Integers, Sequences, FiniteSets, FiniteSetsExt

CONSTANTS PartSize,    \* S3_PART_SIZE_BYTES
          MaxSize,     \* bound on the encoded file
          MaxFaults,   \* bound on S3 calls that fail
          Prompt       \* a flush ends before the encoder has been drained

ASSUME ConstantsAssumption ==
    /\ PartSize \in Nat \ {0} /\ MaxSize \in Nat /\ MaxFaults \in Nat
    /\ Prompt \in BOOLEAN

VARIABLES
    size,      \* size of the temp file
    phase,     \* where main and shutdown are
    cp,        \* the variables of the checkpointer's closure
    up,        \* the S3 call each coroutine waits for
    uploads,   \* the multipart uploads that S3 created, in this order
    object,    \* the ranges that the object at the key is made of
    faults

vars == <<size, phase, cp, up, uploads, object, faults>>
s3Vars == <<uploads, object>>

Bytes == [lo : 0..MaxSize, hi : 0..MaxSize]
Part == [lo : 0..MaxSize, hi : 0..MaxSize, n : Nat]

Checkpointer ==
    [id : Nat,              \* uploadId, 0 for null
     next : Nat,            \* nextPartNumber
     offset : 0..MaxSize,   \* uploadedOffset
     parts : Seq(Part),     \* parts, in the order of their answers
     disabled : BOOLEAN, flushing : BOOLEAN]

Coroutines == {"tick", "fin"}
Call == [op : {"none", "create", "part", "complete", "abort", "put"},
         st : {"sent", "ok", "error"},
         plan : Seq(Bytes), id : Nat, n : Nat]

Request(op, id) == [op |-> op, st |-> "sent", plan |-> <<>>, id |-> id, n |-> 0]
NoCall == Request("none", 0)

Working == {"recording", "draining", "failing", "finalize", "fallback", "cleanup"}

\* The types of the variables.
TypeOK ==
    /\ size \in 0..MaxSize
    /\ phase \in Working \cup {"finalized", "failed", "crashed", "recovered"}
    /\ cp \in Checkpointer
    /\ up \in [Coroutines -> Call]
    /\ uploads \in Seq([open : BOOLEAN, parts : SUBSET Part])
    /\ object \in Seq(Bytes)
    /\ faults \in 0..MaxFaults

Init ==
    /\ size = 0 /\ phase = "recording"
    /\ cp = [id |-> 0, next |-> 1, offset |-> 0, parts |-> <<>>,
             disabled |-> FALSE, flushing |-> FALSE]
    /\ up = [w \in Coroutines |-> NoCall]
    /\ uploads = <<>> /\ object = <<>> /\ faults = 0

-----------------------------------------------------------------------------
(* S3 (external).                                                          *)

IsOpen(id) == id \in 1..Len(uploads) /\ uploads[id].open

\* The part of a call: the range at the head of its plan.
PartOf(call) == [lo |-> call.plan[1].lo, hi |-> call.plan[1].hi, n |-> call.n]

\* An upload is completed with parts that it has, by ascending number, all
\* but the last of full size.
Acceptable(id, parts) ==
    /\ \A i \in 1..Len(parts) : parts[i] \in uploads[id].parts
    /\ \A i \in 1..(Len(parts) - 1) :
           parts[i].n < parts[i + 1].n /\ parts[i].hi - parts[i].lo = PartSize

\* The parts that S3 lists for an upload, by number.
Listed(id) ==
    LET ps == uploads[id].parts IN
    CHOOSE s \in [1..Cardinality(ps) -> ps] :
        \A i, j \in 1..Cardinality(ps) : i < j => s[i].n < s[j].n

Complete(id, parts) ==
    /\ uploads' = [uploads EXCEPT ![id].open = FALSE]
    /\ object' = [i \in 1..Len(parts) |-> [lo |-> parts[i].lo, hi |-> parts[i].hi]]

\* What the call asks for can be done.
Possible(call) ==
    /\ call.op \in {"part", "complete", "abort"} => IsOpen(call.id)
    /\ call.op = "complete" => Acceptable(call.id, cp.parts)

\* S3 does what a call asks for; the answer is on its way.
S3Serves(w) ==
    LET call == up[w] IN
    /\ phase \in Working /\ call.op # "none" /\ call.st = "sent" /\ Possible(call)
    /\ up' = [up EXCEPT ![w].st = "ok",
                        ![w].id = IF call.op = "create" THEN Len(uploads) + 1 ELSE @]
    /\ \/ /\ call.op = "create"
          /\ uploads' = Append(uploads, [open |-> TRUE, parts |-> {}])
          /\ UNCHANGED object
       \/ /\ call.op = "part"
          /\ uploads' = [uploads EXCEPT ![call.id].parts =
                            {p \in @ : p.n # call.n} \cup {PartOf(call)}]
          /\ UNCHANGED object
       \/ /\ call.op = "abort"
          /\ uploads' = [uploads EXCEPT ![call.id] = [open |-> FALSE, parts |-> {}]]
          /\ UNCHANGED object
       \/ call.op = "complete" /\ Complete(call.id, cp.parts)
       \/ /\ call.op = "put"
          /\ object' = <<[lo |-> 0, hi |-> size]>> /\ UNCHANGED uploads
    /\ UNCHANGED <<size, phase, cp, faults>>

\* S3 refuses what it cannot do.
S3Refuses(w) ==
    /\ phase \in Working /\ up[w].op # "none" /\ up[w].st = "sent" /\ ~Possible(up[w])
    /\ up' = [up EXCEPT ![w].st = "error"]
    /\ UNCHANGED <<size, phase, cp, s3Vars, faults>>

\* The call, or its answer, is lost.
CallFails(w) ==
    /\ phase \in Working /\ up[w].op # "none" /\ up[w].st # "error" /\ faults < MaxFaults
    /\ up' = [up EXCEPT ![w].st = "error"]
    /\ faults' = faults + 1
    /\ UNCHANGED <<size, phase, cp, s3Vars>>

-----------------------------------------------------------------------------
(* The flush and finalize.                                                 *)

\* Mutant: the last range is not cut at the end of the file.
BugLastRange(offset, final) ==
    LET left == size - offset
        count == (IF final THEN left + PartSize - 1 ELSE left) \div PartSize IN
    [k \in 1..(IF left > 0 THEN count ELSE 0) |->
        [lo |-> offset + (k - 1) * PartSize, hi |-> offset + k * PartSize]]

\* Mutant: the rest of the file is forgotten at the end.
BugNoRest(offset, final) ==
    [k \in 1..((size - offset) \div PartSize) |->
        [lo |-> offset + (k - 1) * PartSize, hi |-> offset + k * PartSize]]

\* computePartPlan: the full parts, and at the end the rest too.
ComputePartPlan(offset, final) ==
    LET left == size - offset
        count == (IF final THEN left + PartSize - 1 ELSE left) \div PartSize IN
    [k \in 1..(IF left > 0 THEN count ELSE 0) |->
        [lo |-> offset + (k - 1) * PartSize,
         hi |-> Min({offset + k * PartSize, size})]]

\* A coroutine leaves the closure's variables as c and waits for a call.
Await(w, c, ph, call) ==
    cp' = c /\ phase' = ph /\ up' = [up EXCEPT ![w] = call]

\* shutdown after finalize returned false: abort what there is, then put.
Fallback(c) ==
    Await("fin", c, "fallback",
          IF c.id # 0 THEN Request("abort", c.id) ELSE Request("put", 0))

\* Mutant: the offset moves when the part is sent.
BugUploadNext(w, c, ph, plan) ==
    IF plan # <<>>
    THEN Await(w, [c EXCEPT !.next = @ + 1, !.offset = plan[1].hi], ph,
               [op |-> "part", st |-> "sent", plan |-> plan, id |-> c.id, n |-> c.next])
    ELSE IF w = "tick" THEN Await(w, [c EXCEPT !.flushing = FALSE], ph, NoCall)
    ELSE IF c.parts = <<>> THEN Fallback(c)
    ELSE Await(w, c, ph, Request("complete", c.id))

\* uploadRange for the next range of a plan; a flush with none left is over,
\* finalize completes the upload.
UploadNext(w, c, ph, plan) ==
    IF plan # <<>>
    THEN Await(w, [c EXCEPT !.next = @ + 1], ph,
               [op |-> "part", st |-> "sent", plan |-> plan, id |-> c.id, n |-> c.next])
    ELSE IF w = "tick" THEN Await(w, [c EXCEPT !.flushing = FALSE], ph, NoCall)
    ELSE IF c.parts = <<>> THEN Fallback(c)
    ELSE Await(w, c, ph, Request("complete", c.id))

\* ensureStarted, then the parts.
Begin(w, c, ph, plan) ==
    IF c.id # 0 THEN UploadNext(w, c, ph, plan)
    ELSE Await(w, c, ph, [Request("create", 0) EXCEPT !.plan = plan])

\* The encoder writes, until it has been drained.
Encode ==
    /\ phase \in {"recording", "draining"} /\ size < MaxSize
    /\ size' = size + 1
    /\ UNCHANGED <<phase, cp, up, s3Vars, faults>>

\* The checkpoint timer.
Tick ==
    LET plan == ComputePartPlan(cp.offset, FALSE) IN
    /\ phase = "recording" /\ ~cp.disabled /\ ~cp.flushing /\ plan # <<>>
    /\ Begin("tick", [cp EXCEPT !.flushing = TRUE], phase, plan)
    /\ UNCHANGED <<size, s3Vars, faults>>

\* SIGTERM, the end of the room, or a fatal error: shutdown starts.
Shutdown ==
    /\ phase = "recording" /\ phase' \in {"draining", "failing"}
    /\ UNCHANGED <<size, cp, up, s3Vars, faults>>

\* The encoder has exited: persist the file.  A file that was never started
\* and fits in one part is put as a whole.
Finalize ==
    LET plan == ComputePartPlan(cp.offset, TRUE) IN
    /\ phase = "draining" /\ (Prompt => ~cp.flushing)
    /\ \/ size = 0 /\ phase' = "failed" /\ UNCHANGED <<cp, up>>
       \/ /\ size > 0 /\ (cp.disabled \/ (cp.id = 0 /\ Len(plan) <= 1))
          /\ Fallback(cp)
       \/ /\ size > 0 /\ ~cp.disabled /\ (cp.id # 0 \/ Len(plan) > 1)
          /\ Begin("fin", cp, "finalize", plan)
    /\ UNCHANGED <<size, s3Vars, faults>>

\* After a fatal error there is nothing to persist.
CleanUp ==
    /\ phase = "failing" /\ (Prompt => ~cp.flushing)
    /\ IF cp.id # 0 THEN Await("fin", cp, "cleanup", Request("abort", cp.id))
                    ELSE phase' = "failed" /\ UNCHANGED <<cp, up>>
    /\ UNCHANGED <<size, s3Vars, faults>>

-----------------------------------------------------------------------------
(* The answers.                                                            *)

Answered(w, ops, st) ==
    /\ phase \in Working /\ up[w].op \in ops /\ up[w].st = st
    /\ UNCHANGED <<size, s3Vars, faults>>

Created(w) ==
    /\ Answered(w, {"create"}, "ok")
    /\ UploadNext(w, [cp EXCEPT !.id = up[w].id], phase, up[w].plan)

PartUploaded(w) ==
    /\ Answered(w, {"part"}, "ok")
    /\ UploadNext(w, [cp EXCEPT !.parts = Append(@, PartOf(up[w])),
                                !.offset = up[w].plan[1].hi],
                  phase, Tail(up[w].plan))

\* The object is there: the worker emits "finalized" and exits.
Persisted ==
    /\ Answered("fin", {"complete", "put"}, "ok")
    /\ Await("fin", [cp EXCEPT !.id = 0], "finalized", NoCall)

\* tick's catch: no more flushes, and the parts are given up.
FlushFails ==
    /\ Answered("tick", {"create", "part"}, "error")
    /\ IF cp.id # 0
       THEN Await("tick", [cp EXCEPT !.disabled = TRUE], phase, Request("abort", cp.id))
       ELSE Await("tick", [cp EXCEPT !.disabled = TRUE, !.flushing = FALSE], phase, NoCall)

\* finalize's catch.
FinalizeFails ==
    /\ Answered("fin", {"create", "part", "complete"}, "error")
    /\ Fallback(cp)

PutFails ==
    /\ Answered("fin", {"put"}, "error")
    /\ Await("fin", cp, "failed", NoCall)

\* Mutant: abort waits for an answer that says it worked.
BugAborted(w) ==
    /\ Answered(w, {"abort"}, "ok")
    /\ LET c == [cp EXCEPT !.id = 0] IN
       \/ w = "tick" /\ Await(w, [c EXCEPT !.flushing = FALSE], phase, NoCall)
       \/ w = "fin" /\ phase = "fallback" /\ Fallback(c)
       \/ w = "fin" /\ phase = "cleanup" /\ Await(w, c, "failed", NoCall)

\* abort swallows its failure.
Aborted(w) ==
    \E st \in {"ok", "error"} :
        /\ Answered(w, {"abort"}, st)
        /\ LET c == [cp EXCEPT !.id = 0] IN
           \/ w = "tick" /\ Await(w, [c EXCEPT !.flushing = FALSE], phase, NoCall)
           \/ w = "fin" /\ phase = "fallback" /\ Fallback(c)
           \/ w = "fin" /\ phase = "cleanup" /\ Await(w, c, "failed", NoCall)

-----------------------------------------------------------------------------
(* A worker that is killed, and the backend's recovery.                    *)

Crash ==
    /\ phase \in Working
    /\ phase' = "crashed" /\ up' = [w \in Coroutines |-> NoCall]
    /\ UNCHANGED <<size, cp, s3Vars, faults>>

\* The upload that recovery takes: the newest one still open.
Orphan == Max({0} \cup {id \in 1..Len(uploads) : uploads[id].open})

\* Mutant: recovery does not look for an object first.
BugRecover ==
    /\ phase \in {"failed", "crashed"} /\ Orphan # 0
    /\ uploads[Orphan].parts # {} /\ Acceptable(Orphan, Listed(Orphan))
    /\ Complete(Orphan, Listed(Orphan))
    /\ phase' = "recovered"
    /\ UNCHANGED <<size, cp, up, faults>>

\* The worker is gone and left no object: complete its upload, or abort one
\* without parts.
Recover ==
    /\ phase \in {"failed", "crashed"} /\ object = <<>> /\ Orphan # 0
    /\ \/ /\ uploads[Orphan].parts = {}
          /\ uploads' = [uploads EXCEPT ![Orphan].open = FALSE]
          /\ UNCHANGED <<phase, object>>
       \/ /\ uploads[Orphan].parts # {} /\ Acceptable(Orphan, Listed(Orphan))
          /\ Complete(Orphan, Listed(Orphan))
          /\ phase' = "recovered"
    /\ UNCHANGED <<size, cp, up, faults>>

-----------------------------------------------------------------------------
WorkerStep ==
    \/ Finalize \/ CleanUp
    \/ Persisted \/ FlushFails \/ FinalizeFails \/ PutFails
    \/ \E w \in Coroutines :
           \/ S3Serves(w) \/ S3Refuses(w)
           \/ Created(w) \/ PartUploaded(w) \/ Aborted(w)

Next ==
    \/ WorkerStep
    \/ Encode \/ Tick \/ Shutdown \/ Crash \/ Recover
    \/ \E w \in Coroutines : CallFails(w)

Spec == Init /\ [][Next]_vars

\* S3 answers, the SDK's calls return and the event loop goes on.
FairSpec == Spec /\ WF_vars(WorkerStep)

-----------------------------------------------------------------------------
\* The ranges follow each other from the beginning of the file.
Gapless(ranges) ==
    \A i \in 1..Len(ranges) :
        ranges[i].lo = (IF i = 1 THEN 0 ELSE ranges[i - 1].hi)

\* How much of the recording ranges hold; what is not the beginning of it is
\* more than there is.
Held(ranges) ==
    IF ranges = <<>> THEN 0
    ELSE IF Gapless(ranges) THEN ranges[Len(ranges)].hi ELSE size + 1

\* What recovery would find if the worker died now.
Recoverable ==
    IF object # <<>> THEN Held(object)
    ELSE IF Orphan = 0 THEN 0 ELSE Held(Listed(Orphan))

\* Crash insurance: until a failure makes the worker give its upload up, a
\* crash at any moment, also in the middle of finalize, costs no more than
\* what was encoded since the last part that was flushed.
Insured ==
    phase \in {"recording", "draining", "failing", "finalize"} /\ ~cp.disabled
        => Recoverable \in cp.offset..size

\* A worker that reports "finalized" left the whole recording at the key,
\* once and in order, by whichever of its two ways and whatever failed before.
FinalizedIsComplete ==
    phase = "finalized" => Held(object) = size

Abstract == INSTANCE RecordingObject WITH recorded <- size, held <- Held(object)

\* Worker and recovery publish the object at most once, and it is always the
\* beginning of the recording: a Complete whose answer was lost is followed
\* by a put of the same bytes.
ImplementsRecording == Abstract!Spec

\* Once asked to stop the worker ends, whatever S3 refuses or loses.
ShutdownEnds ==
    phase \in {"draining", "failing"}
        ~> phase \in {"finalized", "failed", "crashed", "recovered"}

=============================================================================
