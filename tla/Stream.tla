------------------------------- MODULE Stream -------------------------------
(***************************************************************************)
(* One direction of a connection: concurrent StreamContext.Write calls on  *)
(* one side, StreamContext.Read calls on the other (network/stream), with  *)
(* the framing and the buffer pool of codec.                               *)
(*                                                                         *)
(* A write encodes its message into a buffer of the pool and hands it to   *)
(* the goroutine that owns the transport (contextRW.Run); a caller whose   *)
(* context ends stops waiting and releases the buffer, whatever that       *)
(* goroutine is doing with it.                                             *)
(*                                                                         *)
(* A frame is named <<writer, serial number>>.  On the transport it is two *)
(* cells, "head" (magic number and size) and "body" (header and message);  *)
(* a cell names the frame whose bytes it has.  All frames have one length: *)
(* the head of one followed by the body of another still reads as a frame. *)
(***************************************************************************)
EXTENDS Naturals, Sequences, SequencesExt

CONSTANTS
    Writer,     \* goroutines that write
    Control,    \* the writers of known protocol messages; others write data
    Buffer,     \* buffers of the pool
    Nil,
    MaxWrites,  \* messages written in a behaviour
    MaxReads,   \* calls of Read
    Usage       \* what may happen in a behaviour

ASSUME ControlAssumption == Control \subseteq Writer
ASSUME NilAssumption == Nil \notin Buffer /\ Nil \notin Writer
\* Callers whose context ends; reads that return less than asked for; the end of the
\* stream; a transport that is an io.Closer; a decode table that changes.
ASSUME UsageAssumption == Usage \subseteq SUBSET {"cancel", "short", "close", "closer", "routes"}

VARIABLES
    use, closed,                \* closed: the contexts of both ends have ended
    content, free,              \* the pool: what a buffer holds, buffers to be had
    wpc, wbuf, serial,          \* a writer: step, buffer; frames encoded so far
    gaveUp,     \* some write was given up
    run,        \* the writing goroutine: what it does, for whom, cells written
    nsent,      \* frames written so far
    wire,       \* cells that have not been read
    rpc, reads, head,           \* a reader: step, calls begun, the cell read last
    rrun,       \* the reading goroutine: "idle", "read" for its caller or "stale" for one, "done"
    routed,     \* the route of the data messages is in the decode table
    lost,       \* some call of Read has failed
    last,       \* place on the transport of the frame decoded last
    seen        \* per writer: serial number of its message decoded last

poolVars  == <<content, free>>
callVars  == <<wpc, wbuf, serial, gaveUp>>
writeSide == <<poolVars, callVars, run, nsent>>
readSide  == <<rpc, reads, head, rrun, lost, last, seen>>
vars == <<use, closed, writeSide, wire, readSide, routed>>

\* gone: the caller has given up; frame: the one it asked for.
Idle == [at |-> "idle", by |-> Nil, gone |-> FALSE, frame |-> Nil, buf |-> Nil, cells |-> <<>>]

Init ==
    /\ use \in Usage
    /\ closed = FALSE
    /\ content = [b \in Buffer |-> Nil]
    /\ free = Buffer
    /\ wpc = [w \in Writer |-> "idle"]
    /\ wbuf = [w \in Writer |-> Nil]
    /\ serial = 0
    /\ gaveUp = FALSE
    /\ run = Idle
    /\ nsent = 0
    /\ wire = <<>>
    /\ rpc = "idle"
    /\ reads = 0
    /\ head = Nil
    /\ rrun = "idle"
    /\ routed = TRUE
    /\ lost = FALSE
    /\ last = 0
    /\ seen = [w \in Writer |-> 0]

-----------------------------------------------------------------------------
(* Writers. *)

\* The close of a stream multiplies the states: one message less.
WriteBound == IF "close" \in use THEN MaxWrites - 1 ELSE MaxWrites

\* EncodeMessage: a buffer of the pool, filled with the frame.
Encode(w) ==
    /\ wpc[w] = "idle" /\ serial < WriteBound
    /\ \E b \in free :
        /\ free' = free \ {b}
        /\ content' = [content EXCEPT ![b] = <<w, serial + 1>>]
        /\ wbuf' = [wbuf EXCEPT ![w] = b]
    /\ serial' = serial + 1
    /\ wpc' = [wpc EXCEPT ![w] = "offer"]
    /\ UNCHANGED <<use, closed, gaveUp, run, nsent, wire, readSide, routed>>

\* Mutant of Accept: the buffer is released when it is handed over.
AcceptReleases(w) ==
    /\ wpc[w] = "offer" /\ run.at = "idle"
    /\ run' = [at |-> "write", by |-> w, gone |-> FALSE, frame |-> content[wbuf[w]],
               buf |-> wbuf[w], cells |-> <<>>]
    /\ wpc' = [wpc EXCEPT ![w] = "wait"]
    /\ free' = free \cup {wbuf[w]}
    /\ UNCHANGED <<use, closed, content, wbuf, serial, gaveUp, nsent, wire, readSide, routed>>

\* Request hands the buffer to the goroutine, which must be idle to take it.
Accept(w) ==
    /\ wpc[w] = "offer" /\ run.at = "idle"
    /\ run' = [at |-> "write", by |-> w, gone |-> FALSE, frame |-> content[wbuf[w]],
               buf |-> wbuf[w], cells |-> <<>>]
    /\ wpc' = [wpc EXCEPT ![w] = "wait"]
    /\ UNCHANGED <<use, closed, poolVars, wbuf, serial, gaveUp, nsent, wire, readSide, routed>>

\* The call returns and the buffer goes back to the pool.
Return(w) ==
    /\ wpc' = [wpc EXCEPT ![w] = "idle"]
    /\ free' = free \cup {wbuf[w]}
    /\ wbuf' = [wbuf EXCEPT ![w] = Nil]
    /\ UNCHANGED <<content, serial>>

\* The caller's context has ended, or the stream's (a send on the closed
\* request channel is recovered and ends the same way).
GiveUp(w) ==
    /\ wpc[w] \in {"offer", "wait"}
    /\ "cancel" \in use \/ closed
    /\ gaveUp' = TRUE
    /\ run' = [run EXCEPT !.gone = @ \/ wpc[w] = "wait"]
    /\ Return(w)
    /\ UNCHANGED <<use, closed, nsent, wire, readSide, routed>>

\* rw.Write, in two parts: what goes out is what the buffer holds by then.
WritePart ==
    /\ run.at = "write"
    /\ LET f     == content[run.buf]
           first == run.cells = <<>>
       IN /\ wire' = Append(wire, [part |-> IF first THEN "head" ELSE "body", frame |-> f,
                                   place |-> nsent + 1])
          /\ run' = [run EXCEPT !.cells = Append(@, f), !.at = IF first THEN "write" ELSE "result"]
          /\ nsent' = IF first THEN nsent ELSE nsent + 1
    /\ UNCHANGED <<use, closed, poolVars, callVars, readSide, routed>>

\* Close closes the transport, when it can be closed, and fails the write.
WriteFails ==
    /\ run.at = "write" /\ closed /\ "closer" \in use
    /\ run' = [run EXCEPT !.at = "result"]
    /\ UNCHANGED <<use, closed, poolVars, callVars, nsent, wire, readSide, routed>>

\* The result reaches the caller that still waits for it.
Deliver(w) ==
    /\ run.at = "result" /\ run.by = w /\ ~run.gone
    /\ run' = Idle
    /\ Return(w)
    /\ UNCHANGED <<use, closed, gaveUp, nsent, wire, readSide, routed>>

\* Mutant of Discard: the goroutine waits for its own context, not the caller's.
DiscardWhenClosed ==
    /\ run.at = "result" /\ run.gone /\ closed
    /\ run' = Idle
    /\ UNCHANGED <<use, closed, poolVars, callVars, nsent, wire, readSide, routed>>

\* The caller is gone, its context being over.
Discard ==
    /\ run.at = "result" /\ run.gone
    /\ run' = Idle
    /\ UNCHANGED <<use, closed, poolVars, callVars, nsent, wire, readSide, routed>>

\* Mutant of RunnerStops: waiting for a request, it does not see its context end.
RunnerStopsBusy ==
    /\ closed /\ run.at = "result"
    /\ run' = [Idle EXCEPT !.at = "done"]
    /\ UNCHANGED <<use, closed, poolVars, callVars, nsent, wire, readSide, routed>>

RunnerStops ==
    /\ closed /\ run.at \in {"idle", "result"}
    /\ run' = [Idle EXCEPT !.at = "done"]
    /\ UNCHANGED <<use, closed, poolVars, callVars, nsent, wire, readSide, routed>>

-----------------------------------------------------------------------------
(* The reader. *)

BeginRead ==
    /\ rpc = "idle" /\ reads < MaxReads
    /\ reads' = reads + 1
    /\ rpc' = "wait"
    /\ head' = Nil
    /\ UNCHANGED <<use, closed, writeSide, wire, rrun, routed, lost, last, seen>>

\* The goroutine takes a request for the head or the body and blocks in rw.Read.
TakeRead ==
    /\ rpc = "wait" /\ rrun = "idle"
    /\ rrun' = "read"
    /\ UNCHANGED <<use, closed, writeSide, wire, rpc, reads, head, routed, lost, last, seen>>

FailRead == rpc' = "idle" /\ lost' = TRUE /\ UNCHANGED <<reads, head, last, seen>>

\* The head first, then the body, for the caller that waits.  A head has its
\* magic number, a body is as long as its head says.
ReadPart ==
    /\ rpc = "wait" /\ rrun = "read" /\ wire # <<>>
    /\ wire' = Tail(wire)
    /\ rrun' = "idle"
    /\ LET want == IF head = Nil THEN "head" ELSE "body"
           c    == Head(wire)
       IN IF c.part = want
          THEN /\ head' = c
               /\ rpc' = IF want = "head" THEN "wait" ELSE "decode"
               /\ UNCHANGED <<reads, lost, last, seen>>
          ELSE FailRead
    /\ UNCHANGED <<use, closed, writeSide, routed>>

\* The transport returns less than asked for: an error.  The rest stays.
ShortRead ==
    /\ "short" \in use
    /\ rpc = "wait" /\ rrun = "read" /\ wire # <<>>
    /\ wire' = [wire EXCEPT ![1].part = "rest"]
    /\ rrun' = "idle"
    /\ FailRead
    /\ UNCHANGED <<use, closed, writeSide, routed>>

\* The caller's context ends; when the goroutine is reading for it, it goes on.
GiveUpRead ==
    /\ rpc = "wait"
    /\ "cancel" \in use \/ closed
    /\ FailRead
    /\ rrun' = IF rrun = "read" THEN "stale" ELSE rrun
    /\ UNCHANGED <<use, closed, writeSide, wire, routed>>

\* What was read for a caller that is gone is lost.
StaleRead ==
    /\ rrun = "stale" /\ wire # <<>>
    /\ wire' = Tail(wire)
    /\ rrun' = "idle"
    /\ UNCHANGED <<use, closed, writeSide, rpc, reads, head, routed, lost, last, seen>>

\* The reading goroutine ends between two requests; only a transport that can be
\* closed fails the read it is in, any other keeps it there ("the read/write
\* loop will be leaked if Read/Write blocks").
ReaderStops ==
    /\ closed /\ (rrun = "idle" \/ (rrun \in {"read", "stale"} /\ "closer" \in use))
    /\ rrun' = "done"
    /\ UNCHANGED <<use, closed, writeSide, wire, rpc, reads, head, routed, lost, last, seen>>

\* NewMessage: the types of the protocol itself have a number, data has none.
Known(f) == f[1] \in Control

\* A handler may consume a message of the protocol; Read goes on then.
Handled(f) == {"idle"} \cup (IF Known(f) THEN {"wait"} ELSE {})

See(f) == [seen EXCEPT ![f[1]] = f[2]]

\* Mutant of Decode: a message without a route is skipped silently.
DecodeSkips ==
    /\ rpc = "decode"
    /\ head' = Nil
    /\ IF Known(head.frame) \/ routed
       THEN last' = head.place /\ rpc' = "idle" /\ seen' = See(head.frame)
       ELSE rpc' = "wait" /\ UNCHANGED <<last, seen>>
    /\ UNCHANGED <<use, closed, writeSide, wire, reads, lost, rrun, routed>>

\* DecodeMessage: known types always, data only by the routes of the table.
Decode ==
    /\ rpc = "decode"
    /\ IF Known(head.frame) \/ routed
       THEN /\ last' = head.place
            /\ seen' = See(head.frame)
            /\ rpc' \in Handled(head.frame)
            /\ head' = Nil
            /\ UNCHANGED <<reads, lost>>
       ELSE FailRead
    /\ UNCHANGED <<use, closed, writeSide, wire, rrun, routed>>

-----------------------------------------------------------------------------
AddRoute ==
    /\ "routes" \in use /\ ~routed
    /\ routed' = TRUE
    /\ UNCHANGED <<use, closed, writeSide, wire, readSide>>

DelRoute ==
    /\ "routes" \in use /\ routed
    /\ routed' = FALSE
    /\ UNCHANGED <<use, closed, writeSide, wire, readSide>>

\* Stream.Close, or the end of the context the stream was made with.
Close ==
    /\ "close" \in use /\ ~closed
    /\ closed' = TRUE
    /\ UNCHANGED <<use, writeSide, wire, readSide, routed>>

RunnerNext == WritePart \/ WriteFails \/ Discard \/ RunnerStops \/ \E w \in Writer : Deliver(w)
ReaderNext == TakeRead \/ ReadPart \/ ShortRead \/ StaleRead \/ ReaderStops \/ Decode

Next ==
    \/ \E w \in Writer : Encode(w) \/ Accept(w) \/ GiveUp(w)
    \/ RunnerNext \/ ReaderNext
    \/ BeginRead \/ GiveUpRead \/ AddRoute \/ DelRoute \/ Close

Spec == Init /\ [][Next]_vars

\* The goroutines run, the transport takes what is written, callers notice that
\* their stream was closed.  Senders blocked on a channel are served in turn.
\* Nothing makes a peer send: a read may block for ever.
FairSpec ==
    /\ Spec
    /\ WF_vars(RunnerNext)
    /\ WF_vars(ReaderStops)
    /\ \A w \in Writer : SF_vars(Accept(w)) /\ WF_vars(closed /\ GiveUp(w))

-----------------------------------------------------------------------------
(* Properties. *)

\* The bytes of a write are its own as long as its caller waits for it, also
\* when other callers give up and their buffers are used again while the
\* goroutine still writes from them (Release in StreamContext.Write).
OwnFrameIntact ==
    ~run.gone => \A k \in DOMAIN run.cells : run.cells[k] = run.frame

\* Frames are decoded in the order of the transport, whatever reads fail in
\* between, and none is left out before a Read has failed (ReadMessage,
\* DecodeMessage).  As long as no write has been given up they are the messages: those of
\* one writer come in the order of its writes and none comes twice.  A write that
\* is given up may still go out, with what another writer has put into the
\* buffer meanwhile, and that message then comes twice.
DecodedInOrder ==
    [][last' # last => /\ last' > last
                       /\ ~lost => last' = last + 1
                       /\ ~gaveUp => head.frame[2] > seen[head.frame[1]]]_vars

\* A write is done in the end, whoever gave up before it: no result blocks
\* the goroutine for ever (the select on r.ctx in contextRW.Run).
WritesServed == \A w \in Writer : (wpc[w] = "offer") ~> (wpc[w] = "idle")

\* After Close both goroutines end, with requests still coming in; the one that
\* reads may stay only in the rw.Read of a transport that Close cannot close.
RunnersEnd ==
    closed ~> [](/\ run.at = "done"
                 /\ rrun = "done" \/ (rrun \in {"read", "stale"} /\ "closer" \notin use))
=============================================================================
