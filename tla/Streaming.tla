------------------------------ MODULE Streaming ------------------------------
(***************************************************************************)
(* A streamed answer from the provider to the client: the relay loop of    *)
(* module Stream, and in front of it the provider's ChatCompletionStream.  *)
(*                                                                         *)
(* Ollama, Gemini, Bedrock and the mock translate their own format in a    *)
(* goroutine that writes server-sent events into an io.Pipe; the others    *)
(* hand out the body of the upstream response ("raw").  A pipe write       *)
(* returns when all of it has been read, or the reader has been closed.    *)
(*                                                                         *)
(* The upstream answer is a number of pieces; a piece becomes one event.   *)
(***************************************************************************)
EXTENDS Stream

CONSTANTS Providers,   \* kinds of provider: subset of Kinds
          Pieces,      \* pieces of the upstream answer
          EventSizes   \* sizes of the events written, in bytes

Kinds == {"ollama", "gemini", "bedrock", "mock", "raw"}

ASSUME StreamingAssumption ==
    /\ Providers \subseteq Kinds
    /\ Pieces \in Nat
    /\ EventSizes \subseteq Nat \ {0}

VARIABLES
    prov,       \* the provider RouteStream has settled on
    left,       \* pieces still to come from upstream
    gpc,        \* the goroutine: next (reads upstream), write, closed
    event,      \* what it is writing: piece, final, [DONE]
    pending,    \* bytes of it that are not read yet
    gone,       \* has the client gone away?
    delivered,  \* history: pieces all of whose event was relayed
    dropped,    \* history: pieces the goroutine could not parse
    sawDone     \* history: [DONE] was relayed

relay == vars
pipe == <<left, gpc, event, pending>>
seen == <<delivered, dropped, sawDone>>
svars == <<relay, prov, pipe, gone, seen>>

StreamingTypeOK ==
    /\ TypeOK
    /\ prov \in Kinds
    /\ left \in 0 .. Pieces
    /\ gpc \in {"next", "write", "closed"}
    /\ event \in {"piece", "final", "[DONE]"}
    /\ pending \in Nat
    /\ gone \in BOOLEAN /\ sawDone \in BOOLEAN
    /\ delivered \in 0 .. Pieces /\ dropped \in 0 .. Pieces

StreamingInit ==
    /\ Init
    /\ prov \in Providers
    /\ left = Pieces
    /\ gpc = IF prov = "raw" THEN "closed" ELSE "next"
    /\ event = "piece" /\ pending = 0
    /\ gone = FALSE
    /\ delivered = 0 /\ dropped = 0 /\ sawDone = FALSE

-----------------------------------------------------------------------------
(* The goroutine *)

\* Mutant of ReaderClosed: handleStream does not close the stream.
ReaderClosedNever == FALSE

\* The relay is over, and its deferred stream.Close() has run.
ReaderClosed == pc # "reading"

\* The request's context: the client's, and net/http cancels it as well when
\* the handler has returned.
Cancelled == gone \/ ReaderClosed

Writes(e, n) == gpc' = "write" /\ event' = e /\ pending' = n

\* The next piece is read from upstream and its event written.  The mock asks
\* the context first; Ollama and Gemini may still have the piece buffered.
NextPiece(n) ==
    /\ gpc = "next" /\ left > 0
    /\ prov = "mock" => ~Cancelled
    /\ left' = left - 1
    /\ Writes("piece", n)
    /\ UNCHANGED <<relay, prov, gone, seen>>

\* Gemini: what one Read has returned is not exactly one whole JSON event, so
\* Unmarshal fails and it is passed over.
Unparsed ==
    /\ prov = "gemini"
    /\ gpc = "next" /\ left > 0
    /\ left' = left - 1
    /\ dropped' = dropped + 1
    /\ UNCHANGED <<relay, prov, gpc, event, pending, gone, delivered, sawDone>>

\* Upstream is through (Ollama: the piece with done set; Gemini: io.EOF).
Finish(n) ==
    /\ gpc = "next" /\ left = 0
    /\ Writes("final", n)
    /\ UNCHANGED <<relay, prov, left, gone, seen>>

\* Mutant of Break: any end of the upstream body is taken for the end of the
\* answer.
BreakAsFinish ==
    /\ gpc = "next"
    /\ \/ prov \in {"ollama", "gemini"}
       \/ prov = "mock" /\ Cancelled /\ left > 0
    /\ \E n \in EventSizes : Writes("final", n)
    /\ UNCHANGED <<relay, prov, left, gone, seen>>

\* The upstream body fails (connection lost, timeout, context cancelled), or
\* the mock finds the context done: the goroutine closes the pipe and ends.
Break ==
    /\ gpc = "next"
    /\ \/ prov \in {"ollama", "gemini"}
       \/ prov = "mock" /\ Cancelled /\ left > 0
    /\ gpc' = "closed"
    /\ UNCHANGED <<relay, prov, left, event, pending, gone, seen>>

\* A write has returned: on to the next piece, or from the final event to
\* [DONE], or to the deferred Close.
Written(n) ==
    \/ event = "piece" /\ gpc' = "next" /\ pending' = 0 /\ UNCHANGED event
    \/ event = "final" /\ Writes("[DONE]", n)
    \/ event = "[DONE]" /\ gpc' = "closed" /\ pending' = 0 /\ UNCHANGED event

\* The write fails with io.ErrClosedPipe, and nobody looks at the error.
WriteFails(n) ==
    /\ gpc = "write" /\ ReaderClosed
    /\ Written(n)
    /\ UNCHANGED <<relay, prov, left, gone, seen>>

-----------------------------------------------------------------------------
(* The relay *)

\* A pipe read takes what is left of one write, or a bufferful of it.
Chunk == IF pending < ReadSize THEN pending ELSE ReadSize

\* stream.Read on the pipe, and the rest of the loop's turn.
PipeRead(bad, n) ==
    /\ gpc = "write"
    /\ Read(Chunk, bad, FALSE)
    /\ \/ /\ Chunk < pending
          /\ pending' = pending - Chunk
          /\ UNCHANGED <<gpc, event, seen>>
       \/ /\ Chunk = pending
          /\ Written(n)
          /\ delivered' = IF event = "piece" THEN delivered + 1 ELSE delivered
          /\ sawDone' = (sawDone \/ event = "[DONE]")
          /\ UNCHANGED dropped
    /\ UNCHANGED <<prov, left, gone>>

\* The pipe is closed, or the raw body ends or fails.
EndOfStream ==
    /\ gpc = "closed"
    /\ End
    /\ UNCHANGED <<prov, pipe, gone, seen>>

\* stream.Read on an upstream body.
BodyRead(n, bad, eof) ==
    /\ prov = "raw" /\ left > 0
    /\ Read(n, bad, eof)
    /\ left' = left - 1
    /\ UNCHANGED <<prov, gpc, event, pending, gone, seen>>

ClientGoesAway ==
    /\ ~gone /\ ~ReaderClosed
    /\ gone' = TRUE
    /\ UNCHANGED <<relay, prov, pipe, seen>>

Producer ==
    \/ \E n \in EventSizes : NextPiece(n) \/ Finish(n) \/ WriteFails(n)
    \/ Unparsed
    \/ Break

Relay ==
    \/ \E bad \in BOOLEAN, n \in EventSizes : PipeRead(bad, n)
    \/ \E n \in 1 .. ReadSize, bad, eof \in BOOLEAN : BodyRead(n, bad, eof)
    \/ EndOfStream

StreamingNext == Producer \/ Relay \/ ClientGoesAway

StreamingSpec == StreamingInit /\ [][StreamingNext]_svars

\* Both goroutines are scheduled; upstream reads return (the providers' HTTP
\* clients have timeouts), and so do writes to the client's connection.
StreamingLiveSpec ==
    StreamingSpec /\ WF_svars(Producer) /\ WF_svars(Relay)

-----------------------------------------------------------------------------
(* Properties *)

\* A client that is sent [DONE] has been sent the whole answer: neither an
\* upstream connection that breaks, nor a policy that cuts the stream, nor a
\* client that leaves ends in [DONE].  (Pieces Gemini's translation cannot
\* parse are missing all the same.)
DoneMeansComplete == sawDone => delivered + dropped = Pieces

\* Every stream ends, and takes the provider's goroutine with it, also when
\* the policy cuts it while the goroutine is in the middle of a write.
StreamsEnd == <>(ReaderClosed /\ gpc = "closed")

-----------------------------------------------------------------------------
(* The inductive invariant behind the theorems of StreamProofs *)

\* A write in progress has something left to read, so a read of the pipe
\* returns at least a byte.
WriteUnread == gpc = "write" => pending \in Nat \ {0}

\* The piece in the write in progress, if any.
InWrite == IF gpc = "write" /\ event = "piece" THEN 1 ELSE 0

\* While the relay runs, each piece is still to come, in the write in progress,
\* delivered or passed over; and the last events follow the last piece.
PiecesAccounted ==
    /\ left \in Nat /\ delivered \in Nat /\ dropped \in Nat
    /\ prov = "raw" => gpc = "closed"
    /\ event # "piece" => left = 0
    /\ sawDone => gpc = "closed" /\ delivered + dropped = Pieces
    /\ prov # "raw" /\ pc = "reading" =>
        left + delivered + dropped + InWrite = Pieces

PipeInv == WriteUnread /\ PiecesAccounted

\* The types of the pipe and of what is remembered of it.  No piece is counted
\* twice, also after the relay has ended and while the goroutine goes on.
PipeTypes ==
    /\ prov \in Kinds
    /\ gpc \in {"next", "write", "closed"}
    /\ event \in {"piece", "final", "[DONE]"}
    /\ pending \in Nat
    /\ gone \in BOOLEAN /\ sawDone \in BOOLEAN
    /\ left + delivered + dropped + InWrite <= Pieces
=============================================================================
