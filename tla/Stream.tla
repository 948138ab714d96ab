-------------------------------- MODULE Stream --------------------------------
(***************************************************************************)
(* handleStream's relay loop (internal/gateway/handler.go): every chunk is *)
(* written and flushed to the client first, then accumulated; the output   *)
(* policy sees what has accumulated each time checkInterval more bytes     *)
(* have gone out.                                                          *)
(*                                                                         *)
(* Of the content, the model keeps whether the engine would block the text *)
(* accumulated so far.  That may change with every chunk, in both          *)
(* directions: CheckOutput returns the first violation of any action, so a *)
(* warn or log filter that stands ahead of a blocking one masks it as soon *)
(* as it finds something itself, and patterns may look at the end of the   *)
(* text.                                                                   *)
(***************************************************************************)
EXTENDS Integers

CONSTANTS CheckInterval,  \* check policy every N bytes (500)
          ReadSize        \* size of the read buffer (4096)

ASSUME StreamAssumption == CheckInterval \in Nat \ {0} /\ ReadSize \in Nat \ {0}

VARIABLES
    pc,            \* reading, done (stream closed), cut (ended by the policy's error event)
    bytesScanned,  \* bytes relayed since the last check
    offending,     \* would the engine block the text accumulated so far?
    exposed        \* history: bytes relayed since it would, from that chunk on

vars == <<pc, bytesScanned, offending, exposed>>

TypeOK ==
    /\ pc \in {"reading", "done", "cut"}
    /\ bytesScanned \in Nat
    /\ offending \in BOOLEAN
    /\ exposed \in Nat

Init ==
    /\ pc = "reading"
    /\ bytesScanned = 0
    /\ offending = FALSE
    /\ exposed = 0

\* Mutant of Due: this chunk is left out of the count.
DueLate(n) == bytesScanned >= CheckInterval

\* Is CheckOutput called on the text accumulated with this chunk?
Due(n) == bytesScanned + n >= CheckInterval

\* Mutant of Relayed: the excess is carried over with the wrong sign.
RelayedCarry(n, bad) ==
    /\ offending' = bad
    /\ exposed' = IF bad THEN exposed + n ELSE 0
    /\ bytesScanned' = IF Due(n) THEN CheckInterval - (bytesScanned + n)
                       ELSE bytesScanned + n

\* A chunk of n bytes goes out; bad: the engine would block the text with it.
Relayed(n, bad) ==
    /\ offending' = bad
    /\ exposed' = IF bad THEN exposed + n ELSE 0
    /\ bytesScanned' = IF Due(n) THEN 0 ELSE bytesScanned + n

\* stream.Read returns data, and with the last of it possibly io.EOF.
Read(n, bad, eof) ==
    /\ pc = "reading"
    /\ Relayed(n, bad)
    /\ \/ /\ Due(n) /\ bad
          /\ pc' = "cut"
       \/ /\ ~(Due(n) /\ bad)
          /\ pc' = IF eof THEN "done" ELSE "reading"

\* stream.Read returns no data: io.EOF, or an error such as the client's
\* context having been cancelled.
End ==
    /\ pc = "reading"
    /\ pc' = "done"
    /\ UNCHANGED <<bytesScanned, offending, exposed>>

Next ==
    \/ \E n \in 1 .. ReadSize, bad, eof \in BOOLEAN : Read(n, bad, eof)
    \/ End

Spec == Init /\ [][Next]_vars

-----------------------------------------------------------------------------
(* Properties *)

\* However the reads fall, fewer than checkInterval bytes plus one read reach
\* the client while the engine would block what it has been sent, and as many
\* as checkInterval only if the stream is then cut: a stream that goes on, or
\* comes to its end, has let out less.  (The engine's word counts: what a
\* blocking filter would say behind a warning one is not heard, and nothing
\* bounds what is sent then; the rest of a stream after its last check is
\* never judged.)
ExposureBounded ==
    /\ exposed < CheckInterval + ReadSize
    /\ exposed >= CheckInterval => pc = "cut"

-----------------------------------------------------------------------------
(* Inductive invariant: between reads, what the engine would block is        *)
(* younger than the last check, so it is still counted in bytesScanned.      *)

Unchecked ==
    pc = "reading" => /\ bytesScanned < CheckInterval
                      /\ exposed <= bytesScanned

IndInv == TypeOK /\ Unchecked /\ ExposureBounded
=============================================================================
