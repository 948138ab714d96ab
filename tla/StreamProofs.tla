---------------------------- MODULE StreamProofs ----------------------------
(***************************************************************************)
(* How much blocked content a stream can let out, for every check interval *)
(* and every size of the read buffer, and what [DONE] tells the client, for *)
(* every provider and every number and size of events.                     *)
(*                                                                         *)
(* Then the router, which settles on the provider a request or a stream is *)
(* sent to, for every configuration of providers, routes and rollouts.     *)
(***************************************************************************)
EXTENDS Streaming, Router, SumTheorems, TLAPS

\* A read keeps the invariant: either the check is due and resets the count
\* of a clean stream, or the chunk is still in the count.
LEMMA ReadKeeps ==
    ASSUME IndInv, NEW n \in 1 .. ReadSize, NEW bad \in BOOLEAN, NEW eof \in BOOLEAN,
           Read(n, bad, eof)
    PROVE  IndInv'
<1> USE StreamAssumption DEF StreamAssumption
<1>1. /\ n \in Nat /\ n <= ReadSize /\ ReadSize \in Nat /\ CheckInterval \in Nat
      /\ bytesScanned \in Nat /\ exposed \in Nat
      /\ bytesScanned < CheckInterval
      /\ exposed <= bytesScanned
  BY DEF IndInv, TypeOK, Unchecked, Read
<1>2. offending' \in BOOLEAN /\ pc' \in {"reading", "done", "cut"}
  BY DEF Read, Relayed
<1>3. /\ exposed' \in Nat
      /\ bytesScanned' \in Nat
      /\ exposed' <= exposed + n
  BY <1>1 DEF Read, Relayed, Due
<1>5. ASSUME pc' = "reading"
      PROVE  bytesScanned' < CheckInterval /\ exposed' <= bytesScanned'
  <2>1. CASE Due(n)
    <3>1. ~bad /\ bytesScanned' = 0
      BY <1>5, <2>1 DEF Read, Relayed
    <3>2. exposed' = 0
      BY <3>1 DEF Read, Relayed
    <3> QED
      BY <3>1, <3>2
  <2>2. CASE ~Due(n)
    <3>1. bytesScanned' = bytesScanned + n
      BY <2>2 DEF Read, Relayed
    <3>2. bytesScanned + n < CheckInterval
      BY <1>1, <2>2 DEF Due
    <3> QED
      BY <1>1, <1>3, <3>1, <3>2
  <2> QED
    BY <2>1, <2>2
<1>6. exposed' >= CheckInterval => pc' = "cut"
  <2>1. CASE Due(n) /\ bad
    BY <2>1 DEF Read
  <2>2. CASE ~bad
    BY <1>1, <2>2 DEF Read, Relayed
  <2>3. CASE ~Due(n)
    BY <1>1, <1>3, <2>3 DEF Due
  <2> QED
    BY <2>1, <2>2, <2>3
<1>7. ExposureBounded'
  BY <1>1, <1>3, <1>6 DEF ExposureBounded
<1> QED
  BY <1>2, <1>3, <1>5, <1>6, <1>7 DEF IndInv, TypeOK, Unchecked

\* The inductive invariant holds in every reachable state.
THEOREM StreamInvariant == Spec => []IndInv
<1>1. Init => IndInv
  <2> SUFFICES ASSUME Init PROVE IndInv
    OBVIOUS
  <2>1. bytesScanned = 0 /\ exposed = 0 /\ offending \in BOOLEAN /\ pc = "reading"
    BY DEF Init
  <2>2. TypeOK
    BY <2>1 DEF TypeOK
  <2>3. Unchecked /\ ExposureBounded
    BY <2>1, StreamAssumption DEF StreamAssumption, Unchecked, ExposureBounded
  <2> QED
    BY <2>2, <2>3 DEF IndInv
<1>2. ASSUME IndInv, [Next]_vars
      PROVE  IndInv'
  <2>1. CASE End
    BY <1>2, <2>1 DEF End, IndInv, TypeOK, Unchecked, ExposureBounded
  <2>2. CASE UNCHANGED vars
    BY <1>2, <2>2 DEF vars, IndInv, TypeOK, Unchecked, ExposureBounded
  <2> QED
    BY <1>2, <2>1, <2>2, ReadKeeps DEF Next
<1> QED
  BY <1>1, <1>2, PTL DEF Spec

\* The relay loop's variables keep their types.
THEOREM StreamTypes == Spec => []TypeOK
<1>1. IndInv => TypeOK
  BY DEF IndInv
<1> QED
  BY <1>1, StreamInvariant, PTL

\* Fewer than checkInterval bytes plus one read go out while the engine would
\* block the text, and fewer than checkInterval unless the stream is cut.
THEOREM StreamExposure == Spec => []ExposureBounded
<1>1. IndInv => ExposureBounded
  BY DEF IndInv
<1> QED
  BY <1>1, StreamInvariant, PTL

-----------------------------------------------------------------------------
(* The provider's goroutine and the pipe *)

\* A read of a pipe with a write in progress returns at most a bufferful, and
\* something.
LEMMA ChunkSize ==
    ASSUME WriteUnread, gpc = "write"
    PROVE  /\ Chunk \in 1 .. ReadSize
           /\ Chunk < pending => pending - Chunk \in Nat \ {0}
BY StreamAssumption DEF StreamAssumption, WriteUnread, Chunk

\* What the goroutine writes is never empty.
LEMMA WritesUnread ==
    ASSUME NEW e, NEW n \in EventSizes, Writes(e, n)
    PROVE  WriteUnread'
BY StreamingAssumption DEF StreamingAssumption, Writes, WriteUnread

LEMMA WrittenUnread ==
    ASSUME NEW n \in EventSizes, Written(n)
    PROVE  WriteUnread'
BY WritesUnread DEF Written, WriteUnread

LEMMA UnreadStep ==
    ASSUME WriteUnread, [StreamingNext]_svars
    PROVE  WriteUnread'
<1>1. ASSUME NEW n \in EventSizes, NextPiece(n) \/ Finish(n) \/ WriteFails(n)
      PROVE  WriteUnread'
  BY <1>1, WritesUnread, WrittenUnread DEF NextPiece, Finish, WriteFails
<1>2. ASSUME NEW bad \in BOOLEAN, NEW n \in EventSizes, PipeRead(bad, n)
      PROVE  WriteUnread'
  <2>1. CASE Written(n)
    BY <2>1, WrittenUnread
  <2>2. CASE Chunk < pending /\ pending' = pending - Chunk
    BY <1>2, <2>2, ChunkSize DEF PipeRead, WriteUnread
  <2> QED
    BY <1>2, <2>1, <2>2 DEF PipeRead
<1>3. CASE Unparsed \/ Break \/ EndOfStream \/ ClientGoesAway \/ UNCHANGED svars
  BY <1>3 DEF Unparsed, Break, EndOfStream, ClientGoesAway, WriteUnread, pipe, svars
<1>4. ASSUME NEW n \in 1 .. ReadSize, NEW bad \in BOOLEAN, NEW eof \in BOOLEAN,
             BodyRead(n, bad, eof)
      PROVE  WriteUnread'
  BY <1>4 DEF BodyRead, WriteUnread
<1> QED
  BY <1>1, <1>2, <1>3, <1>4 DEF StreamingNext, Producer, Relay

\* Pieces move from upstream to the write and from there to the client.
LEMMA PiecesStep ==
    ASSUME WriteUnread, PiecesAccounted, [StreamingNext]_svars
    PROVE  PiecesAccounted'
<1>1. ASSUME NEW n \in EventSizes, NextPiece(n)
      PROVE  PiecesAccounted'
  <2>1. /\ left \in Nat /\ left > 0 /\ left' = left - 1 /\ gpc = "next"
        /\ gpc' = "write" /\ event' = "piece"
        /\ UNCHANGED <<pc, prov, delivered, dropped, sawDone>>
    BY <1>1 DEF NextPiece, Writes, relay, vars, seen, PiecesAccounted
  <2> QED
    BY <2>1 DEF PiecesAccounted, InWrite
<1>2. ASSUME NEW n \in EventSizes, Finish(n)
      PROVE  PiecesAccounted'
  <2>1. /\ left = 0 /\ left' = left /\ gpc = "next"
        /\ gpc' = "write" /\ event' = "final"
        /\ UNCHANGED <<pc, prov, delivered, dropped, sawDone>>
    BY <1>2 DEF Finish, Writes, relay, vars, seen
  <2> QED
    BY <2>1 DEF PiecesAccounted, InWrite
<1>3. CASE Unparsed
  <2>1. /\ left > 0 /\ left' = left - 1 /\ gpc = "next" /\ dropped' = dropped + 1
        /\ UNCHANGED <<pc, prov, gpc, event, delivered, sawDone>>
    BY <1>3 DEF Unparsed, relay, vars
  <2> QED
    BY <2>1 DEF PiecesAccounted, InWrite
<1>4. CASE Break
  <2>1. /\ gpc = "next" /\ gpc' = "closed"
        /\ UNCHANGED <<pc, prov, left, event, delivered, dropped, sawDone>>
    BY <1>4 DEF Break, relay, vars, seen
  <2> QED
    BY <2>1 DEF PiecesAccounted, InWrite
<1>5. ASSUME NEW n \in EventSizes, WriteFails(n)
      PROVE  PiecesAccounted'
  <2>1. /\ gpc = "write" /\ pc # "reading" /\ Written(n)
        /\ UNCHANGED <<pc, prov, left, delivered, dropped, sawDone>>
    BY <1>5 DEF WriteFails, ReaderClosed, relay, vars, seen
  <2> QED
    BY <2>1 DEF PiecesAccounted, Written, Writes
<1>6. ASSUME NEW bad \in BOOLEAN, NEW n \in EventSizes, PipeRead(bad, n)
      PROVE  PiecesAccounted'
  <2>1. /\ gpc = "write" /\ pc = "reading" /\ prov # "raw" /\ ~sawDone
        /\ UNCHANGED <<prov, left>>
    BY <1>6 DEF PipeRead, Read, PiecesAccounted
  <2>2. CASE UNCHANGED <<gpc, event, seen>>
    BY <2>1, <2>2 DEF PiecesAccounted, InWrite, seen
  <2>3. CASE /\ Written(n)
             /\ delivered' = IF event = "piece" THEN delivered + 1 ELSE delivered
             /\ sawDone' = (sawDone \/ event = "[DONE]")
             /\ UNCHANGED dropped
    <3>1. left + delivered + dropped + InWrite = Pieces
      BY <2>1 DEF PiecesAccounted
    <3>2. CASE event = "piece"
      <4>1. /\ gpc' = "next" /\ event' = "piece" /\ delivered' = delivered + 1
            /\ ~sawDone' /\ dropped' = dropped
        BY <2>1, <2>3, <3>2 DEF Written
      <4> QED
        BY <2>1, <3>1, <3>2, <4>1 DEF PiecesAccounted, InWrite
    <3>3. CASE event = "final"
      <4>1. /\ gpc' = "write" /\ event' = "[DONE]" /\ delivered' = delivered
            /\ ~sawDone' /\ dropped' = dropped
        BY <2>1, <2>3, <3>3 DEF Written, Writes
      <4> QED
        BY <2>1, <3>1, <3>3, <4>1 DEF PiecesAccounted, InWrite
    <3>4. CASE event = "[DONE]"
      <4>1. /\ gpc' = "closed" /\ event' = event /\ delivered' = delivered
            /\ dropped' = dropped
        BY <2>3, <3>4 DEF Written
      <4> QED
        BY <2>1, <3>1, <3>4, <4>1 DEF PiecesAccounted, InWrite
    <3> QED
      BY <2>3, <3>2, <3>3, <3>4 DEF Written
  <2> QED
    BY <1>6, <2>2, <2>3 DEF PipeRead
<1>7. CASE EndOfStream
  <2>1. pc' # "reading" /\ UNCHANGED <<prov, left, gpc, event, delivered, dropped, sawDone>>
    BY <1>7 DEF EndOfStream, End, pipe, seen
  <2> QED
    BY <2>1 DEF PiecesAccounted
<1>8. ASSUME NEW n \in 1 .. ReadSize, NEW bad \in BOOLEAN, NEW eof \in BOOLEAN,
             BodyRead(n, bad, eof)
      PROVE  PiecesAccounted'
  <2>1. /\ prov = "raw" /\ left > 0 /\ left' = left - 1
        /\ UNCHANGED <<prov, gpc, event, delivered, dropped, sawDone>>
    BY <1>8 DEF BodyRead, seen
  <2> QED
    BY <2>1 DEF PiecesAccounted
<1>9. CASE ClientGoesAway \/ UNCHANGED svars
  <2>1. UNCHANGED <<pc, prov, left, gpc, event, delivered, dropped, sawDone>>
    BY <1>9 DEF ClientGoesAway, svars, relay, vars, pipe, seen
  <2> QED
    BY <2>1 DEF PiecesAccounted, InWrite
<1> QED
  BY <1>1, <1>2, <1>3, <1>4, <1>5, <1>6, <1>7, <1>8, <1>9
  DEF StreamingNext, Producer, Relay

\* What the pipe holds and where the pieces are, in every reachable state.
THEOREM PipeInvariant == StreamingSpec => []PipeInv
<1>1. StreamingInit => PipeInv
  BY StreamingAssumption
  DEF StreamingAssumption, StreamingInit, PipeInv, WriteUnread, PiecesAccounted, InWrite
<1>2. PipeInv /\ [StreamingNext]_svars => PipeInv'
  BY UnreadStep, PiecesStep DEF PipeInv
<1> QED
  BY <1>1, <1>2, PTL DEF StreamingSpec

\* A client that is sent [DONE] has been sent every piece of the answer that
\* could be parsed, however streams break, are cut or are abandoned.
THEOREM StreamingComplete == StreamingSpec => []DoneMeansComplete
<1>1. PipeInv => DoneMeansComplete
  BY DEF PipeInv, PiecesAccounted, DoneMeansComplete
<1> QED
  BY <1>1, PipeInvariant, PTL

\* The relay behind a provider's goroutine implements module Stream.
LEMMA StreamingRefinesStream == StreamingSpec => Spec
<1>1. StreamingInit => Init
  BY DEF StreamingInit
<1>2. ASSUME PipeInv, [StreamingNext]_svars
      PROVE  [Next]_vars
  <2>1. ASSUME NEW bad \in BOOLEAN, NEW n \in EventSizes, PipeRead(bad, n)
        PROVE  Next
    <3>1. Chunk \in 1 .. ReadSize
      BY <1>2, <2>1, ChunkSize DEF PipeRead, PipeInv
    <3>2. Read(Chunk, bad, FALSE)
      BY <2>1 DEF PipeRead
    <3> QED
      BY <3>1, <3>2 DEF Next
  <2>2. ASSUME NEW n \in 1 .. ReadSize, NEW bad \in BOOLEAN, NEW eof \in BOOLEAN,
               BodyRead(n, bad, eof)
        PROVE  Next
    BY <2>2 DEF BodyRead, Next
  <2>3. CASE EndOfStream
    BY <2>3 DEF EndOfStream, Next
  <2>4. CASE Producer \/ ClientGoesAway \/ UNCHANGED svars
    BY <2>4 DEF Producer, NextPiece, Finish, WriteFails, Unparsed, Break,
                ClientGoesAway, svars, relay
  <2> QED
    BY <1>2, <2>1, <2>2, <2>3, <2>4 DEF StreamingNext, Relay
<1> QED
  BY <1>1, <1>2, PipeInvariant, PTL DEF StreamingSpec, Spec

\* So the bound on exposed content holds for every provider.
THEOREM StreamingExposure == StreamingSpec => []ExposureBounded
  BY StreamingRefinesStream, StreamExposure, PTL

-----------------------------------------------------------------------------

LEMMA PipeTypesStep ==
    ASSUME PipeInv, PipeTypes, [StreamingNext]_svars
    PROVE  PipeTypes'
<1>0. /\ left \in Nat /\ delivered \in Nat /\ dropped \in Nat /\ Pieces \in Nat
      /\ EventSizes \subseteq Nat \ {0}
  BY StreamingAssumption DEF StreamingAssumption, PipeInv, PiecesAccounted
<1>1. ASSUME NEW n \in EventSizes, NextPiece(n)
      PROVE  PipeTypes'
  <2>1. /\ left' = left - 1 /\ gpc = "next" /\ left > 0
        /\ gpc' = "write" /\ event' = "piece" /\ pending' = n
        /\ UNCHANGED <<prov, delivered, dropped, sawDone, gone>>
    BY <1>1 DEF NextPiece, Writes, seen
  <2> QED
    BY <1>0, <2>1 DEF PipeTypes, InWrite
<1>2. ASSUME NEW n \in EventSizes, Finish(n)
      PROVE  PipeTypes'
  <2>1. /\ left' = left /\ gpc = "next"
        /\ gpc' = "write" /\ event' = "final" /\ pending' = n
        /\ UNCHANGED <<prov, delivered, dropped, sawDone, gone>>
    BY <1>2 DEF Finish, Writes, seen
  <2> QED
    BY <1>0, <2>1 DEF PipeTypes, InWrite
<1>3. CASE Unparsed
  <2>1. /\ left > 0 /\ left' = left - 1 /\ dropped' = dropped + 1
        /\ UNCHANGED <<prov, gpc, event, pending, delivered, sawDone, gone>>
    BY <1>3 DEF Unparsed
  <2> QED
    BY <1>0, <2>1 DEF PipeTypes, InWrite
<1>4. CASE Break
  <2>1. /\ gpc = "next" /\ gpc' = "closed"
        /\ UNCHANGED <<prov, left, event, pending, delivered, dropped, sawDone, gone>>
    BY <1>4 DEF Break, seen
  <2> QED
    BY <1>0, <2>1 DEF PipeTypes, InWrite
<1>5. ASSUME NEW n \in EventSizes, Written(n), gpc = "write"
      PROVE  /\ gpc' \in {"next", "write", "closed"} /\ pending' \in Nat
             /\ event' \in {"piece", "final", "[DONE]"}
             /\ InWrite' = 0
  BY <1>0, <1>5 DEF Written, Writes, InWrite, PipeTypes
<1>6. ASSUME NEW n \in EventSizes, WriteFails(n)
      PROVE  PipeTypes'
  <2>1. /\ gpc = "write" /\ Written(n)
        /\ UNCHANGED <<prov, left, delivered, dropped, sawDone, gone>>
    BY <1>6 DEF WriteFails, seen
  <2>2. InWrite \in {0, 1}
    BY DEF InWrite
  <2> QED
    BY <1>0, <1>5, <2>1, <2>2 DEF PipeTypes
<1>7. ASSUME NEW bad \in BOOLEAN, NEW n \in EventSizes, PipeRead(bad, n)
      PROVE  PipeTypes'
  <2>1. /\ gpc = "write" /\ UNCHANGED <<prov, left, gone>>
    BY <1>7 DEF PipeRead
  <2>2. CASE /\ Chunk < pending /\ pending' = pending - Chunk
             /\ UNCHANGED <<gpc, event, seen>>
    <3>1. pending' \in Nat
      BY <2>1, <2>2, ChunkSize DEF PipeInv
    <3> QED
      BY <2>1, <2>2, <3>1 DEF PipeTypes, InWrite, seen
  <2>3. CASE /\ Written(n)
             /\ delivered' = IF event = "piece" THEN delivered + 1 ELSE delivered
             /\ sawDone' = (sawDone \/ event = "[DONE]")
             /\ UNCHANGED dropped
    <3>1. /\ gpc' \in {"next", "write", "closed"} /\ pending' \in Nat
          /\ event' \in {"piece", "final", "[DONE]"} /\ InWrite' = 0
      BY <1>5, <2>1, <2>3
    <3>2. delivered' = delivered + InWrite
      BY <1>0, <2>1, <2>3 DEF InWrite
    <3>3. left' + delivered' + dropped' + InWrite' <= Pieces
      <4>1. InWrite \in {0, 1}
        BY DEF InWrite
      <4> QED BY <1>0, <2>1, <2>3, <3>1, <3>2, <4>1 DEF PipeTypes
    <3>4. sawDone' \in BOOLEAN
      BY <2>3
    <3> QED BY <2>1, <3>1, <3>3, <3>4 DEF PipeTypes
  <2> QED
    BY <1>7, <2>2, <2>3 DEF PipeRead
<1>8. CASE EndOfStream
  BY <1>8 DEF EndOfStream, PipeTypes, InWrite, pipe, seen
<1>9. ASSUME NEW n \in 1 .. ReadSize, NEW bad \in BOOLEAN, NEW eof \in BOOLEAN,
             BodyRead(n, bad, eof)
      PROVE  PipeTypes'
  <2>1. /\ left > 0 /\ left' = left - 1
        /\ UNCHANGED <<prov, gpc, event, pending, delivered, dropped, sawDone, gone>>
    BY <1>9 DEF BodyRead, seen
  <2> QED
    BY <1>0, <2>1 DEF PipeTypes, InWrite
<1>10. CASE ClientGoesAway \/ UNCHANGED svars
  BY <1>10 DEF ClientGoesAway, svars, pipe, seen, PipeTypes, InWrite
<1> QED
  BY <1>1, <1>2, <1>3, <1>4, <1>6, <1>7, <1>8, <1>9, <1>10
  DEF StreamingNext, Producer, Relay

\* The relay, the pipe and the goroutine keep their types; in particular no
\* piece is delivered or dropped more than once, whatever the goroutine does
\* after handleStream has closed the pipe.
THEOREM StreamingTypes == StreamingSpec => []StreamingTypeOK
<1>1. StreamingInit => PipeTypes
  <2> SUFFICES ASSUME StreamingInit PROVE PipeTypes
    OBVIOUS
  <2>1. /\ prov \in Kinds /\ gpc \in {"next", "closed"} /\ event = "piece"
        /\ pending = 0 /\ gone = FALSE /\ sawDone = FALSE
    BY StreamingAssumption DEF StreamingAssumption, StreamingInit
  <2>2. /\ left = Pieces /\ delivered = 0 /\ dropped = 0 /\ InWrite = 0 /\ Pieces \in Nat
    BY <2>1, StreamingAssumption DEF StreamingAssumption, StreamingInit, InWrite
  <2>3. left + delivered + dropped + InWrite <= Pieces
    BY <2>2
  <2> QED BY <2>1, <2>3 DEF PipeTypes
<1>2. PipeInv /\ PipeTypes /\ [StreamingNext]_svars => PipeTypes'
  BY PipeTypesStep
<1>3. TypeOK /\ PipeInv /\ PipeTypes => StreamingTypeOK
  <2> SUFFICES ASSUME TypeOK, PipeInv, PipeTypes PROVE StreamingTypeOK
    OBVIOUS
  <2>1. /\ left \in Nat /\ delivered \in Nat /\ dropped \in Nat /\ Pieces \in Nat
        /\ InWrite \in {0, 1}
    BY StreamingAssumption DEF StreamingAssumption, PipeInv, PiecesAccounted, InWrite
  <2> QED BY <2>1 DEF PipeTypes, StreamingTypeOK
<1> QED
  BY <1>1, <1>2, <1>3, PipeInvariant, StreamingRefinesStream, StreamTypes, PTL
  DEF StreamingSpec

-----------------------------------------------------------------------------
(* The router that settles on the provider (module Router), for every        *)
(* configuration of providers, routes, regions and rollouts.                 *)

\* Among(s, S) is the last of the lists it builds, one per place of s.
Picked(s, S, n, f) ==
    f = [i \in 0 .. n |-> IF i = 0 THEN <<>>
                          ELSE IF s[i] \in S THEN Append(f[i - 1], s[i]) ELSE f[i - 1]]

LEMMA PickedExists ==
    ASSUME NEW s, NEW S
    PROVE  \A n \in Nat : \E f : Picked(s, S, n, f)
<1> DEFINE N == {n \in Nat : \E f : Picked(s, S, n, f)}
<1>1. 0 \in N
  <2> DEFINE f == [i \in 0 .. 0 |-> <<>>]
  <2>1. Picked(s, S, 0, f)
    BY DEF Picked
  <2> QED BY <2>1
<1>2. ASSUME NEW n \in Nat, n \in N PROVE n + 1 \in N
  <2>1. PICK f : Picked(s, S, n, f)
    BY <1>2
  <2> DEFINE last == IF s[n + 1] \in S THEN Append(f[n], s[n + 1]) ELSE f[n]
             g == [i \in 0 .. n + 1 |-> IF i = n + 1 THEN last ELSE f[i]]
  <2>2. ASSUME NEW i \in 0 .. n + 1
        PROVE  g[i] = IF i = 0 THEN <<>>
                      ELSE IF s[i] \in S THEN Append(g[i - 1], s[i]) ELSE g[i - 1]
    <3>1. CASE i = n + 1
      <4>1. g[i - 1] = f[n] /\ g[i] = last /\ i # 0
        BY <3>1
      <4> QED BY <3>1, <4>1
    <3>2. CASE i # n + 1
      <4>1. i \in 0 .. n /\ g[i] = f[i] /\ (i # 0 => g[i - 1] = f[i - 1])
        BY <3>2
      <4> QED BY <2>1, <4>1 DEF Picked
    <3> QED BY <3>1, <3>2
  <2>3. DOMAIN g = 0 .. n + 1 /\ g = [i \in 0 .. n + 1 |-> g[i]]
    OBVIOUS
  <2> HIDE DEF g
  <2>4. Picked(s, S, n + 1, g)
    BY <2>2, <2>3 DEF Picked
  <2> QED BY <2>4
<1> HIDE DEF N
<1>3. \A n \in Nat : n \in N
  BY <1>1, <1>2, NatSetInduction
<1> QED BY <1>3 DEF N

\* registry.Get lets only registered names through.
LEMMA AmongThem ==
    ASSUME NEW T, NEW s \in Seq(T), NEW S
    PROVE  Among(s, S) \in Seq(S)
<1> DEFINE n == Len(s)
           among == CHOOSE f : Picked(s, S, n, f)
<1>1. Among(s, S) = among[n]
  BY DEF Among, Picked
<1>2. n \in Nat
  OBVIOUS
<1>3. Picked(s, S, n, among)
  BY <1>2, PickedExists
<1> HIDE DEF among, n
<1> DEFINE N == {k \in Nat : k \in 0 .. n => among[k] \in Seq(S)}
<1>4. 0 \in N
  BY <1>2, <1>3 DEF Picked
<1>5. ASSUME NEW k \in Nat, k \in N PROVE k + 1 \in N
  <2> SUFFICES ASSUME k + 1 \in 0 .. n PROVE among[k + 1] \in Seq(S)
    OBVIOUS
  <2>1. PICK i \in 0 .. n : i = k + 1 /\ i - 1 = k /\ i # 0
    BY <1>2
  <2>2. among[i] = IF s[i] \in S THEN Append(among[i - 1], s[i]) ELSE among[i - 1]
    BY <1>3, <2>1 DEF Picked
  <2>3. among[k] \in Seq(S)
    BY <1>2, <1>5
  <2> QED BY <2>1, <2>2, <2>3
<1> HIDE DEF N
<1>6. \A k \in Nat : k \in N
  BY <1>4, <1>5, NatSetInduction
<1> QED BY <1>1, <1>2, <1>6 DEF N

LEMMA KnownType ==
    ASSUME NEW s \in Seq(STRING)
    PROVE  Known(s) \in Seq(Registered)
BY AmongThem DEF Known

LEMMA BaselineType ==
    ASSUME NEW a \in RolloutType
    PROVE  /\ Baseline(a) \in Seq(Registered)
           /\ a.canary \notin ToSet(Baseline(a))
<1>1. PICK b \in Seq(STRING) : b = a.baseline
  BY DEF RolloutType
<1>2. Among(b, Registered \ {a.canary}) \in Seq(Registered \ {a.canary})
  BY AmongThem
<1>3. PICK s \in Seq(Registered \ {a.canary}) : s = Baseline(a)
  BY <1>1, <1>2 DEF Baseline
<1>4. s \in Seq(Registered) /\ a.canary \notin ToSet(s)
  BY DEF ToSet
<1> QED BY <1>3, <1>4

-----------------------------------------------------------------------------

LEMMA QueueParts ==
    ASSUME NEW S, NEW s \in Seq(S)
    PROVE  /\ ToSet(s) \subseteq S
           /\ s # <<>> => /\ Head(s) \in S /\ Tail(s) \in Seq(S)
                          /\ ToSet(s) = {Head(s)} \cup ToSet(Tail(s))
<1>1. ToSet(s) \subseteq S
  BY DEF ToSet
<1>2. ASSUME s # <<>>
      PROVE  /\ Head(s) \in S /\ Tail(s) \in Seq(S)
             /\ ToSet(s) = {Head(s)} \cup ToSet(Tail(s))
  <2>1. /\ Head(s) \in S /\ Tail(s) \in Seq(S) /\ Head(s) = s[1] /\ Len(s) \in Nat
        /\ Len(s) >= 1 /\ Len(Tail(s)) = Len(s) - 1
        /\ \A i \in 1 .. Len(s) - 1 : Tail(s)[i] = s[i + 1]
        /\ DOMAIN s = 1 .. Len(s) /\ DOMAIN Tail(s) = 1 .. Len(s) - 1
    BY <1>2
  <2>2. ASSUME NEW i \in 1 .. Len(s)
        PROVE  s[i] \in {Head(s)} \cup ToSet(Tail(s))
    <3>1. CASE i = 1
      BY <2>1, <3>1
    <3>2. CASE i # 1
      <4>1. i - 1 \in 1 .. Len(s) - 1 /\ Tail(s)[i - 1] = s[(i - 1) + 1] /\ (i - 1) + 1 = i
        BY <2>1, <3>2
      <4> QED BY <2>1, <4>1 DEF ToSet
    <3> QED BY <3>1, <3>2
  <2>3. ASSUME NEW i \in 1 .. Len(s) - 1
        PROVE  Tail(s)[i] \in ToSet(s)
    <3>1. i + 1 \in 1 .. Len(s) /\ Tail(s)[i] = s[i + 1]
      BY <2>1
    <3> QED BY <2>1, <3>1 DEF ToSet
  <2>4. Head(s) \in ToSet(s)
    BY <2>1 DEF ToSet
  <2> QED BY <2>1, <2>2, <2>3, <2>4 DEF ToSet
<1> QED BY <1>1, <1>2

\* The places of a rotated list are those of the list.
LEMMA Wrap ==
    ASSUME NEW l \in Nat, l # 0, NEW a \in Nat, a < 2 * l
    PROVE  a % l = IF a < l THEN a ELSE a - l
OBVIOUS

LEMMA RotatedSame ==
    ASSUME NEW S, NEW s \in Seq(S), s # <<>>, NEW n \in Nat, n < Len(s)
    PROVE  /\ Rotated(s, n) \in Seq(S)
           /\ ToSet(Rotated(s, n)) = ToSet(s)
<1>0. PICK l \in Nat : l = Len(s) /\ l # 0
  OBVIOUS
<1> DEFINE At(i) == ((n + i - 1) % l) + 1
           t == [i \in 1 .. l |-> s[At(i)]]
<1>1. ASSUME NEW i \in 1 .. l
      PROVE  At(i) = IF n + i - 1 < l THEN n + i ELSE n + i - l
  <2>1. PICK a \in Nat : a = n + i - 1 /\ a < 2 * l
    BY <1>0
  <2>2. a % l = IF a < l THEN a ELSE a - l
    BY <1>0, <2>1, Wrap
  <2> QED BY <1>0, <2>1, <2>2
<1>2. Rotated(s, n) = t
  BY <1>0 DEF Rotated
<1> HIDE DEF At
<1>3. \A i \in 1 .. l : At(i) \in 1 .. l
  BY <1>0, <1>1
<1>4. t \in Seq(S)
  BY <1>0, <1>3
<1>5. ASSUME NEW j \in 1 .. l
      PROVE  \E i \in 1 .. l : At(i) = j
  <2>1. CASE j > n
    <3>1. j - n \in 1 .. l /\ At(j - n) = j
      BY <1>0, <1>1, <2>1
    <3> QED BY <3>1
  <2>2. CASE ~(j > n)
    <3>1. j - n + l \in 1 .. l /\ At(j - n + l) = j
      BY <1>0, <1>1, <2>2
    <3> QED BY <3>1
  <2> QED BY <2>1, <2>2
<1>6. DOMAIN s = 1 .. l /\ DOMAIN t = 1 .. l /\ \A i \in 1 .. l : t[i] = s[At(i)]
  BY <1>0
<1> HIDE DEF t
<1>7. ToSet(t) = ToSet(s)
  <2>1. \A i \in 1 .. l : t[i] \in {s[j] : j \in 1 .. l}
    BY <1>3, <1>6
  <2>2. \A j \in 1 .. l : s[j] \in {t[i] : i \in 1 .. l}
    BY <1>5, <1>6
  <2>3. {t[i] : i \in 1 .. l} = {s[j] : j \in 1 .. l}
    BY <2>1, <2>2
  <2> QED BY <1>6, <2>3, Zenon DEF ToSet
<1> QED BY <1>2, <1>4, <1>7

-----------------------------------------------------------------------------

\* A set of places has a first one.
LEMMA FirstPlace ==
    ASSUME NEW S, S \subseteq Nat, S # {}
    PROVE  (CHOOSE i \in S : \A j \in S : i <= j) \in S
<1>1. PICK m \in S : \A y \in S : <<y, m>> \notin OpToRel(<, Nat)
  BY WFMin, NatLessThanWellFounded
<1>2. ASSUME NEW y \in S PROVE m <= y
  <2>1. m \in Nat /\ y \in Nat /\ <<y, m>> \notin OpToRel(<, Nat)
    BY <1>1
  <2>2. y < m => <<y, m>> \in OpToRel(<, Nat)
    BY <2>1 DEF OpToRel
  <2>3. ~(y < m) /\ m \in Nat /\ y \in Nat
    BY <2>1, <2>2, Zenon
  <2> QED BY <2>3
<1> QED BY <1>2

LEMMA RouteAt ==
    ASSUME NEW i \in 1 .. Len(Routes)
    PROVE  /\ Routes[i].providers \in Seq(STRING)
           /\ Routes[i].regions \in Seq(RegionType)
           /\ \A j \in 1 .. Len(Routes[i].regions) :
                 Routes[i].regions[j].providers \in Seq(STRING)
<1>1. Routes \in Seq(RouteType)
  BY RouterAssumption DEF RouterAssumption
<1>2. Routes[i] \in RouteType
  BY <1>1
<1>3. Routes[i].providers \in Seq(STRING) /\ Routes[i].regions \in Seq(RegionType)
  BY <1>2 DEF RouteType
<1>4. ASSUME NEW j \in 1 .. Len(Routes[i].regions)
      PROVE  Routes[i].regions[j].providers \in Seq(STRING)
  <2>1. Routes[i].regions[j] \in RegionType
    BY <1>3
  <2> QED BY <2>1 DEF RegionType
<1> QED BY <1>3, <1>4

LEMMA FirstMatchIsRoute ==
    ASSUME NEW m, FirstMatch(m) # 0
    PROVE  FirstMatch(m) \in 1 .. Len(Routes)
<1>1. MatchRoute(m) \subseteq 1 .. Len(Routes) /\ 1 .. Len(Routes) \subseteq Nat
  BY RouterAssumption DEF MatchRoute, RouterAssumption
<1>2. PICK S \in SUBSET Nat : S = MatchRoute(m)
  BY <1>1
<1>3. S # {} /\ FirstMatch(m) = CHOOSE i \in S : \A j \in S : i <= j
  BY <1>2 DEF FirstMatch
<1> QED BY <1>1, <1>2, <1>3, FirstPlace

LEMMA ResolvedIsRoute ==
    ASSUME NEW m, Resolvable(m) # {}
    PROVE  (CHOOSE i \in Resolvable(m) : \A j \in Resolvable(m) : i <= j)
              \in 1 .. Len(Routes)
<1>1. Resolvable(m) \subseteq 1 .. Len(Routes) /\ 1 .. Len(Routes) \subseteq Nat
  BY RouterAssumption DEF Resolvable, MatchRoute, RouterAssumption
<1>2. PICK S \in SUBSET Nat : S = Resolvable(m)
  BY <1>1
<1>3. (CHOOSE i \in S : \A j \in S : i <= j) \in S
  BY <1>2, FirstPlace
<1> QED BY <1>1, <1>2, <1>3

\* What a request asks for never changes on its way.
SameAsk(x, y) == /\ x.model = y.model /\ x.kind = y.kind
                 /\ x.act = y.act /\ x.drawn = y.drawn

LEMMA SameOffers ==
    ASSUME NEW x, NEW y, SameAsk(x, y)
    PROVE  /\ Offered(x) = Offered(y)
           /\ Regional(x) <=> Regional(y)
           /\ ByRollout(x) <=> ByRollout(y)
BY DEF SameAsk, Offered, Regional, ByRollout

\* The step of one request.
LEMMA RouterOne ==
    ASSUME RouterInv, NEW r \in Requests, NEW x \in ReqType,
           req' = [req EXCEPT ![r] = x],
           x.pc \in {"call", "probe"} => x.p \in Registered,
           Walked(x), KeptAway(x),
           failures' \in [Registered -> 0 .. Threshold],
           sinceFail' \in [Registered -> -1 .. ResetAfter + 1],
           counter' \in [Lists -> Nat], active' = active
    PROVE  RouterInv'
<1>1. req \in [Requests -> ReqType]
  BY DEF RouterInv, RouterTypes
<1>2. req' \in [Requests -> ReqType] /\ req'[r] = x
      /\ \A q \in Requests : q # r => req'[q] = req[q]
  BY <1>1
<1>3. ASSUME NEW q \in Requests
      PROVE  /\ req'[q].pc \in {"call", "probe"} => req'[q].p \in Registered
             /\ Walked(req'[q]) /\ KeptAway(req'[q])
  <2>1. CASE q = r
    BY <1>2, <2>1
  <2>2. CASE q # r
    BY <1>2, <2>2 DEF RouterInv, RouterTypes
  <2> QED BY <2>1, <2>2
<1>4. RouterTypes'
  BY <1>2, <1>3 DEF RouterInv, RouterTypes
<1>5. \A q \in Requests : Walked(req[q])' /\ KeptAway(req[q])'
  BY <1>3
<1> QED BY <1>4, <1>5 DEF RouterInv

LEMMA RouterFacts ==
    ASSUME RouterInv, NEW r \in Requests
    PROVE  /\ req[r] \in ReqType /\ Walked(req[r]) /\ KeptAway(req[r])
           /\ req[r].pc \in {"call", "probe"} => req[r].p \in Registered
           /\ failures \in [Registered -> 0 .. Threshold]
           /\ sinceFail \in [Registered -> -1 .. ResetAfter + 1]
           /\ counter \in [Lists -> Nat]
BY DEF RouterInv, RouterTypes

LEMMA NoRequestType == NoRequest \in ReqType
<1>1. /\ <<>> \in Seq(Registered) /\ 0 \in Nat /\ {} \in SUBSET Registered
      /\ "" \in Models \cup {""} /\ "" \in Registered \cup {""}
      /\ "idle" \in {"idle", "canary", "resolve", "region", "try", "call", "probe",
                     "served", "failed"}
      /\ "unary" \in {"unary", "stream"} /\ FALSE \in BOOLEAN
  OBVIOUS
<1>2. NoRollout \in RolloutType \cup {NoRollout}
  OBVIOUS
<1> QED BY <1>1, <1>2, Zenon DEF NoRequest, ReqType

LEMMA BeginStep ==
    ASSUME RouterInv, NEW r \in Requests, NEW m \in Models,
           NEW k \in RequestKinds, NEW d \in Draws, Begin(r, m, k, d)
    PROVE  RouterInv'
<1>1. PICK a \in RolloutType \cup {NoRollout} : a = active[m]
  BY RouterAssumption DEF RouterInv, RouterTypes, RouterAssumption
<1>2. PICK hit \in BOOLEAN : hit = (active[m] # NoRollout /\ d < active[m].pct)
  OBVIOUS
<1>3. PICK at : at = IF hit THEN "canary" ELSE "resolve"
  OBVIOUS
<1> DEFINE y == [NoRequest EXCEPT !.model = m, !.kind = k, !.act = a, !.drawn = hit, !.pc = at]
<1>4. req' = [req EXCEPT ![r] = y] /\ active' = active
      /\ failures' = failures /\ sinceFail' = sinceFail /\ counter' = counter
  BY <1>1, <1>2, <1>3 DEF Begin, Breaker
<1>5. /\ y.pc = at /\ y.queue = <<>> /\ y.drawn = hit /\ y.model = m /\ y.kind = k
      /\ y.act = a /\ y.region = 0 /\ y.p = "" /\ y.seen = {}
  BY DEF NoRequest
<1>6. y \in ReqType
  <2>1. k \in {"unary", "stream"} /\ at \in {"canary", "resolve"} /\ hit \in BOOLEAN
    BY <1>2, <1>3, RouterAssumption DEF RouterAssumption
  <2>2. PICK n \in ReqType : n = NoRequest
    BY NoRequestType
  <2>3. [n EXCEPT !.model = m, !.kind = k, !.act = a, !.drawn = hit, !.pc = at] \in ReqType
    BY <2>1 DEF ReqType
  <2> QED BY <2>2, <2>3
<1> HIDE DEF y
<1>7. PICK x \in ReqType : x = y
  BY <1>6
<1>8. ToSet(<<>>) = {}
  BY DEF ToSet
<1>9. /\ x.pc \in {"canary", "resolve"} /\ ToSet(x.queue) = {}
      /\ x.pc = "canary" => x.drawn
  BY <1>3, <1>5, <1>7, <1>8
<1>10. Walked(x)
  BY <1>9 DEF Walked
<1>11. KeptAway(x)
  BY <1>9 DEF KeptAway
<1> QED
  BY <1>4, <1>7, <1>9, <1>10, <1>11, RouterFacts, RouterOne

LEMMA TryCanaryStep ==
    ASSUME RouterInv, NEW r \in Requests, TryCanary(r)
    PROVE  RouterInv'
<1>0. /\ req[r] \in ReqType /\ req[r].pc = "canary" /\ KeptAway(req[r])
      /\ active' = active /\ failures' = failures /\ sinceFail' = sinceFail
      /\ counter' = counter
  BY RouterFacts DEF TryCanary, Breaker
<1>1. PICK x \in ReqType :
        /\ req' = [req EXCEPT ![r] = x] /\ SameAsk(x, req[r])
        /\ x.pc \in {"probe", "resolve"} /\ x.queue = req[r].queue
        /\ x.pc = "probe" => x.p \in Registered
  <2>1. CASE req' = [req EXCEPT ![r].pc = "resolve"]
    <3> DEFINE y == [req[r] EXCEPT !.pc = "resolve"]
    <3>1. y \in ReqType
      BY <1>0 DEF ReqType
    <3>2. y.pc = "resolve" /\ y.queue = req[r].queue /\ SameAsk(y, req[r])
      BY <1>0, Zenon DEF ReqType, SameAsk
    <3>3. req' = [req EXCEPT ![r] = y]
      BY <2>1
    <3> HIDE DEF y
    <3> QED BY <3>1, <3>2, <3>3
  <2>2. CASE ~(req' = [req EXCEPT ![r].pc = "resolve"])
    <3>1. PICK c \in Registered : req' = [req EXCEPT ![r].pc = "probe", ![r].p = c]
      BY <2>2 DEF TryCanary, IsRegistered, Goto
    <3> DEFINE y == [req[r] EXCEPT !.pc = "probe", !.p = c]
    <3>2. y \in ReqType
      BY <1>0 DEF ReqType
    <3>3. y.pc = "probe" /\ y.p = c /\ y.queue = req[r].queue /\ SameAsk(y, req[r])
      BY <1>0, Zenon DEF ReqType, SameAsk
    <3>4. req' = [req EXCEPT ![r] = y]
      <4>1. req \in [Requests -> ReqType]
        BY DEF RouterInv, RouterTypes
      <4> QED BY <3>1, <4>1
    <3> HIDE DEF y
    <3> QED BY <3>2, <3>3, <3>4
  <2> QED BY <2>1, <2>2
<1>2. Walked(x)
  BY <1>1 DEF Walked
<1>3. KeptAway(x)
  BY <1>0, <1>1, SameOffers DEF KeptAway, SameAsk
<1> QED
  BY <1>0, <1>1, <1>2, <1>3, RouterFacts, RouterOne

\* A strategy reorders the list and leaves the rest of the request alone.
LEMMA Selected ==
    ASSUME RouterInv, NEW r \in Requests, NEW l \in Lists,
           NEW s \in Seq(Registered), NEW rr, NEW n \in ReqType,
           Select(r, l, s, rr, n)
    PROVE  /\ counter' \in [Lists -> Nat]
           /\ \E x \in ReqType :
                /\ req' = [req EXCEPT ![r] = x] /\ SameAsk(x, n)
                /\ x.pc = n.pc /\ x.region = n.region /\ x.seen = n.seen
                /\ ToSet(x.queue) = ToSet(s)
<1>0. counter \in [Lists -> Nat]
  BY DEF RouterInv, RouterTypes
<1>1. /\ counter' \in [Lists -> Nat]
      /\ \E q \in Seq(Registered) :
            /\ ToSet(q) = ToSet(s)
            /\ req' = [req EXCEPT ![r] = [n EXCEPT !.queue = q]]
  <2>1. CASE rr /\ s # <<>>
    <3>1. PICK k \in Nat : k = counter[l] + 1
      BY <1>0
    <3>2. Len(s) \in Nat /\ Len(s) > 0
      BY <2>1
    <3>3. PICK t \in Nat : t = k % Len(s) /\ t < Len(s)
      BY <3>1, <3>2
    <3>4. /\ counter' = [counter EXCEPT ![l] = t]
          /\ req' = [req EXCEPT ![r] = [n EXCEPT !.queue = Rotated(s, t)]]
      BY <2>1, <3>1, <3>3 DEF Select
    <3>5. counter' \in [Lists -> Nat]
      BY <1>0, <3>4
    <3> QED BY <2>1, <3>3, <3>4, <3>5, RotatedSame
  <2>2. CASE ~(rr /\ s # <<>>)
    BY <1>0, <2>2 DEF Select
  <2> QED BY <2>1, <2>2
<1>2. PICK q \in Seq(Registered) :
        /\ ToSet(q) = ToSet(s)
        /\ req' = [req EXCEPT ![r] = [n EXCEPT !.queue = q]]
  BY <1>1
<1> DEFINE y == [n EXCEPT !.queue = q]
<1>3. y \in ReqType
  BY DEF ReqType
<1>4. y.pc = n.pc /\ y.region = n.region /\ y.seen = n.seen /\ y.queue = q /\ SameAsk(y, n)
  BY Zenon DEF ReqType, SameAsk
<1>5. req' = [req EXCEPT ![r] = y]
  BY <1>2
<1> HIDE DEF y
<1> QED BY <1>1, <1>2, <1>3, <1>4, <1>5

\* The lists that have a counter.
LEMMA ListsOf ==
    ASSUME NEW i \in 1 .. Len(Routes)
    PROVE  /\ <<i, 0>> \in Lists
           /\ \A j \in Nat : j <= Len(Routes[i].regions) => <<i, j>> \in Lists
<1>1. Len(Routes[i].regions) \in Nat
  BY RouteAt
<1>2. ASSUME NEW j \in Nat, j <= Len(Routes[i].regions) PROVE <<i, j>> \in Lists
  <2>1. j \in 0 .. Len(Routes[i].regions)
    BY <1>1, <1>2
  <2>2. <<i, j>> \in RegionLists(i)
    BY <2>1 DEF RegionLists
  <2> QED BY <2>2 DEF Lists
<1>3. <<i, 0>> \in Lists
  BY <1>1, <1>2
<1> QED BY <1>2, <1>3

\* resolveProviders gives the request the flat list it may be sent to.
LEMMA ResolveFlatStep ==
    ASSUME RouterInv, NEW r \in Requests,
           ResolveFlat(r), UNCHANGED <<failures, sinceFail, active>>,
           ByRollout(req[r]) => Baseline(req[r].act) = <<>>,
           ~Regional(req[r])
    PROVE  RouterInv'
<1> DEFINE m == req[r].model
           i == CHOOSE i \in Resolvable(m) : \A j \in Resolvable(m) : i <= j
<1>1. Offered(req[r]) = FlatOffers(m)
  BY DEF Offered
<1>2. req[r] \in ReqType
  BY RouterFacts
<1>3. counter' \in [Lists -> Nat] /\ \E x \in ReqType :
        /\ req' = [req EXCEPT ![r] = x] /\ SameAsk(x, req[r])
        /\ \/ /\ x.pc = "try" /\ x.region = 0
              /\ FlatOffers(m) = ToSet(x.queue)
           \/ x.pc = "failed" /\ FlatOffers(m) = {}
  <2>1. CASE Resolvable(m) # {}
    <3> DEFINE n == [req[r] EXCEPT !.pc = "try", !.region = 0]
    <3>1. i \in 1 .. Len(Routes)
      BY <2>1, ResolvedIsRoute
    <3>2. PICK s \in Seq(Registered) : s = Known(Routes[i].providers)
      BY <3>1, RouteAt, KnownType
    <3>3. FlatOffers(m) = ToSet(s)
      BY <2>1, <3>2 DEF FlatOffers
    <3>4. n \in ReqType
      BY <1>2 DEF ReqType
    <3>5. n.pc = "try" /\ n.region = 0 /\ SameAsk(n, req[r])
      BY <1>2, Zenon DEF ReqType, SameAsk
    <3>6. Select(r, <<i, 0>>, s, Routes[i].rr, n)
      BY <2>1, <3>2 DEF ResolveFlat
    <3>7. <<i, 0>> \in Lists
      BY <3>1, ListsOf
    <3> HIDE DEF n, i, m
    <3>8. /\ counter' \in [Lists -> Nat]
          /\ \E x \in ReqType :
                /\ req' = [req EXCEPT ![r] = x] /\ SameAsk(x, n)
                /\ x.pc = n.pc /\ x.region = n.region /\ x.seen = n.seen
                /\ ToSet(x.queue) = ToSet(s)
      BY <3>4, <3>6, <3>7, Selected
    <3> QED BY <3>3, <3>5, <3>8 DEF SameAsk
  <2>2. CASE Resolvable(m) = {}
    <3> DEFINE y == [req[r] EXCEPT !.pc = "failed"]
    <3>1. y \in ReqType
      BY <1>2 DEF ReqType
    <3>2. y.pc = "failed" /\ SameAsk(y, req[r])
      BY <1>2, Zenon DEF ReqType, SameAsk
    <3>3. req' = [req EXCEPT ![r] = y] /\ counter' = counter
      BY <2>2 DEF ResolveFlat, Goto
    <3>4. FlatOffers(m) = {}
      BY <2>2 DEF FlatOffers
    <3> HIDE DEF y, m
    <3> QED BY <3>1, <3>2, <3>3, <3>4, RouterFacts
  <2> QED BY <2>1, <2>2
<1> HIDE DEF m
<1>4. PICK x \in ReqType :
        /\ req' = [req EXCEPT ![r] = x] /\ SameAsk(x, req[r])
        /\ \/ /\ x.pc = "try" /\ x.region = 0
              /\ FlatOffers(m) = ToSet(x.queue)
           \/ x.pc = "failed" /\ FlatOffers(m) = {}
  BY <1>3
<1>5. Offered(x) = FlatOffers(m)
  BY <1>1, <1>4, SameOffers
<1>6. Walked(x)
  BY <1>4, <1>5 DEF Walked, ToTry
<1>7. KeptAway(x)
  BY <1>4, SameOffers DEF KeptAway, SameAsk
<1> QED
  BY <1>3, <1>4, <1>6, <1>7, RouterFacts, RouterOne

\* With a rollout the baseline providers, without the canary, else the first
\* region or the flat list.
LEMMA ResolveStep ==
    ASSUME RouterInv, NEW r \in Requests, Resolve(r)
    PROVE  RouterInv'
<1>0. /\ req[r] \in ReqType /\ req[r].pc = "resolve"
      /\ active' = active /\ failures' = failures /\ sinceFail' = sinceFail
  BY RouterFacts DEF Resolve, Breaker
<1>00. req \in [Requests -> ReqType]
  BY DEF RouterInv, RouterTypes
<1>1. CASE ByRollout(req[r]) /\ Baseline(req[r].act) # <<>>
  <2>1. /\ req' = [req EXCEPT ![r].pc = "try", ![r].region = 0,
                              ![r].queue = Baseline(req[r].act)]
        /\ counter' = counter
    BY <1>1 DEF Resolve, ByRollout
  <2>2. req[r].act \in RolloutType
    BY <1>0, <1>1 DEF ReqType, ByRollout
  <2>3. PICK b \in Seq(Registered) :
          b = Baseline(req[r].act) /\ req[r].act.canary \notin ToSet(b)
    BY <2>2, BaselineType
  <2> DEFINE y == [req[r] EXCEPT !.pc = "try", !.region = 0, !.queue = b]
  <2>4. y \in ReqType
    BY <1>0 DEF ReqType
  <2>5. y.pc = "try" /\ y.region = 0 /\ y.queue = b /\ SameAsk(y, req[r])
    BY <1>0, Zenon DEF ReqType, SameAsk
  <2>6. req' = [req EXCEPT ![r] = y]
    BY <1>00, <2>1, <2>3
  <2> HIDE DEF y
  <2>7. Offered(y) = ToSet(b)
    <3>1. Offered(req[r]) = ToSet(b)
      BY <1>1, <2>3 DEF Offered
    <3> QED BY <2>5, <3>1, SameOffers
  <2>8. Walked(y)
    BY <2>5, <2>7 DEF Walked, ToTry
  <2>9. KeptAway(y)
    BY <2>3, <2>5 DEF KeptAway, SameAsk
  <2> QED
    BY <1>0, <2>1, <2>4, <2>5, <2>6, <2>8, <2>9, RouterFacts, RouterOne
<1>2. CASE ByRollout(req[r]) /\ Baseline(req[r].act) = <<>>
  <2>1. ResolveFlat(r)
    BY <1>2 DEF Resolve, ByRollout
  <2>2. ~Regional(req[r])
    BY <1>2 DEF Regional
  <2> QED BY <1>0, <1>2, <2>1, <2>2, ResolveFlatStep
<1>3. CASE ~ByRollout(req[r]) /\ Regional(req[r])
  <2>1. req' = [req EXCEPT ![r].pc = "region", ![r].region = 1] /\ counter' = counter
    BY <1>3 DEF Resolve, ByRollout, Regional, HasRegions
  <2> DEFINE y == [req[r] EXCEPT !.pc = "region", !.region = 1]
  <2>2. y \in ReqType
    BY <1>0 DEF ReqType
  <2>3. y.pc = "region" /\ y.region = 1 /\ SameAsk(y, req[r])
    BY <1>0, Zenon DEF ReqType, SameAsk
  <2>4. req' = [req EXCEPT ![r] = y]
    BY <1>00, <2>1
  <2> HIDE DEF y
  <2>5. Regional(y) /\ ~ByRollout(y)
    BY <1>3, <2>3, SameOffers
  <2>6. Walked(y)
    BY <2>3, <2>5 DEF Walked
  <2>7. KeptAway(y)
    BY <2>5 DEF KeptAway
  <2> QED
    BY <1>0, <2>1, <2>2, <2>3, <2>4, <2>6, <2>7, RouterFacts, RouterOne
<1>4. CASE ~ByRollout(req[r]) /\ ~Regional(req[r])
  <2>1. ResolveFlat(r)
    BY <1>4 DEF Resolve, ByRollout, Regional, HasRegions
  <2> QED BY <1>0, <1>4, <2>1, ResolveFlatStep
<1> QED BY <1>1, <1>2, <1>3, <1>4

\* The list of the next region, or the end of the regions.
LEMMA EnterRegionStep ==
    ASSUME RouterInv, NEW r \in Requests, EnterRegion(r)
    PROVE  RouterInv'
<1> DEFINE i == FirstMatch(req[r].model)
           j == req[r].region
<1>0. /\ req[r] \in ReqType /\ req[r].pc = "region" /\ Walked(req[r])
      /\ active' = active /\ failures' = failures /\ sinceFail' = sinceFail
  BY RouterFacts DEF EnterRegion, Breaker
<1>1. /\ Regional(req[r]) /\ j \in Nat /\ j # 0
      /\ \A h \in 1 .. Len(Routes[i].regions) :
            h < j => RegionOffers(i, h) \subseteq req[r].seen
  BY <1>0 DEF Walked, ReqType
<1>2. i \in 1 .. Len(Routes) /\ ~ByRollout(req[r])
  BY <1>1, FirstMatchIsRoute DEF Regional
<1>3. Len(Routes[i].regions) \in Nat
  BY <1>2, RouteAt
<1>4. CASE j <= Len(Routes[i].regions)
  <2> DEFINE n == [req[r] EXCEPT !.pc = "try"]
  <2>1. j \in 1 .. Len(Routes[i].regions)
    BY <1>1, <1>3, <1>4
  <2>2. PICK s \in Seq(Registered) : s = Known(Routes[i].regions[j].providers)
    BY <1>2, <2>1, RouteAt, KnownType
  <2>3. <<i, j>> \in Lists
    BY <1>1, <1>2, <1>4, ListsOf
  <2>4. n \in ReqType
    BY <1>0 DEF ReqType
  <2>5. n.pc = "try" /\ n.region = j /\ n.seen = req[r].seen /\ SameAsk(n, req[r])
    BY <1>0, Zenon DEF ReqType, SameAsk
  <2>6. Select(r, <<i, j>>, s, Routes[i].regions[j].rr, n)
    <3>1. ~(j > Len(Routes[i].regions))
      BY <1>1, <1>3, <1>4
    <3>2. Select(r, <<i, j>>, Known(Routes[i].regions[j].providers),
                 Routes[i].regions[j].rr, n)
      BY <3>1, Zenon DEF EnterRegion
    <3> QED BY <2>2, <3>2
  <2>7. RegionOffers(i, j) = ToSet(s)
    BY <2>2 DEF RegionOffers
  <2> HIDE DEF n
  <2>8. counter' \in [Lists -> Nat]
    BY <2>3, <2>4, <2>6, Selected
  <2>9. PICK x \in ReqType :
          /\ req' = [req EXCEPT ![r] = x] /\ SameAsk(x, n)
          /\ x.pc = n.pc /\ x.region = n.region /\ x.seen = n.seen
          /\ ToSet(x.queue) = ToSet(s)
    BY <2>3, <2>4, <2>6, Selected
  <2>10. /\ SameAsk(x, req[r]) /\ x.pc = "try" /\ x.region = j /\ x.seen = req[r].seen
         /\ RegionOffers(i, j) \subseteq ToTry(x)
         /\ FirstMatch(x.model) = i
    BY <2>5, <2>7, <2>9 DEF SameAsk, ToTry
  <2>11. Regional(x) /\ ~ByRollout(x)
    BY <1>1, <1>2, <2>10, SameOffers
  <2> HIDE DEF i, j
  <2>12. Walked(x)
    BY <1>1, <2>10, <2>11 DEF Walked
  <2>13. KeptAway(x)
    BY <2>11 DEF KeptAway
  <2> QED
    BY <1>0, <2>8, <2>9, <2>10, <2>12, <2>13, RouterFacts, RouterOne
<1>5. CASE j > Len(Routes[i].regions)
  <2> DEFINE y == [req[r] EXCEPT !.pc = "failed"]
  <2>1. y \in ReqType
    BY <1>0 DEF ReqType
  <2>2. y.pc = "failed" /\ y.seen = req[r].seen /\ SameAsk(y, req[r])
    BY <1>0, Zenon DEF ReqType, SameAsk
  <2>3. req' = [req EXCEPT ![r] = y] /\ counter' = counter
    BY <1>1, <1>3, <1>5 DEF EnterRegion, Goto
  <2> HIDE DEF y
  <2>4. \A h \in 1 .. Len(Routes[i].regions) : RegionOffers(i, h) \subseteq req[r].seen
    BY <1>1, <1>3, <1>5
  <2>5. Offered(req[r]) \subseteq req[r].seen
    BY <1>1, <1>2, <2>4 DEF Offered
  <2>6. Walked(y)
    BY <2>2, <2>5, SameOffers DEF Walked
  <2>7. ~ByRollout(y)
    BY <1>2, <2>2, SameOffers
  <2>8. KeptAway(y)
    BY <2>7 DEF KeptAway
  <2> QED
    BY <1>0, <2>1, <2>2, <2>3, <2>6, <2>8, RouterFacts, RouterOne
<1> QED BY <1>1, <1>3, <1>4, <1>5

\* One turn of the loop: what it takes from the list it has seen or calls.
LEMMA TryNextStep ==
    ASSUME RouterInv, NEW r \in Requests, TryNext(r)
    PROVE  RouterInv'
<1>0. /\ req[r] \in ReqType /\ req[r].pc = "try"
      /\ Walked(req[r]) /\ KeptAway(req[r])
      /\ active' = active /\ failures' = failures /\ sinceFail' = sinceFail
      /\ counter' = counter
  BY RouterFacts DEF TryNext, Breaker
<1>00. req \in [Requests -> ReqType]
  BY DEF RouterInv, RouterTypes
<1>1. PICK q \in Seq(Registered) : q = req[r].queue
  BY <1>0 DEF ReqType
<1>2. req[r].region \in Nat /\ ToTry(req[r]) = ToSet(q)
  BY <1>0, <1>1 DEF ReqType, ToTry
<1>3. CASE q = <<>> /\ req[r].region = 0
  <2> DEFINE y == [req[r] EXCEPT !.pc = "failed"]
  <2>1. y \in ReqType
    BY <1>0 DEF ReqType
  <2>2. /\ y.pc = "failed" /\ y.seen = req[r].seen /\ y.queue = req[r].queue
        /\ SameAsk(y, req[r])
    BY <1>0, Zenon DEF ReqType, SameAsk
  <2>3. req' = [req EXCEPT ![r] = y]
    BY <1>1, <1>3 DEF TryNext, Goto
  <2> HIDE DEF y
  <2>4. ToSet(q) = {}
    BY <1>3 DEF ToSet
  <2>5. Offered(req[r]) \subseteq req[r].seen
    BY <1>0, <1>2, <1>3, <2>4 DEF Walked
  <2>6. Walked(y)
    BY <2>2, <2>5, SameOffers DEF Walked
  <2>7. KeptAway(y)
    BY <1>0, <2>2, SameOffers DEF KeptAway, SameAsk
  <2> QED
    BY <1>0, <2>1, <2>2, <2>3, <2>6, <2>7, RouterFacts, RouterOne
<1>4. CASE q = <<>> /\ req[r].region # 0
  <2>1. PICK k \in Nat : k = req[r].region + 1 /\ k # 0
    BY <1>2
  <2> DEFINE y == [req[r] EXCEPT !.pc = "region", !.region = k]
  <2>2. y \in ReqType
    BY <1>0 DEF ReqType
  <2>3. /\ y.pc = "region" /\ y.seen = req[r].seen /\ y.queue = req[r].queue
        /\ y.region = k /\ SameAsk(y, req[r])
    BY <1>0, Zenon DEF ReqType, SameAsk
  <2>4. req' = [req EXCEPT ![r] = y]
    <3>1. req' = [req EXCEPT ![r].pc = "region", ![r].region = @ + 1]
      BY <1>1, <1>4 DEF TryNext
    <3> QED BY <1>00, <2>1, <3>1
  <2> HIDE DEF y
  <2>5. PICK i : i = FirstMatch(req[r].model)
    OBVIOUS
  <2>6. ToSet(q) = {}
    BY <1>4 DEF ToSet
  <2>7. /\ Regional(req[r])
        /\ \A h \in 1 .. Len(Routes[i].regions) :
              h < req[r].region => RegionOffers(i, h) \subseteq req[r].seen
        /\ RegionOffers(i, req[r].region) \subseteq req[r].seen
    BY <1>0, <1>2, <1>4, <2>5, <2>6 DEF Walked
  <2>8. \A h \in 1 .. Len(Routes[i].regions) :
              h < k => RegionOffers(i, h) \subseteq req[r].seen
    <3> SUFFICES ASSUME NEW h \in 1 .. Len(Routes[i].regions), h < k
                 PROVE  RegionOffers(i, h) \subseteq req[r].seen
      OBVIOUS
    <3>1. h < req[r].region \/ h = req[r].region
      BY <1>2, <2>1
    <3> QED BY <2>7, <3>1
  <2>9. Regional(y) /\ FirstMatch(y.model) = i
    BY <2>3, <2>5, <2>7, SameOffers DEF SameAsk
  <2>10. Walked(y)
    BY <2>1, <2>3, <2>8, <2>9 DEF Walked
  <2>11. KeptAway(y)
    BY <2>9 DEF KeptAway, Regional
  <2> QED
    BY <1>0, <2>2, <2>3, <2>4, <2>10, <2>11, RouterFacts, RouterOne
<1>5. CASE q # <<>>
  <2>1. PICK h \in Registered, t \in Seq(Registered) :
          h = Head(q) /\ t = Tail(q) /\ ToSet(q) = {h} \cup ToSet(t)
    <3>1. /\ Head(q) \in Registered /\ Tail(q) \in Seq(Registered)
          /\ ToSet(q) = {Head(q)} \cup ToSet(Tail(q))
      BY <1>5, QueueParts, Zenon
    <3> QED BY <3>1, Zenon
  <2>2. PICK x \in ReqType :
          /\ req' = [req EXCEPT ![r] = x] /\ SameAsk(x, req[r])
          /\ x.region = req[r].region /\ x.queue = t
          /\ \/ x.pc = "try" /\ x.seen = req[r].seen \cup {h}
             \/ x.pc = "call" /\ x.p = h /\ x.seen = req[r].seen
    <3>1. CASE IsOpen(h)
      <4> DEFINE y == [req[r] EXCEPT !.seen = req[r].seen \cup {h}, !.queue = t]
      <4>1. req' = [req EXCEPT ![r].seen = @ \cup {Head(req[r].queue)},
                               ![r].queue = Tail(@)]
        BY <1>1, <1>5, <2>1, <3>1 DEF TryNext
      <4>2. y \in ReqType
        <5>1. req[r].seen \cup {h} \in SUBSET Registered
          BY <1>0 DEF ReqType
        <5> HIDE DEF y
        <5>2. PICK z \in SUBSET Registered : z = req[r].seen \cup {h}
          BY <5>1
        <5>3. [req[r] EXCEPT !.seen = z, !.queue = t] \in ReqType
          BY <1>0 DEF ReqType
        <5> QED BY <5>2, <5>3 DEF y
      <4>3. /\ y.pc = req[r].pc /\ y.seen = req[r].seen \cup {h} /\ y.queue = t
            /\ y.region = req[r].region /\ SameAsk(y, req[r])
        BY <1>0, Zenon DEF ReqType, SameAsk
      <4>4. req' = [req EXCEPT ![r] = y]
        BY <1>00, <1>1, <2>1, <4>1
      <4> HIDE DEF y
      <4> QED BY <1>0, <4>2, <4>3, <4>4
    <3>2. CASE ~IsOpen(h)
      <4> DEFINE y == [req[r] EXCEPT !.pc = "call", !.p = h, !.queue = t]
      <4>1. req' = [req EXCEPT ![r].pc = "call", ![r].p = Head(req[r].queue),
                               ![r].queue = Tail(@)]
        BY <1>1, <1>5, <2>1, <3>2 DEF TryNext
      <4>2. y \in ReqType
        BY <1>0 DEF ReqType
      <4>3. /\ y.pc = "call" /\ y.p = h /\ y.seen = req[r].seen /\ y.queue = t
            /\ y.region = req[r].region /\ SameAsk(y, req[r])
        BY <1>0, Zenon DEF ReqType, SameAsk
      <4>4. req' = [req EXCEPT ![r] = y]
        BY <1>00, <1>1, <2>1, <4>1
      <4> HIDE DEF y
      <4> QED BY <4>2, <4>3, <4>4
    <3> QED BY <3>1, <3>2
  <2>3. req[r].seen \cup ToTry(req[r]) = x.seen \cup ToTry(x)
    BY <1>2, <2>1, <2>2 DEF ToTry
  <2>4. Walked(x)
    <3>1. /\ x.pc \in {"try", "call"} /\ x.model = req[r].model
          /\ req[r].seen \subseteq x.seen
      BY <2>2 DEF SameAsk
    <3>2. /\ Offered(x) = Offered(req[r])
          /\ Regional(x) <=> Regional(req[r])
      BY <2>2, SameOffers
    <3>3. CASE x.region = 0
      BY <1>0, <2>2, <2>3, <3>1, <3>2, <3>3 DEF Walked
    <3>4. CASE x.region # 0
      <4>1. PICK i : i = FirstMatch(req[r].model) /\ i = FirstMatch(x.model)
        BY <3>1
      <4>2. /\ Regional(req[r])
            /\ \A k \in 1 .. Len(Routes[i].regions) :
                  k < x.region => RegionOffers(i, k) \subseteq req[r].seen
            /\ RegionOffers(i, x.region) \subseteq req[r].seen \cup ToTry(req[r])
        BY <1>0, <2>2, <3>4, <4>1 DEF Walked
      <4> QED BY <2>3, <3>1, <3>2, <3>4, <4>1, <4>2 DEF Walked
    <3> QED BY <3>3, <3>4
  <2>5. KeptAway(x)
    BY <1>0, <1>1, <2>1, <2>2, SameOffers DEF KeptAway, SameAsk
  <2> QED
    BY <1>0, <2>2, <2>4, <2>5, RouterFacts, RouterOne
<1> QED BY <1>3, <1>4, <1>5

\* An answer ends the request.
LEMMA AnswerStep ==
    ASSUME RouterInv, NEW r \in Requests, Answer(r)
    PROVE  RouterInv'
<1>0. /\ req[r] \in ReqType /\ req[r].pc \in {"call", "probe"}
      /\ KeptAway(req[r]) /\ req[r].p \in Registered
      /\ active' = active /\ counter' = counter
  BY RouterFacts DEF Answer
<1>00. req \in [Requests -> ReqType]
  BY DEF RouterInv, RouterTypes
<1>1. /\ failures' \in [Registered -> 0 .. Threshold]
      /\ sinceFail' \in [Registered -> -1 .. ResetAfter + 1]
  <2>1. 0 \in 0 .. Threshold /\ -1 \in -1 .. ResetAfter + 1
    BY RouterAssumption DEF RouterAssumption
  <2> QED BY <2>1, RouterFacts DEF Answer, RecordSuccess
<1> DEFINE y == [req[r] EXCEPT !.pc = "served", !.queue = <<>>, !.seen = {}, !.region = 0]
<1>2. y \in ReqType
  <2>1. <<>> \in Seq(Registered) /\ {} \in SUBSET Registered /\ 0 \in Nat
    OBVIOUS
  <2> QED BY <1>0, <2>1 DEF ReqType
<1>3. y.pc = "served" /\ y.p = req[r].p /\ y.queue = <<>> /\ SameAsk(y, req[r])
  BY <1>0, Zenon DEF ReqType, SameAsk
<1>4. req' = [req EXCEPT ![r] = y]
  BY <1>00 DEF Answer
<1> HIDE DEF y
<1>5. Walked(y)
  BY <1>3 DEF Walked
<1>6. ToSet(<<>>) = {}
  BY DEF ToSet
<1>7. KeptAway(y)
  BY <1>0, <1>3, <1>6, SameOffers DEF KeptAway, SameAsk
<1> QED
  BY <1>0, <1>1, <1>2, <1>3, <1>4, <1>5, <1>7, RouterFacts, RouterOne

\* A failed call has been seen; the request goes on with the rest of its list.
LEMMA FailStep ==
    ASSUME RouterInv, NEW r \in Requests, Fail(r)
    PROVE  RouterInv'
<1>0. /\ req[r] \in ReqType /\ req[r].pc \in {"call", "probe"}
      /\ Walked(req[r]) /\ KeptAway(req[r]) /\ req[r].p \in Registered
      /\ active' = active /\ counter' = counter
  BY RouterFacts DEF Fail
<1>00. req \in [Requests -> ReqType]
  BY DEF RouterInv, RouterTypes
<1>1. /\ failures' \in [Registered -> 0 .. Threshold]
      /\ sinceFail' \in [Registered -> -1 .. ResetAfter + 1]
  <2>1. Threshold \in Nat /\ 0 \in -1 .. ResetAfter + 1
    BY RouterAssumption DEF RouterAssumption
  <2>2. failures \in [Registered -> 0 .. Threshold]
        /\ sinceFail \in [Registered -> -1 .. ResetAfter + 1]
    BY RouterFacts
  <2>3. PICK f : f = IF failures[req[r].p] < Threshold THEN failures[req[r].p] + 1
                     ELSE failures[req[r].p]
    OBVIOUS
  <2>4. f \in 0 .. Threshold
    BY <1>0, <2>1, <2>2, <2>3
  <2>5. failures' = [failures EXCEPT ![req[r].p] = f]
        /\ sinceFail' = [sinceFail EXCEPT ![req[r].p] = 0]
    BY <1>0, <2>2, <2>3 DEF Fail, RecordFailure
  <2> QED BY <2>1, <2>2, <2>4, <2>5
<1>2. PICK z \in SUBSET Registered : z = req[r].seen \cup {req[r].p}
  BY <1>0 DEF ReqType
<1>3. PICK at \in {"resolve", "try"} : at = IF req[r].pc = "probe" THEN "resolve" ELSE "try"
  OBVIOUS
<1> DEFINE y == [req[r] EXCEPT !.pc = at, !.seen = z, !.p = ""]
<1>4. y \in ReqType
  BY <1>0 DEF ReqType
<1>5. /\ y.pc = at /\ y.seen = z /\ y.queue = req[r].queue /\ y.region = req[r].region
      /\ SameAsk(y, req[r])
  BY <1>0, Zenon DEF ReqType, SameAsk
<1>6. req' = [req EXCEPT ![r] = y]
  BY <1>00, <1>2, <1>3 DEF Fail
<1> HIDE DEF y
<1>7. /\ Offered(y) = Offered(req[r])
      /\ Regional(y) <=> Regional(req[r])
      /\ ByRollout(y) <=> ByRollout(req[r])
  BY <1>5, SameOffers
<1>8. Walked(y)
  <2>1. CASE req[r].pc = "probe"
    BY <1>3, <1>5, <2>1 DEF Walked
  <2>2. CASE req[r].pc = "call"
    <3>1. y.pc = "try" /\ y.model = req[r].model /\ req[r].seen \subseteq y.seen
      BY <1>2, <1>3, <1>5, <2>2 DEF SameAsk
    <3>2. req[r].seen \cup ToTry(req[r]) = y.seen \cup ToTry(y)
      BY <1>2, <1>5, <2>2, <3>1 DEF ToTry
    <3>3. CASE y.region = 0
      BY <1>0, <1>5, <1>7, <2>2, <3>1, <3>2, <3>3 DEF Walked
    <3>4. CASE y.region # 0
      <4>1. PICK i : i = FirstMatch(req[r].model) /\ i = FirstMatch(y.model)
        BY <3>1
      <4>2. /\ Regional(req[r])
            /\ \A k \in 1 .. Len(Routes[i].regions) :
                  k < y.region => RegionOffers(i, k) \subseteq req[r].seen
            /\ RegionOffers(i, y.region) \subseteq req[r].seen \cup ToTry(req[r])
        BY <1>0, <1>5, <2>2, <3>4, <4>1 DEF Walked
      <4> QED BY <1>7, <3>1, <3>2, <3>4, <4>1, <4>2 DEF Walked
    <3> QED BY <3>3, <3>4
  <2> QED BY <1>0, <2>1, <2>2
<1>9. KeptAway(y)
  BY <1>0, <1>3, <1>5, <1>7 DEF KeptAway, SameAsk
<1> QED
  BY <1>0, <1>1, <1>3, <1>4, <1>5, <1>6, <1>8, <1>9, RouterFacts, RouterOne

\* The world around changes no request: rollouts move on, time passes.
LEMMA AroundStep ==
    ASSUME RouterInv,
           \/ Tick \/ UNCHANGED routerVars
           \/ \E m \in Models : \E a \in Rollouts[m] \cup {NoRollout} :
                 RolloutChanges(m, a)
    PROVE  RouterInv'
<1>1. req' = req /\ failures' = failures /\ counter' = counter
  BY DEF Tick, routerVars, RolloutChanges, Breaker
<1>2. sinceFail' \in [Registered -> -1 .. ResetAfter + 1]
  <2>1. sinceFail \in [Registered -> -1 .. ResetAfter + 1] /\ ResetAfter \in Nat
    BY RouterAssumption DEF RouterInv, RouterTypes, RouterAssumption
  <2>2. CASE Tick
    BY <2>1, <2>2 DEF Tick
  <2>3. CASE ~Tick
    BY <2>1, <2>3 DEF routerVars, RolloutChanges, Breaker
  <2> QED BY <2>2, <2>3
<1>3. /\ active' = [m \in Models |-> active'[m]]
      /\ \A m \in Models : active'[m] \in Rollouts[m] \cup {NoRollout}
  <2>1. /\ active = [m \in Models |-> active[m]]
        /\ \A m \in Models : active[m] \in Rollouts[m] \cup {NoRollout}
    BY DEF RouterInv, RouterTypes
  <2>2. CASE active' = active
    BY <2>1, <2>2
  <2>3. CASE active' # active
    <3>1. PICK m \in Models : \E a \in Rollouts[m] \cup {NoRollout} :
            active' = [active EXCEPT ![m] = a]
      BY <2>3 DEF Tick, routerVars, RolloutChanges
    <3>2. PICK a \in Rollouts[m] \cup {NoRollout} : active' = [active EXCEPT ![m] = a]
      BY <3>1
    <3> QED BY <2>1, <3>2
  <2> QED BY <2>2, <2>3
<1>4. RouterTypes'
  BY <1>1, <1>2, <1>3 DEF RouterInv, RouterTypes
<1>5. \A q \in Requests : Walked(req'[q]) /\ KeptAway(req'[q])
  BY <1>1 DEF RouterInv
<1>6. \A q \in Requests : Walked(req[q])' /\ KeptAway(req[q])'
  BY <1>5
<1> QED BY <1>4, <1>6 DEF RouterInv

LEMMA RouterStart ==
    ASSUME RouterInit
    PROVE  RouterInv
<1>1. Threshold \in Nat /\ ResetAfter \in Nat
  BY RouterAssumption DEF RouterAssumption
<1>2. PICK n \in ReqType : n = NoRequest
  BY NoRequestType
<1>3. n.pc = "idle" /\ n.act = NoRollout
  BY <1>2 DEF NoRequest
<1>4. req = [r \in Requests |-> n]
  BY <1>2 DEF RouterInit
<1>5. \A r \in Requests : req[r] = n
  BY <1>4
<1>6. req \in [Requests -> ReqType]
  BY <1>4
<1>7. /\ failures \in [Registered -> 0 .. Threshold]
      /\ sinceFail \in [Registered -> -1 .. ResetAfter + 1]
      /\ counter \in [Lists -> Nat]
      /\ active = [m \in Models |-> active[m]]
      /\ \A m \in Models : active[m] \in Rollouts[m] \cup {NoRollout}
  BY <1>1 DEF RouterInit
<1>8. RouterTypes
  BY <1>3, <1>5, <1>6, <1>7 DEF RouterTypes
<1>9. Walked(n)
  BY <1>3 DEF Walked
<1>10. KeptAway(n)
  BY <1>3 DEF KeptAway, ByRollout
<1> QED BY <1>5, <1>8, <1>9, <1>10 DEF RouterInv

LEMMA RouterStep ==
    ASSUME RouterInv, [RouterNext]_routerVars
    PROVE  RouterInv'
<1>1. ASSUME NEW r \in Requests, NEW m \in Models, NEW k \in RequestKinds, NEW d \in Draws,
             Begin(r, m, k, d)
      PROVE  RouterInv'
  BY <1>1, BeginStep
<1>2. ASSUME NEW r \in Requests,
             \/ TryCanary(r) \/ Resolve(r) \/ EnterRegion(r)
             \/ TryNext(r) \/ Answer(r) \/ Fail(r)
      PROVE  RouterInv'
  BY <1>2, TryCanaryStep, ResolveStep, EnterRegionStep, TryNextStep, AnswerStep, FailStep
<1>3. ASSUME \/ Tick \/ UNCHANGED routerVars
             \/ \E m \in Models : \E a \in Rollouts[m] \cup {NoRollout} :
                   RolloutChanges(m, a)
      PROVE  RouterInv'
  BY <1>3, AroundStep
<1> QED BY <1>1, <1>2, <1>3 DEF RouterNext

\* However requests, breakers, rollouts and time interleave, every request
\* knows which of the providers it may be sent to it has seen and which are
\* left, region by region, and keeps away from a canary it was not drawn for
\* (internal/router/router.go).
THEOREM RouterInvariant == RouterSpec => []RouterInv
<1>1. RouterInit => RouterInv
  BY RouterStart
<1>2. RouterInv /\ [RouterNext]_routerVars => RouterInv'
  BY RouterStep
<1> QED BY <1>1, <1>2, PTL DEF RouterSpec

\* The router only ever calls providers of the registry, and its breaker and
\* round-robin counters keep their ranges.
THEOREM RouterTypesHold == RouterSpec => []RouterTypeOK
<1>1. RouterInv => RouterTypeOK
  <2> SUFFICES ASSUME RouterInv PROVE RouterTypeOK
    OBVIOUS
  <2>1. ASSUME NEW r \in Requests
        PROVE  /\ req[r].pc \in {"idle", "canary", "resolve", "region", "try", "call",
                                 "probe", "served", "failed"}
               /\ req[r].pc \in {"call", "probe"} => req[r].p \in Registered
               /\ ToSet(req[r].queue) \subseteq Registered
               /\ req[r].seen \subseteq Registered
    <3>1. /\ req[r] \in ReqType
          /\ req[r].pc \in {"call", "probe"} => req[r].p \in Registered
      BY RouterFacts
    <3>2. PICK q \in Seq(Registered) : q = req[r].queue
      BY <3>1 DEF ReqType
    <3>3. ToSet(q) \subseteq Registered
      BY QueueParts
    <3> QED BY <3>1, <3>2, <3>3 DEF ReqType
  <2> QED BY <2>1 DEF RouterTypeOK, RouterInv, RouterTypes
<1> QED BY <1>1, RouterInvariant, PTL

\* A request fails only when every provider it may be sent to has failed it or
\* was circuit-broken at its turn, for every configuration and whatever other
\* requests do to the breaker meanwhile.
THEOREM RouterExhaustive == RouterSpec => []FallbackExhaustive
<1>1. RouterInv => FallbackExhaustive
  BY DEF RouterInv, Walked, FallbackExhaustive
<1> QED BY <1>1, RouterInvariant, PTL

\* The canary serves only requests the draw has given it, though rollouts come
\* and go while requests are under way.
THEOREM RouterCanary == RouterSpec => []CanaryByDraw
<1>1. RouterInv => CanaryByDraw
  BY DEF RouterInv, KeptAway, CanaryByDraw
<1> QED BY <1>1, RouterInvariant, PTL
=============================================================================
