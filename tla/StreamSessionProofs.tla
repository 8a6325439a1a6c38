------------------------- MODULE StreamSessionProofs --------------------------
(***************************************************************************)
(* Proofs about StreamSession for syntheses of any number of chunks.       *)
(***************************************************************************)
EXTENDS StreamSession, TLAPS

-----------------------------------------------------------------------------
(* Items are chunks or ends, and told apart by their kind. *)

LEMMA ItemKinds ==
    /\ \A i \in 1..MaxChunks :
         Chunk(i) \in Items /\ Chunk(i).kind = "chunk" /\ Chunk(i).number = i
    /\ \A kind \in {"done", "error"} :
         StreamEnd(kind) \in Items /\ StreamEnd(kind).kind = kind
    /\ \A x \in Items :
         \/ x.kind = "chunk" /\ x.number \in 1..MaxChunks /\ x = Chunk(x.number)
         \/ x.kind \in {"done", "error"} /\ x = StreamEnd(x.kind)
BY DEF Items, Chunk, StreamEnd

\* What the handler has in its hands fits what it does.
ItemFits ==
    /\ handler = "sending" => item \in Items /\ item.kind = "chunk"
    /\ handler = "telling" => item \in Items /\ item.kind \in {"done", "error"}

(* The slot is owed from the dispatch on, and it is the inner try that knows *)
(* of it; only a handler that waits can have its request in the queue.       *)
SlotInv ==
    /\ handler = "reading" => request = "new"
    /\ request = "queued" => handler = "waiting"
    /\ inner => owed = 1 /\ handler \notin {"reading", "waiting", "ended"}
    /\ handler \in {"getting", "sending"} => inner
    /\ handler = "waiting" => owed = IF request = "queued" THEN 0 ELSE 1
    /\ handler # "waiting" /\ ~inner => owed = 0

TypeInv == StreamTypeOK /\ ItemFits /\ SlotInv

\* Nothing is owed any more when the handler leaves.
LEMMA LeavePaysBack ==
    ASSUME SlotInv, inner \in BOOLEAN, handler # "waiting", Leave
    PROVE  owed' = 0
<1>1. CASE inner
  BY <1>1 DEF SlotInv, Leave
<1>2. CASE ~inner
  BY <1>2 DEF SlotInv, Leave
<1> QED
  BY <1>1, <1>2

LEMMA TypeInductive ==
    ASSUME TypeInv, [Next]_vars
    PROVE  TypeInv'
<1> USE MaxChunksAssumption, ItemKinds
      DEF TypeInv, StreamTypeOK, ItemFits, SlotInv, workerVars, clientVars, handlerVars
<1>1. CASE Reject
  BY <1>1 DEF Reject, Telling
<1>2. CASE Submit
  BY <1>2 DEF Submit
<1>3. CASE NoFrame
  BY <1>3 DEF NoFrame
<1>4. CASE Dispatched
  BY <1>4 DEF Dispatched
<1>5. CASE Get
  <2>1. Head(results) \in Items /\ Tail(results) \in Seq(Items)
    BY <1>5 DEF Get
  <2> QED
    BY <1>5, <2>1 DEF Get
<1>6. CASE Timeout
  BY <1>6 DEF Timeout, Telling
<1>7. CASE GetRaises
  <2>1. owed = 1 /\ owed' = owed - 1
    BY <1>7 DEF GetRaises
  <2>2. owed' = 0
    BY <2>1
  <2> QED
    BY <1>7, <2>2 DEF GetRaises, Telling
<1>8. CASE SendChunk
  <2>1. item.number \in 1..MaxChunks
    BY <1>8 DEF SendChunk
  <2> QED
    BY <1>8, <2>1 DEF SendChunk
<1>9. CASE Tell
  BY <1>9 DEF Tell
<1>10. CASE Hangup
  <2>1. Leave
    BY <1>10 DEF Hangup
  <2> QED
    BY <1>10, <2>1, LeavePaysBack DEF Hangup, Leave
<1>11. CASE SendRaises
  <2>1. Leave
    BY <1>11 DEF SendRaises
  <2> QED
    BY <1>11, <2>1, LeavePaysBack DEF SendRaises, Leave
<1>12. CASE Dispatch
  BY <1>12 DEF Dispatch
<1>13. CASE MakeChunk
  <2>1. made + 1 \in 1..MaxChunks
    BY <1>13 DEF MakeChunk
  <2> QED
    BY <1>13, <2>1 DEF MakeChunk
<1>14. CASE EndStream
  BY <1>14 DEF EndStream
<1>15. CASE WorkerDies
  BY <1>15 DEF WorkerDies
<1>16. CASE ClientLeaves
  BY <1>16 DEF ClientLeaves
<1>17. CASE UNCHANGED vars
  BY <1>17 DEF vars
<1> QED
  BY <1>1, <1>2, <1>3, <1>4, <1>5, <1>6, <1>7, <1>8, <1>9, <1>10, <1>11, <1>12,
     <1>13, <1>14, <1>15, <1>16, <1>17 DEF Next, HandlerStep, WorkerStep

-----------------------------------------------------------------------------
(* The chunks: while the handler reads, what was sent, what it has in its   *)
(* hands and what is unread are together what the worker made, in order;    *)
(* and the end is behind them all.                                          *)

Reads == {"reading", "waiting", "getting", "sending"}

Taken == IF handler = "sending" THEN Len(sent) + 1 ELSE Len(sent)

Unread == IF request = "over" THEN Len(results) - 1 ELSE Len(results)

ChunksInOrder ==
    handler \in Reads =>
        /\ Unread >= 0
        /\ made = Taken + Unread
        /\ \A i \in 1..Unread : results[i] = Chunk(Taken + i)
        /\ request = "over" => results[Len(results)].kind # "chunk"

HandsInOrder ==
    /\ handler = "sending" => item.number = Len(sent) + 1
    /\ handler = "telling" /\ item.kind = "done" => request = "over" /\ Len(sent) = made

FramesInOrder ==
    /\ handler \notin {"closing", "ended"} => final = "none"
    /\ handler = "closing" => final # "none"
    /\ closed => handler = "ended"

StreamInv == TypeInv /\ ChunksInOrder /\ HandsInOrder /\ FramesInOrder /\ DoneIsWhole

LEMMA InitInv == Init => StreamInv
<1> SUFFICES ASSUME Init PROVE StreamInv
  OBVIOUS
<1>1. StreamTypeOK
  <2>1. results \in Seq(Items) /\ sent \in Seq(1..MaxChunks)
    BY DEF Init
  <2>2. made \in 0..MaxChunks /\ owed \in {0, 1}
    BY MaxChunksAssumption DEF Init
  <2>3. item \in Items \cup {NoItem}
    BY DEF Init
  <2> QED
    BY <2>1, <2>2, <2>3 DEF Init, StreamTypeOK
<1>2. ItemFits /\ SlotInv
  BY DEF Init, ItemFits, SlotInv
<1>3. TypeInv
  BY <1>1, <1>2 DEF TypeInv
<1>4. ChunksInOrder
  BY DEF Init, ChunksInOrder, Taken, Unread, Reads
<1>5. HandsInOrder /\ FramesInOrder /\ DoneIsWhole
  BY DEF Init, HandsInOrder, FramesInOrder, DoneIsWhole
<1> QED
  BY <1>3, <1>4, <1>5 DEF StreamInv

\* get() returns the chunk that is due, or the end when no chunk is left.
LEMMA GetInOrder ==
    ASSUME StreamInv, Get
    PROVE  ChunksInOrder' /\ HandsInOrder'
<1> USE DEF StreamInv, TypeInv, StreamTypeOK
<1>1. /\ handler = "getting" /\ results # <<>> /\ results' = Tail(results)
      /\ item' = Head(results) /\ UNCHANGED <<request, made, sent>>
      /\ handler' = IF item'.kind = "chunk" THEN "sending" ELSE "telling"
  BY DEF Get, clientVars
<1>2. /\ Len(results) \in Nat \ {0} /\ Len(results') = Len(results) - 1
      /\ Head(results) = results[1]
      /\ \A i \in 1..Len(results') : results'[i] = results[i + 1]
  BY <1>1
<1>3. /\ Unread \in Nat /\ Len(sent) \in Nat /\ made = Len(sent) + Unread
      /\ \A i \in 1..Unread : results[i] = Chunk(Len(sent) + i)
      /\ request = "over" => results[Len(results)].kind # "chunk"
  BY <1>1, <1>2 DEF ChunksInOrder, Taken, Unread, Reads
<1>4. CASE Unread >= 1
  <2>1. item' = Chunk(Len(sent) + 1)
    BY <1>1, <1>2, <1>3, <1>4
  <2>2. item'.kind = "chunk" /\ item'.number = Len(sent) + 1
    BY <2>1 DEF Chunk
  <2>3. Unread' = Unread - 1 /\ Taken' = Len(sent) + 1
    BY <1>1, <1>2, <2>2 DEF Unread, Taken
  <2>4. \A i \in 1..Unread' : results'[i] = Chunk(Taken' + i)
    <3> SUFFICES ASSUME NEW i \in 1..Unread' PROVE results'[i] = Chunk(Taken' + i)
      OBVIOUS
    <3>1. i + 1 \in 1..Unread /\ i \in 1..Len(results')
      BY <1>2, <1>3, <2>3 DEF Unread
    <3>2. results'[i] = Chunk(Len(sent) + (i + 1))
      BY <1>2, <1>3, <3>1
    <3>3. Len(sent) + (i + 1) = Taken' + i
      BY <1>3, <2>3, <3>1
    <3> QED
      BY <3>2, <3>3
  <2>5. request' = "over" => results'[Len(results')].kind # "chunk"
    BY <1>1, <1>2, <1>3, <1>4 DEF Unread
  <2>6. made' = Taken' + Unread' /\ Unread' >= 0
    BY <1>1, <1>3, <1>4, <2>3
  <2>7. ChunksInOrder'
    BY <2>4, <2>5, <2>6 DEF ChunksInOrder
  <2>8. HandsInOrder'
    BY <1>1, <2>2 DEF HandsInOrder
  <2> QED
    BY <2>7, <2>8
<1>5. CASE Unread = 0
  <2>1. request = "over" /\ Len(results) = 1
    BY <1>2, <1>5 DEF Unread
  <2>2. item'.kind # "chunk" /\ handler' = "telling"
    BY <1>1, <1>2, <1>3, <2>1
  <2>3. Len(sent) = made
    BY <1>3, <1>5
  <2> QED
    BY <1>1, <2>1, <2>2, <2>3 DEF ChunksInOrder, HandsInOrder, Reads
<1> QED
  BY <1>3, <1>4, <1>5

\* The worker appends the chunk that is due, and the end behind all of them.
LEMMA WorkerInOrder ==
    ASSUME StreamInv, MakeChunk \/ EndStream
    PROVE  ChunksInOrder'
<1> USE DEF StreamInv, TypeInv, StreamTypeOK
<1> SUFFICES ASSUME handler \in Reads PROVE ChunksInOrder'
  BY DEF ChunksInOrder, MakeChunk, EndStream, handlerVars
<1>1. /\ request = "working" /\ UNCHANGED <<handler, sent>>
      /\ Len(results) \in Nat /\ Len(sent) \in Nat /\ made \in Nat
      /\ \A x : /\ Len(Append(results, x)) = Len(results) + 1
                /\ Append(results, x)[Len(results) + 1] = x
                /\ \A i \in 1..Len(results) : Append(results, x)[i] = results[i]
  BY MaxChunksAssumption DEF MakeChunk, EndStream, handlerVars, clientVars
<1>2. /\ Taken' = Taken /\ Taken \in Nat
      /\ Unread = Len(results) /\ made = Taken + Len(results)
      /\ \A i \in 1..Len(results) : results[i] = Chunk(Taken + i)
  BY <1>1 DEF ChunksInOrder, Taken, Unread
<1>3. CASE MakeChunk
  <2>1. made' = made + 1 /\ results' = Append(results, Chunk(made + 1)) /\ request' = "working"
    BY <1>1, <1>3 DEF MakeChunk
  <2>2. Unread' = Len(results) + 1
    BY <1>1, <2>1 DEF Unread
  <2>3. \A i \in 1..Unread' : results'[i] = Chunk(Taken' + i)
    <3> SUFFICES ASSUME NEW i \in 1..Unread' PROVE results'[i] = Chunk(Taken' + i)
      OBVIOUS
    <3>1. CASE i = Len(results) + 1
      <4>1. Taken + i = made + 1
        BY <1>1, <1>2, <3>1
      <4> QED
        BY <1>1, <1>2, <2>1, <3>1, <4>1
    <3>2. CASE i \in 1..Len(results)
      BY <1>1, <1>2, <2>1, <3>2
    <3> QED
      BY <1>1, <2>2, <3>1, <3>2
  <2> QED
    BY <1>1, <1>2, <2>1, <2>2, <2>3 DEF ChunksInOrder
<1>4. CASE EndStream
  <2>1. PICK kind \in {"done", "error"} : results' = Append(results, StreamEnd(kind))
    BY <1>4 DEF EndStream
  <2>2. request' = "over" /\ made' = made
    BY <1>4 DEF EndStream
  <2>3. Len(results') = Len(results) + 1 /\ Unread' = Len(results)
    BY <1>1, <2>1, <2>2 DEF Unread
  <2>4. results'[Len(results')].kind # "chunk"
    BY <1>1, <2>1, <2>3 DEF StreamEnd
  <2>5. \A i \in 1..Unread' : results'[i] = Chunk(Taken' + i)
    BY <1>1, <1>2, <2>1, <2>3
  <2> QED
    BY <1>1, <1>2, <2>2, <2>3, <2>4, <2>5 DEF ChunksInOrder
<1> QED
  BY <1>3, <1>4

LEMMA ChunksInductive ==
    ASSUME StreamInv, [Next]_vars
    PROVE  ChunksInOrder' /\ HandsInOrder'
<1> USE DEF StreamInv, TypeInv, StreamTypeOK, ChunksInOrder, HandsInOrder, Taken, Unread,
        Reads, handlerVars, workerVars, clientVars
<1>1. CASE Reject \/ Timeout \/ GetRaises
  <2>1. handler' = "telling" /\ item'.kind = "error"
    BY <1>1 DEF Reject, Timeout, GetRaises, Telling, StreamEnd
  <2> QED
    BY <2>1
<1>2. CASE Submit \/ Dispatched \/ NoFrame
  BY <1>2 DEF Submit, Dispatched, NoFrame, SlotInv
<1>3. CASE Get
  BY <1>3, GetInOrder
<1>4. CASE SendChunk
  <2>1. Len(sent') = Len(sent) + 1 /\ handler' = "getting" /\ Len(sent) \in Nat
    BY <1>4 DEF SendChunk
  <2> QED
    BY <1>4, <2>1 DEF SendChunk
<1>5. CASE Tell \/ Hangup \/ SendRaises
  BY <1>5 DEF Tell, Hangup, SendRaises, Leave
<1>6. CASE Dispatch
  BY <1>6 DEF Dispatch
<1>7. CASE MakeChunk \/ EndStream
  <2>1. HandsInOrder'
    BY <1>7 DEF MakeChunk, EndStream
  <2> QED
    BY <1>7, <2>1, WorkerInOrder
<1>8. CASE WorkerDies
  BY <1>8 DEF WorkerDies
<1>9. CASE ClientLeaves \/ UNCHANGED vars
  BY <1>9 DEF ClientLeaves, vars
<1> QED
  BY <1>1, <1>2, <1>3, <1>4, <1>5, <1>6, <1>7, <1>8, <1>9 DEF Next, HandlerStep, WorkerStep

\* The frames: text only once, the close behind it, "done" behind every chunk.
LEMMA FramesInductive ==
    ASSUME StreamInv, [Next]_vars
    PROVE  FramesInOrder' /\ DoneIsWhole'
<1> USE DEF StreamInv, TypeInv, StreamTypeOK, FramesInOrder, DoneIsWhole,
        handlerVars, workerVars, clientVars
<1>1. CASE Reject \/ Submit \/ NoFrame \/ Dispatched \/ Timeout \/ GetRaises \/ SendChunk
  BY <1>1 DEF Reject, Submit, NoFrame, Dispatched, Timeout, GetRaises, SendChunk, Telling
<1>2. CASE Get
  BY <1>2 DEF Get
<1>3. CASE Tell
  BY <1>3 DEF Tell, HandsInOrder, ItemFits
<1>4. CASE Hangup \/ SendRaises
  BY <1>4 DEF Hangup, SendRaises, Leave
<1>5. CASE Dispatch
  BY <1>5 DEF Dispatch
<1>6. CASE MakeChunk \/ EndStream \/ WorkerDies
  BY <1>6 DEF MakeChunk, EndStream, WorkerDies
<1>7. CASE ClientLeaves \/ UNCHANGED vars
  BY <1>7 DEF ClientLeaves, vars
<1> QED
  BY <1>1, <1>2, <1>3, <1>4, <1>5, <1>6, <1>7 DEF Next, HandlerStep, WorkerStep

LEMMA StreamInvariant == Spec => []StreamInv
<1>1. StreamInv /\ [Next]_vars => StreamInv'
  BY TypeInductive, ChunksInductive, FramesInductive DEF StreamInv
<1> QED
  BY <1>1, InitInv, PTL DEF Spec

\* Every field has its type, and no slot is given back twice.
THEOREM StreamTypeCorrect == Spec => []StreamTypeOK
<1>1. StreamInv => StreamTypeOK
  BY DEF StreamInv, TypeInv
<1> QED
  BY <1>1, StreamInvariant, PTL

\* Whatever times out, dies or leaves, "done" is only said of a whole synthesis.
THEOREM DoneIsWholeHolds == Spec => []DoneIsWhole
<1>1. StreamInv => DoneIsWhole
  BY DEF StreamInv
<1> QED
  BY <1>1, StreamInvariant, PTL

\* A handler that has ended owes no release, now or later.
THEOREM EndedOwesNothingHolds == Spec => []EndedOwesNothing
<1>1. StreamInv => EndedOwesNothing
  BY DEF StreamInv, TypeInv, SlotInv, EndedOwesNothing
<1> QED
  BY <1>1, StreamInvariant, PTL

\* Every session is one of the protocol: the chunks from the first one on, in
\* order and without a gap, one text frame, the close.
THEOREM RefinesStreamProtocol == Spec => ImplementsProtocol
<1>1. Init => Protocol!ProtocolInit
  BY DEF Init, Protocol!ProtocolInit
<1>2. StreamInv /\ [Next]_vars
        => [Protocol!BinaryFrame \/ Protocol!TextFrame \/ Protocol!Close]_(Protocol!protocolVars)
  <2> SUFFICES ASSUME StreamInv, [Next]_vars
               PROVE  [Protocol!BinaryFrame \/ Protocol!TextFrame \/ Protocol!Close]_(Protocol!protocolVars)
    OBVIOUS
  <2> USE DEF StreamInv, FramesInOrder, clientVars, Protocol!protocolVars
  <2>1. CASE SendChunk
    BY <2>1 DEF SendChunk, HandsInOrder, Protocol!BinaryFrame
  <2>2. CASE Tell
    BY <2>2 DEF Tell, TypeInv, ItemFits, Protocol!TextFrame
  <2>3. CASE Hangup
    BY <2>3 DEF Hangup, TypeInv, StreamTypeOK, Protocol!Close
  <2>4. CASE Reject \/ Submit \/ NoFrame \/ Dispatched \/ Get \/ Timeout \/ GetRaises \/ SendRaises
    BY <2>4 DEF Reject, Submit, NoFrame, Dispatched, Get, Timeout, GetRaises, SendRaises
  <2>5. CASE Dispatch \/ WorkerStep \/ ClientLeaves \/ UNCHANGED vars
    BY <2>5 DEF Dispatch, WorkerStep, MakeChunk, EndStream, WorkerDies, ClientLeaves, vars
  <2> QED
    BY <2>1, <2>2, <2>3, <2>4, <2>5 DEF Next, HandlerStep
<1> QED
  BY <1>1, <1>2, StreamInvariant, PTL
     DEF Spec, ImplementsProtocol, Protocol!StreamProtocolSpec
=============================================================================
