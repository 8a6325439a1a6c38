---------------------------- MODULE StreamProtocol ----------------------------
(***************************************************************************)
(* What the client of /v1/stream is promised: the chunks of one synthesis  *)
(* in their order, then one final text frame, then the close; and nothing  *)
(* out of that order, wherever the connection breaks off.                  *)
(***************************************************************************)
EXTENDS Naturals, Sequences

VARIABLES
    sent,       \* the numbers of the chunks that were sent as binary frames
    final,      \* the text frame
    closed      \* the server has closed the connection

protocolVars == <<sent, final, closed>>

ProtocolInit == sent = <<>> /\ final = "none" /\ closed = FALSE

BinaryFrame ==
    /\ final = "none"
    /\ sent' = Append(sent, Len(sent) + 1)
    /\ UNCHANGED <<final, closed>>

TextFrame ==
    /\ final = "none"
    /\ final' \in {"done", "error"}
    /\ UNCHANGED <<sent, closed>>

Close ==
    /\ final # "none" /\ ~closed
    /\ closed' = TRUE
    /\ UNCHANGED <<sent, final>>

StreamProtocolSpec ==
    ProtocolInit /\ [][BinaryFrame \/ TextFrame \/ Close]_protocolVars
=============================================================================
