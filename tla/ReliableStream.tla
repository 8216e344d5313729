--------------------------- MODULE ReliableStream ---------------------------
(***************************************************************************)
(* What a link promises to the code above Network::Handler: each end reads *)
(* the chunks the other wrote, each once, in order.                        *)
(***************************************************************************)
EXTENDS Naturals, Sequences

CONSTANTS Ends, MaxChunks, Chunk(_)

VARIABLES written,  \* per end: the number of chunks written so far
          received  \* per end: the contents read so far

vars == <<written, received>>

Init == /\ written = [e \in Ends |-> 0]
        /\ received = [e \in Ends |-> << >>]

Write(e) ==
  /\ \E count \in 1 .. MaxChunks : written' = [written EXCEPT ![e] = @ + count]
  /\ UNCHANGED received

Deliver(e) ==
  /\ \E p \in Ends \ {e} : Len(received[e]) < written[p]
  /\ received' = [received EXCEPT ![e] = Append(@, Chunk(Len(@)))]
  /\ UNCHANGED written

Next == \E e \in Ends : Write(e) \/ Deliver(e)

Spec == Init /\ [][Next]_vars
=============================================================================
