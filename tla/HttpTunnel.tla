----------------------------- MODULE HttpTunnel ------------------------------
(***************************************************************************)
(* A stream through HTTP requests (src/tpn/httptunnel.cpp).  What the      *)
(* client writes goes up in the bodies of POST requests, each as long as   *)
(* its Content-Length says, filled up with padding when nothing was        *)
(* written for a while.  What the server writes comes down in the          *)
(* responses to GET requests, which it ends in the same case.              *)
(*                                                                         *)
(* A proxy on the way may keep a request until it has its whole body.  The *)
(* data is counted, not looked at.  A flusher is an alarm (module          *)
(* Scheduler); here none runs while a thread writes.                       *)
(***************************************************************************)
EXTENDS Naturals, FiniteSets

CONSTANTS
  DefaultPostSize, MaxPostSize, MaxDownloadSize,
  MaxRecord,    \* the data one record may have: 65535
  MaxWritten    \* bound on what is written, each way

ASSUME HttpTunnelAssumption ==
  /\ {DefaultPostSize, MaxPostSize, MaxDownloadSize, MaxRecord, MaxWritten} \subseteq Nat
  /\ 8 <= DefaultPostSize /\ DefaultPostSize <= MaxPostSize
  /\ MaxDownloadSize > 1 /\ MaxRecord > 0

VARIABLES
  mPostSize, mPostLeft,
  post,             \* the request of mUpSock: length, bytes of the body, data in them
  postState,        \* "none", "open", "whole", "incoming", "answered"
  upTodo,           \* what the client's writeData has left to write
  upFlusher,        \* its mFlusher is scheduled
  upWritten, upRead,
  mDownloadLeft,
  serverDown,       \* the server's mDownSock: "none", "open" or "closed"
  entryDown,        \* downSock in the entry of Sessions
  clientDown,       \* the client's mDownSock is connected
  response,         \* what is in the connection: the data, and if it has ended
  downTodo, downFlusher, downWritten, downRead

upVars == <<mPostSize, mPostLeft, post, postState, upTodo, upFlusher, upWritten, upRead>>
downVars == <<mDownloadLeft, serverDown, entryDown, clientDown, response, downTodo, downFlusher,
              downWritten, downRead>>
httpVars == <<upVars, downVars>>

Smaller(i, j) == IF i < j THEN i ELSE j
Most(i, j) == IF i > j THEN i ELSE j

NoPost == [size |-> 0, sent |-> 0, data |-> 0]
NewResponse == [data |-> 0, ended |-> FALSE]

HttpInit ==
  /\ mPostSize = DefaultPostSize /\ mPostLeft = 0
  /\ post = NoPost /\ postState = "none"
  /\ upTodo = 0 /\ upFlusher = FALSE /\ upWritten = 0 /\ upRead = 0
  /\ mDownloadLeft = 0
  /\ serverDown = "none" /\ entryDown = FALSE /\ clientDown = FALSE
  /\ response = NewResponse
  /\ downTodo = 0 /\ downFlusher = FALSE /\ downWritten = 0 /\ downRead = 0

-----------------------------------------------------------------------------
(* Up: the client.                                                         *)

\* The body ends with TunnelDisconnect; then the client waits for an answer.
AtWork == postState \in {"none", "open"}

\* MUTANT of UpdatePostSize: the sizes are subtracted the wrong way round.
UpdatePostSizeBack(left) ==
  LET size == IF left = 0 THEN Smaller(mPostSize * 2, MaxPostSize) ELSE mPostSize
  IN  mPostSize' = size + left + 1

\* The next body is twice as long, after one that was filled with data, or as
\* long as this one would have had to be.
UpdatePostSize(left) ==
  LET size == IF left = 0 THEN Smaller(mPostSize * 2, MaxPostSize) ELSE mPostSize
  IN  mPostSize' = Most(size - left + 1, DefaultPostSize)

\* writeData cancels the flusher.
Write(size) ==
  /\ AtWork /\ upTodo = 0 /\ size > 0 /\ upWritten + size <= MaxWritten
  /\ upTodo' = size /\ upWritten' = upWritten + size
  /\ upFlusher' = FALSE
  /\ UNCHANGED <<mPostSize, mPostLeft, post, postState, upRead, downVars>>

\* A request starts with TunnelOpen, without authentication data.
Started == postState = "open" /\ mPostLeft > 0
Left == IF Started THEN mPostLeft ELSE mPostSize - 3
Body == IF Started THEN post ELSE [size |-> mPostSize, sent |-> 3, data |-> 0]

\* MUTANT of RecordLength: the last byte is not kept for TunnelDisconnect.
RecordLengthFull == IF Left > 4 THEN Smaller(Smaller(upTodo, Left - 3), MaxRecord) ELSE 0

\* The length of the next record of data; none fits if there are 4 bytes left.
RecordLength == IF Left > 4 THEN Smaller(Smaller(upTodo, Left - 4), MaxRecord) ELSE 0

\* One turn of the loop of writeData: a record, or padding; then, with one byte
\* left, the end of the body.
WriteRecord ==
  LET bytes == IF RecordLength > 0 THEN RecordLength + 3 ELSE Left - 1 IN
    /\ AtWork /\ upTodo > 0
    /\ upTodo' = upTodo - RecordLength
    /\ IF Left - bytes = 1
       THEN /\ post' = [Body EXCEPT !.sent = @ + bytes + 1, !.data = @ + RecordLength]
            /\ postState' = "whole" /\ mPostLeft' = 0
            /\ UpdatePostSize(0)
       ELSE /\ post' = [Body EXCEPT !.sent = @ + bytes, !.data = @ + RecordLength]
            /\ postState' = "open" /\ mPostLeft' = Left - bytes
            /\ UNCHANGED mPostSize
    /\ upFlusher' = (upTodo' = 0)
    /\ UNCHANGED <<upWritten, upRead, downVars>>

\* writePaddingUntil(1) and TunnelDisconnect.
Pad == [post EXCEPT !.sent = @ + (mPostLeft - 1) + 1]

\* The client's flush.
Flush ==
  /\ AtWork /\ upFlusher /\ upTodo = 0
  /\ upFlusher' = FALSE
  /\ IF Started
     THEN /\ UpdatePostSize(mPostLeft)
          /\ post' = Pad /\ postState' = "whole" /\ mPostLeft' = 0
     ELSE UNCHANGED <<mPostSize, post, postState, mPostLeft>>
  /\ UNCHANGED <<upTodo, upWritten, upRead, downVars>>

\* The answer ends the request; writeData goes on, or flush ends.
RecvResponse ==
  /\ postState = "answered"
  /\ postState' = "none" /\ post' = NoPost
  /\ UNCHANGED <<mPostSize, mPostLeft, upTodo, upFlusher, upWritten, upRead, downVars>>

-----------------------------------------------------------------------------
(* Up: the proxy and the server.                                           *)

\* A request with the whole body gets to Incoming, which puts it into the
\* entry of the session.
IncomingPost ==
  /\ postState = "whole" /\ post.sent = post.size
  /\ postState' = "incoming"
  /\ UNCHANGED <<mPostSize, mPostLeft, post, upTodo, upFlusher, upWritten, upRead, downVars>>

\* The server's readData, until TunnelDisconnect, which it answers.
ServerRead ==
  /\ postState = "incoming"
  /\ upRead' = upRead + post.data
  /\ postState' = "answered"
  /\ UNCHANGED <<mPostSize, mPostLeft, post, upTodo, upFlusher, upWritten, downVars>>

-----------------------------------------------------------------------------
(* Down.                                                                   *)

\* readData of the client, without a connection, sends a GET; Incoming puts it
\* into the entry, or answers 409 if there is one.
Get ==
  /\ ~clientDown /\ ~entryDown
  /\ clientDown' = TRUE /\ entryDown' = TRUE
  /\ response' = NewResponse
  /\ UNCHANGED <<upVars, mDownloadLeft, serverDown, downTodo, downFlusher, downWritten, downRead>>

ClientRead ==
  /\ clientDown /\ response.data > 0
  /\ downRead' = downRead + response.data
  /\ response' = [response EXCEPT !.data = 0]
  /\ UNCHANGED <<upVars, mDownloadLeft, serverDown, entryDown, clientDown, downTodo, downFlusher,
                 downWritten>>

ClientReadEnd ==
  /\ clientDown /\ response = [data |-> 0, ended |-> TRUE]
  /\ clientDown' = FALSE
  /\ UNCHANGED <<upVars, mDownloadLeft, serverDown, entryDown, response, downTodo, downFlusher,
                 downWritten, downRead>>

\* writeData of the server cancels its flusher, too.
ServerWrite(size) ==
  /\ downTodo = 0 /\ size > 0 /\ downWritten + size <= MaxWritten
  /\ downTodo' = size /\ downWritten' = downWritten + size
  /\ downFlusher' = FALSE
  /\ UNCHANGED <<upVars, mDownloadLeft, serverDown, entryDown, clientDown, response, downRead>>

\* Its loop lets go of a connection that is closed or spent, ...
ReplaceDown ==
  /\ downTodo > 0 /\ serverDown # "none" /\ (serverDown = "closed" \/ mDownloadLeft = 0)
  /\ serverDown' = "none"
  /\ response' = IF serverDown = "open" THEN [response EXCEPT !.ended = TRUE] ELSE response
  /\ UNCHANGED <<upVars, mDownloadLeft, entryDown, clientDown, downTodo, downFlusher, downWritten,
                 downRead>>

\* ... waits for the next one in the entry, ...
WaitServerDown ==
  /\ downTodo > 0 /\ serverDown = "none" /\ entryDown
  /\ serverDown' = "open" /\ entryDown' = FALSE
  /\ mDownloadLeft' = MaxDownloadSize
  /\ UNCHANGED <<upVars, clientDown, response, downTodo, downFlusher, downWritten, downRead>>

\* ... and writes what it takes.  If that was not all, the connection is closed.
WriteDown ==
  LET size == Smaller(downTodo, mDownloadLeft) IN
    /\ downTodo > 0 /\ serverDown = "open" /\ mDownloadLeft > 0
    /\ downTodo' = downTodo - size
    /\ mDownloadLeft' = mDownloadLeft - size
    /\ serverDown' = IF size < downTodo THEN "closed" ELSE "open"
    /\ response' = [data |-> response.data + size, ended |-> size < downTodo]
    /\ downFlusher' = (downTodo' = 0)
    /\ UNCHANGED <<upVars, entryDown, clientDown, downWritten, downRead>>

\* The server's flush.
ServerFlush ==
  /\ downFlusher /\ downTodo = 0
  /\ downFlusher' = FALSE
  /\ mDownloadLeft' = 0
  /\ IF serverDown = "open"
     THEN serverDown' = "closed" /\ response' = [response EXCEPT !.ended = TRUE]
     ELSE UNCHANGED <<serverDown, response>>
  /\ UNCHANGED <<upVars, entryDown, clientDown, downTodo, downWritten, downRead>>

-----------------------------------------------------------------------------
ClientStep == WriteRecord \/ RecvResponse
ServerStep == ReplaceDown \/ WaitServerDown \/ WriteDown

HttpNext ==
  \/ \E size \in 1 .. MaxWritten : Write(size) \/ ServerWrite(size)
  \/ ClientStep \/ Flush \/ IncomingPost \/ ServerRead
  \/ Get \/ ClientRead \/ ClientReadEnd
  \/ ServerStep \/ ServerFlush

\* Both ends read all the time, alarms fire, requests get through.
HttpFairness ==
  /\ WF_httpVars(ClientStep) /\ WF_httpVars(Flush)
  /\ WF_httpVars(IncomingPost \/ ServerRead)
  /\ WF_httpVars(Get \/ ClientRead \/ ClientReadEnd)
  /\ WF_httpVars(ServerStep) /\ WF_httpVars(ServerFlush)

HttpSpec == HttpInit /\ [][HttpNext]_httpVars /\ HttpFairness

-----------------------------------------------------------------------------
\* The body never gets longer than announced, and its length stays in bounds;
\* the largest is one more than MaxPostSize (httptunnel.cpp:529).
HttpTypeOK ==
  /\ mPostSize \in DefaultPostSize .. MaxPostSize + 1
  /\ mPostLeft \in 0 .. mPostSize
  /\ post.size \in 0 .. MaxPostSize + 1 /\ post.sent \in 0 .. post.size
  /\ post.data <= post.sent
  /\ postState \in {"none", "open", "whole", "incoming", "answered"}
  /\ {upTodo, upWritten, upRead, downTodo, downWritten, downRead} \subseteq 0 .. MaxWritten
  /\ mDownloadLeft \in 0 .. MaxDownloadSize
  /\ serverDown \in {"none", "open", "closed"}
  /\ {upFlusher, entryDown, clientDown, downFlusher, response.ended} \subseteq BOOLEAN
  /\ response.data \in 0 .. MaxDownloadSize

\* Everything written is read at the other end after a while, also when no
\* more is written and a proxy waits for the rest of the body: the body is
\* filled up to the byte (httptunnel.cpp:504-530).
Flushed == []<>(upRead = upWritten /\ downRead = downWritten)
=============================================================================
