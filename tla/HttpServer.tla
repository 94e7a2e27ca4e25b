----------------------------- MODULE HttpServer -----------------------------
(***************************************************************************)
(* The HTTP server of the main board (http_server.c): one thread that      *)
(* serves a fixed table of sockets with select, and clients that connect,  *)
(* send requests line by line and leave when they please.                  *)
(*                                                                         *)
(* A line is <<kind, k>>, of the k-th request of its client: "get" is a    *)
(* request line, "junk" a line without a path, "more" a header that has    *)
(* two spaces as a request line has, "end" the empty line.  The effects of *)
(* the pages are in ScriptInput and ButtonQueue; here a page only has a    *)
(* length.  The listening socket always works.                             *)
(***************************************************************************)
EXTENDS Naturals, Sequences, FiniteSets

CONSTANTS
    Clients,        \* the connections that are ever made
    Leavers,        \* the clients that may leave on their own
    Eager,          \* the clients that may not wait for an answer
    Plain,          \* the clients that send nothing but "get" and "end"
    MaxSock,        \* MAX_SOCK, 32 in the code
    BufferSize,     \* the lines that fit into SOCKET_BUFFER_SIZE - 1
    BigEndian,      \* the byte before a buffer is the low byte of its socket
    MaxRequests,    \* bound: requests of each client
    MaxWire,        \* bound: lines of each client on their way to the server
    NoSocket,       \* NO_SOCKET
    Stdin           \* descriptor 0

ASSUME ClientAssumption == {NoSocket, Stdin} \cap Clients = {}
ASSUME SizeAssumption == /\ MaxSock \in Nat \ {0} /\ BufferSize \in Nat \ {0}
                         /\ NoSocket # Stdin

Slots == 1..MaxSock

VARIABLES
    (* the server *)
    socket,     \* socketInfo[i].socket
    buffer,     \* the lines in socketInfo[i].buffer, as many as size says
    cut,        \* slots whose first line was ended by a 0 and not answered
    pc,         \* where serverLoop and handleSocket are
    cur,        \* i of the loop over the sockets
    ready,      \* readfds after select
    (* the connections *)
    conn,       \* "none", "backlog", "open", "closed" by the server, or
                \* "dropped" by it when select failed
    peer,       \* the client "stays", has "left" or has "reset" it
    wire,       \* lines sent and not received
    asked,      \* requests begun
    inside,     \* clients in the middle of a request
    sent,       \* what the server has sent: "head", "data", "last"
    served,     \* the requests it has answered
    (* histories *)
    junk,       \* clients that began a request with a line without a path
    hurried,    \* clients that began a request before the last was answered
    clobbered   \* connections whose descriptor was lost

server == <<socket, buffer, cut, pc, cur, ready>>
client == <<peer, asked, inside, hurried, junk>>
vars == <<server, conn, client, wire, sent, served, clobbered>>

Kinds == {"get", "junk", "more", "end"}
Line == Kinds \X (Nat \ {0})

Init == /\ socket = [i \in Slots |-> NoSocket]
        /\ buffer = [i \in Slots |-> <<>>]
        /\ cut = {}
        /\ pc = "select"
        /\ cur = 1
        /\ ready = {}
        /\ conn = [c \in Clients |-> "none"]
        /\ peer = [c \in Clients |-> "stays"]
        /\ wire = [c \in Clients |-> <<>>]
        /\ asked = [c \in Clients |-> 0]
        /\ inside = {}
        /\ sent = [c \in Clients |-> <<>>]
        /\ served = [c \in Clients |-> <<>>]
        /\ hurried = {}
        /\ junk = {}
        /\ clobbered = {}

Backlog == {c \in Clients : conn[c] = "backlog"}
Answers(c) == Cardinality({n \in DOMAIN sent[c] : sent[c][n] = "last"})

\* The server closes the connections in S; what was not received is gone.
Gone(S, how) == /\ conn' = [c \in Clients |-> IF c \in S THEN how ELSE conn[c]]
                /\ wire' = [c \in Clients |-> IF c \in S THEN <<>> ELSE wire[c]]
Closed(S) == Gone(S, "closed")

----------------------------------------------------------------------------
(* The clients *)

Connect(c) == /\ conn[c] = "none"
              /\ conn' = [conn EXCEPT ![c] = "backlog"]
              /\ UNCHANGED <<server, client, wire, sent, served, clobbered>>

Sends(c, kind, k) == /\ conn[c] \in {"backlog", "open"}
                     /\ peer[c] = "stays"
                     /\ Len(wire[c]) < MaxWire[c]
                     /\ wire' = [wire EXCEPT ![c] = Append(@, <<kind, k>>)]

\* The line that begins a request.
Ask(c) == /\ c \notin inside
          /\ asked[c] < MaxRequests[c]
          /\ c \in Eager \/ Answers(c) = asked[c]
          /\ \E kind \in {"get", "junk"} :
               /\ c \in Plain => kind = "get"
               /\ Sends(c, kind, asked[c] + 1)
               /\ junk' = IF kind = "junk" THEN junk \cup {c} ELSE junk
          /\ asked' = [asked EXCEPT ![c] = @ + 1]
          /\ inside' = inside \cup {c}
          /\ hurried' = IF Answers(c) < asked[c] THEN hurried \cup {c} ELSE hurried
          /\ UNCHANGED <<server, conn, peer, sent, served, clobbered>>

\* A header, or the empty line that ends the request.
SendMore(c) == /\ c \in inside
               /\ \/ /\ c \notin Plain
                     /\ Sends(c, "more", asked[c])
                     /\ UNCHANGED inside
                  \/ Sends(c, "end", asked[c]) /\ inside' = inside \ {c}
               /\ UNCHANGED <<server, conn, peer, asked, sent, served, hurried,
                              junk, clobbered>>

\* The client closes its end, and what it has sent still arrives; or it resets
\* the connection, and that may be lost.
Leave(c) == /\ c \in Leavers
            /\ conn[c] \in {"backlog", "open"}
            /\ peer[c] = "stays"
            /\ \/ peer' = [peer EXCEPT ![c] = "left"] /\ UNCHANGED wire
               \/ /\ peer' = [peer EXCEPT ![c] = "reset"]
                  /\ wire' \in {wire, [wire EXCEPT ![c] = <<>>]}
            /\ UNCHANGED <<server, conn, asked, inside, sent, served, hurried,
                           junk, clobbered>>

----------------------------------------------------------------------------
(* serverLoop *)

Readable(c) == wire[c] # <<>> \/ peer[c] # "stays"

Polled == {c \in Clients : /\ \E i \in Slots : socket[i] = c
                           /\ Readable(c)}

\* The loop over the sockets goes on behind slot i, to the next one that was
\* readable; after the last one comes select.
After(i, S) ==
    LET next == {j \in Slots : j > i /\ socket[j] \in S}
    IN IF next = {}
       THEN pc' = "select" /\ cur' = 1 /\ ready' = {}
       ELSE /\ pc' = "recv"
            /\ cur' = CHOOSE j \in next : \A k \in next : j <= k
            /\ ready' = S

Select == /\ pc = "select"
          /\ Polled \cup Backlog # {}
          /\ IF Backlog # {}
             THEN pc' = "accept" /\ cur' = 1 /\ ready' = Polled
             ELSE After(0, Polled)
          /\ UNCHANGED <<socket, buffer, cut, conn, client, wire, sent, served,
                         clobbered>>

CloseAll(how) == /\ pc = "select"
                 /\ socket' = [i \in Slots |-> NoSocket]
                 /\ Gone({socket[i] : i \in Slots}, how)
                 /\ UNCHANGED <<buffer, cut, pc, cur, ready, client, sent, served,
                                clobbered>>

\* Ten seconds without anything to read: all sockets are closed.
Timeout == Polled \cup Backlog = {} /\ CloseAll("closed")

\* select fails, and that is not told apart from the timeout: all sockets are
\* closed, those also that have something to read.
SelectFails == CloseAll("dropped")

Free == {i \in Slots : socket[i] = NoSocket}

\* Mutant of Accept: a connection for which there is no slot is not closed.
Accept_NotClosed ==
    /\ pc = "accept"
    /\ \E c \in Backlog :
         /\ conn' = [conn EXCEPT ![c] = "open"]
         /\ IF Free = {}
            THEN UNCHANGED <<socket, buffer, cut>>
            ELSE LET i == CHOOSE j \in Free : \A k \in Free : j <= k
                 IN /\ socket' = [socket EXCEPT ![i] = c]
                    /\ buffer' = [buffer EXCEPT ![i] = <<>>]
                    /\ cut' = cut \ {i}
    /\ After(0, ready)
    /\ UNCHANGED <<wire, client, sent, served, clobbered>>

\* The connection gets the first free slot, cleared, or is closed at once.
Accept == /\ pc = "accept"
          /\ \E c \in Backlog :
               IF Free = {}
               THEN Closed({c}) /\ UNCHANGED <<socket, buffer, cut>>
               ELSE LET i == CHOOSE j \in Free : \A k \in Free : j <= k
                    IN /\ socket' = [socket EXCEPT ![i] = c]
                       /\ buffer' = [buffer EXCEPT ![i] = <<>>]
                       /\ cut' = cut \ {i}
                       /\ conn' = [conn EXCEPT ![c] = "open"]
                       /\ UNCHANGED wire
          /\ After(0, ready)
          /\ UNCHANGED <<client, sent, served, clobbered>>

sock == socket[cur]
Onward == After(cur, ready)

\* Mutant of Room: no byte is kept for the 0 behind the data.
Room_OffByOne == BufferSize + 1 - Len(buffer[cur])

\* What recv may write behind what is there.
Room == BufferSize - Len(buffer[cur])

\* Mutant of Complete: the blank line is looked for behind the request line only.
Complete_NoHeaders(lines) == Len(lines) > 1 /\ lines[2][1] = "end"

\* handleSocket finds the blank line that ends a request only behind another
\* line, and nothing behind the 0 it has written itself at an earlier call.
Complete(lines) == \E n \in 2..Len(lines) : lines[n][1] = "end"
IsRequest(line) == line[1] \in {"get", "more"}

\* Lines arrive, as many as there is room for; a request that is complete is
\* answered, one without a path is cut off behind its first line.
Receive ==
    LET count == IF Len(wire[sock]) < Room THEN Len(wire[sock]) ELSE Room
        lines == buffer[cur] \o SubSeq(wire[sock], 1, count)
        handled == cur \notin cut /\ Complete(lines)
    IN /\ pc = "recv"
       /\ count > 0
       /\ wire' = [wire EXCEPT ![sock] = SubSeq(@, count + 1, Len(@))]
       /\ buffer' = [buffer EXCEPT ![cur] = lines]
       /\ IF handled /\ IsRequest(lines[1])
          THEN pc' = "head" /\ UNCHANGED <<cut, cur, ready>>
          ELSE /\ cut' = IF handled THEN cut \cup {cur} ELSE cut
               /\ Onward
       /\ UNCHANGED <<socket, conn, client, sent, served, clobbered>>

\* recv answers 0: the client has left, or the buffer is full.
Hangup == /\ pc = "recv"
          /\ \/ wire[sock] = <<>> /\ peer[sock] = "left"
             \/ wire[sock] # <<>> /\ Len(buffer[cur]) = BufferSize
          /\ socket' = [socket EXCEPT ![cur] = NoSocket]
          /\ Closed({sock})
          /\ Onward
          /\ UNCHANGED <<buffer, cut, client, sent, served, clobbered>>

\* recv answers -1 once on a connection that was reset.  The 0 behind the data
\* is then written one byte lower, and in an empty buffer that is a byte of the
\* socket: the low one where the machine is big-endian.  The slot then holds
\* descriptor 0, of which it is assumed that it is never readable: if it were,
\* recv would fail on it again and again, and size go on below -1.
RecvError == /\ pc = "recv"
             /\ peer[sock] = "reset" /\ wire[sock] = <<>>
             /\ peer' = [peer EXCEPT ![sock] = "left"]
             /\ IF BigEndian /\ buffer[cur] = <<>>
                THEN /\ socket' = [socket EXCEPT ![cur] = Stdin]
                     /\ clobbered' = clobbered \cup {sock}
                ELSE UNCHANGED <<socket, clobbered>>
             /\ Onward
             /\ UNCHANGED <<buffer, cut, conn, wire, asked, inside, sent, served,
                            hurried, junk>>

----------------------------------------------------------------------------
(* handleSocket, from the header of the answer on *)

\* The first call of send on a connection that was reset reports that.  The
\* sockets block: a call may wait for a client that does not read, and the one
\* thread with it.
send(part) ==
    /\ sent' = [sent EXCEPT ![sock] = Append(@, part)]
    /\ peer' = IF peer[sock] = "reset" THEN [peer EXCEPT ![sock] = "left"] ELSE peer

\* Any other call, when the client has left, may raise the signal that ends the
\* program.
BrokenPipe == /\ pc \in {"head", "page", "foot"}
              /\ peer[sock] = "left"
              /\ pc' = "killed"
              /\ UNCHANGED <<socket, buffer, cut, cur, ready, conn, client, wire,
                             sent, served, clobbered>>

SendHead == /\ pc = "head"
            /\ send("head")
            /\ pc' = "page"
            /\ UNCHANGED <<socket, buffer, cut, cur, ready, conn, asked, inside,
                           hurried, junk, wire, served, clobbered>>

\* Mutant of httpSend: a chunk of no bytes is sent too, and ends the answer.
httpSend_Empty(length) == IF length < 1 THEN send("last") ELSE send("data")

\* Nothing is sent of a page without contents: a chunk of no bytes would be the
\* last one of the answer.
httpSend(length) == IF length < 1 THEN UNCHANGED <<sent, peer>> ELSE send("data")

SendPage == /\ pc = "page"
            /\ \E length \in 0..1 : httpSend(length)
            /\ pc' = "foot"
            /\ UNCHANGED <<socket, buffer, cut, cur, ready, conn, asked, inside,
                           hurried, junk, wire, served, clobbered>>

\* Mutant of SendLast: size is not set to 0.
SendLast_KeepsBuffer ==
    /\ pc = "foot"
    /\ send("last")
    /\ served' = [served EXCEPT ![sock] = Append(@, buffer[cur][1])]
    /\ Onward
    /\ UNCHANGED <<socket, buffer, cut, conn, asked, inside, hurried, junk, wire,
                   clobbered>>

\* The answer is whole, and the buffer is empty, whatever came behind the
\* request.
SendLast == /\ pc = "foot"
            /\ send("last")
            /\ served' = [served EXCEPT ![sock] = Append(@, buffer[cur][1])]
            /\ buffer' = [buffer EXCEPT ![cur] = <<>>]
            /\ Onward
            /\ UNCHANGED <<socket, cut, conn, asked, inside, hurried, junk, wire,
                           clobbered>>

----------------------------------------------------------------------------

Server == Select \/ Timeout \/ Accept \/ Receive \/ Hangup \/ RecvError
Answer == SendHead \/ SendPage \/ SendLast

Next == \/ \E c \in Clients : Connect(c) \/ Ask(c) \/ SendMore(c) \/ Leave(c)
        \/ Server
        \/ Answer
        \/ SelectFails
        \/ BrokenPipe

\* The thread of the server runs where it does not wait for a client: that a call
\* of send returns is not assumed here.  The clients need not do anything.
Spec == Init /\ [][Next]_vars /\ WF_vars(Server)

----------------------------------------------------------------------------
(* Properties *)

\* The variables have their types.
TypeOK == /\ socket \in [Slots -> Clients \cup {NoSocket, Stdin}]
          /\ buffer \in [Slots -> Seq(Line)]
          /\ \A i \in Slots : Len(buffer[i]) <= BufferSize
          /\ cut \subseteq Slots
          /\ pc \in {"select", "accept", "recv", "head", "page", "foot", "killed"}
          /\ cur \in Slots
          /\ ready \subseteq Clients
          /\ conn \in [Clients -> {"none", "backlog", "open", "closed", "dropped"}]
          /\ peer \in [Clients -> {"stays", "left", "reset"}]
          /\ wire \in [Clients -> Seq(Line)]
          /\ asked \in [Clients -> Nat]
          /\ sent \in [Clients -> Seq({"head", "data", "last"})]
          /\ served \in [Clients -> Seq(Line)]
          /\ inside \cup hurried \cup junk \cup clobbered \subseteq Clients

\* A connection that the server has open is in exactly one slot of its table,
\* so that it is read, answered and closed some day, and a slot holds no closed
\* connection; the only ones lost are those whose descriptor was overwritten
\* after a failed recv into an empty buffer.
OpenHasOneSlot ==
    /\ \A c \in Clients \ clobbered :
         conn[c] = "open" => \E i \in Slots : socket[i] = c
    /\ \A i \in Slots :
         socket[i] \in Clients => /\ conn[socket[i]] = "open"
                                  /\ \A j \in Slots : socket[j] = socket[i] => j = i

\* The answers on a connection are those to its requests, one each and in their
\* order, if the client waits for each answer; and no request is ever answered
\* twice, however its lines are cut into pieces and whatever comes behind it.
AnswersMatch ==
    \A c \in Clients :
        /\ \A m, n \in DOMAIN served[c] : m < n => served[c][m][2] < served[c][n][2]
        /\ c \notin hurried => \A n \in DOMAIN served[c] : served[c][n] = <<"get", n>>

\* What a client reads can be taken apart into answers: a header only at the
\* start or behind the last chunk of the answer before.
WellFormed ==
    \A c \in Clients : \A n \in DOMAIN sent[c] :
        (sent[c][n] = "head") <=> (n = 1 \/ sent[c][n - 1] = "last")

\* If no client keeps the server in a call of send for ever, a client that has
\* sent a whole request that fits into the buffer, on a connection that was
\* accepted, and waits for the answer, gets it: the request is not left lying
\* until the timeout closes the connection.  Only what it does itself, a next
\* request or leaving, a select that fails, or the end of the program when another
\* client leaves, can come in between.
Waiting(c) == /\ conn[c] = "open" /\ peer[c] = "stays"
              /\ c \notin inside \cup hurried \cup junk
              /\ Answers(c) < asked[c]
              /\ \E i \in Slots : /\ socket[i] = c
                                  /\ Len(buffer[i]) + Len(wire[c]) <= BufferSize
SendsReturn == []<>(pc \notin {"head", "page", "foot"})
RequestServed ==
    SendsReturn =>
        \A c \in Clients :
            Waiting(c) ~> \/ Answers(c) = asked[c]
                          \/ c \in hurried \/ peer[c] # "stays"
                          \/ conn[c] = "dropped" \/ pc = "killed"
=============================================================================
