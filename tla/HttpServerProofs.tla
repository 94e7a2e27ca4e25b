-------------------------- MODULE HttpServerProofs --------------------------
(***************************************************************************)
(* Theorems about the HTTP server, for any number of clients and requests, *)
(* any table and any buffer.                                               *)
(***************************************************************************)
EXTENDS HttpServer, TLAPS, FiniteSetTheorems, SequenceTheorems

----------------------------------------------------------------------------
(* The loop over the sockets *)

\* A set of slots has a first one: of the intervals 0..j some is not larger than
\* any other.
LEMMA FirstOf ==
    ASSUME NEW N \in Nat, NEW S \in SUBSET (0..N), S # {}
    PROVE  \E j \in S : \A k \in S : j <= k
<1> DEFINE T == {0..j : j \in S}
<1>1. IsWellFoundedOn(StrictSubsetOrdering(0..N), FiniteSubsetsOf(0..N))
  BY FS_StrictSubsetOrderingWellFounded
<1>2. T \subseteq FiniteSubsetsOf(0..N) /\ T # {}
  <2>1. ASSUME NEW j \in S PROVE (0..j) \in FiniteSubsetsOf(0..N)
    <3>1. j \in Int /\ 0..j \subseteq 0..N
      OBVIOUS
    <3>2. IsFiniteSet(0..j)
      BY <3>1, FS_Interval
    <3> QED
      BY <3>1, <3>2 DEF FiniteSubsetsOf
  <2> QED
    BY <2>1
<1>3. PICK t \in T : \A u \in T : ~(<<u, t>> \in StrictSubsetOrdering(0..N))
  BY <1>1, <1>2, WFMin
<1>4. PICK j \in S : t = 0..j
  OBVIOUS
<1>5. ASSUME NEW k \in S, k < j PROVE FALSE
  <2>1. (0..k) \in T /\ 0..k \subseteq 0..j /\ 0..k # 0..j /\ 0..j \subseteq 0..N
    BY <1>5
  <2> QED
    BY <2>1, <1>3, <1>4 DEF StrictSubsetOrdering
<1> QED
  BY <1>5

\* A new connection gets a slot that is free.
LEMMA FreeIsFree ==
    ASSUME Free # {}
    PROVE  (CHOOSE j \in Free : \A k \in Free : j <= k) \in Free
<1>1. Free \in SUBSET (0..MaxSock) /\ MaxSock \in Nat
  BY SizeAssumption DEF Free, Slots
<1>2. \E j \in Free : \A k \in Free : j <= k
  BY <1>1, FirstOf
<1> QED
  BY <1>2

\* The loop goes on at a later slot, one of a connection in S, or ends.
LEMMA AfterGoesOn ==
    ASSUME NEW i \in Int, NEW S, After(i, S)
    PROVE  \/ pc' = "select" /\ cur' = 1 /\ ready' = {}
           \/ /\ pc' = "recv" /\ ready' = S
              /\ cur' \in Slots /\ cur' > i /\ socket[cur'] \in S
<1> DEFINE next == {j \in Slots : j > i /\ socket[j] \in S}
<1>1. CASE next = {}
  BY <1>1 DEF After
<1>2. CASE next # {}
  <2>1. next \in SUBSET (0..MaxSock) /\ MaxSock \in Nat
    BY SizeAssumption DEF Slots
  <2>2. \E j \in next : \A k \in next : j <= k
    BY <1>2, <2>1, FirstOf
  <2>3. (CHOOSE j \in next : \A k \in next : j <= k) \in next
    BY <2>2
  <2> QED
    BY <1>2, <2>3 DEF After
<1> QED
  BY <1>1, <1>2

----------------------------------------------------------------------------
(* The inductive invariant *)

\* The line that the server works on is that of a client.
Busy == pc \in {"recv", "head", "page", "foot"} => sock \in Clients

\* What is answered is in the buffer.
Filled == pc \in {"head", "page", "foot"} => buffer[cur] # <<>>

\* Who is in the middle of a request has begun one.
Begun == \A c \in inside : asked[c] > 0

\* Everything that was sent is whole answers, but for the one in progress.
Last(s) == s[Len(s)]
Ended(s) == s = <<>> \/ Last(s) = "last"
Whole == pc # "killed" =>
             \A c \in Clients : c # sock \/ pc \notin {"page", "foot"} => Ended(sent[c])
Halfway == pc \in {"page", "foot"} => ~Ended(sent[sock])

\* A header only at the start or behind the last chunk of an answer.
Good(s) == \A n \in 1..Len(s) : s[n] = "head" <=> n = 1 \/ s[n - 1] = "last"
Answering == Whole /\ Halfway /\ \A c \in Clients : Good(sent[c])

Types == TypeOK /\ Busy /\ Filled /\ Begun
IInv == Types /\ OpenHasOneSlot /\ Answering

LEMMA InvInit == Init => IInv
<1> SUFFICES ASSUME Init PROVE IInv
  OBVIOUS
<1>1. Types
  <2>1. TypeOK
    BY SizeAssumption DEF Init, TypeOK, Slots
  <2> QED
    BY <2>1 DEF Init, Types, Busy, Filled, Begun
<1>2. OpenHasOneSlot
  BY ClientAssumption DEF Init, OpenHasOneSlot
<1>3. Answering
  BY DEF Init, Answering, Whole, Halfway, Ended, Good
<1> QED
  BY <1>1, <1>2, <1>3 DEF IInv

----------------------------------------------------------------------------
(* Types *)

\* Another slot, or select: what the loop goes on with, when the slots of the
\* connections in S hold clients also after the step.
LEMMA OnwardTypes ==
    ASSUME TypeOK, NEW i \in Int, NEW S \in SUBSET Clients, After(i, S),
           \A j \in Slots : j > i /\ socket[j] \in S => socket'[j] \in Clients
    PROVE  /\ pc' \in {"select", "recv"} /\ cur' \in Slots
           /\ ready' \in SUBSET Clients
           /\ Busy' /\ Filled'
<1>1. \/ pc' = "select" /\ cur' = 1 /\ ready' = {}
      \/ /\ pc' = "recv" /\ ready' = S
         /\ cur' \in Slots /\ cur' > i /\ socket[cur'] \in S
  BY AfterGoesOn
<1>2. 1 \in Slots
  BY SizeAssumption DEF Slots
<1> QED
  BY <1>1, <1>2 DEF Busy, Filled, sock

LEMMA ClientTypes ==
    ASSUME Types, NEW c \in Clients,
           Connect(c) \/ Ask(c) \/ SendMore(c) \/ Leave(c)
    PROVE  Types'
<1> USE DEF Types, TypeOK, Busy, Filled, Begun, sock, server, client
<1>1. ASSUME NEW kind \in Kinds, NEW k \in Nat \ {0}, Sends(c, kind, k)
      PROVE  wire' \in [Clients -> Seq(Line)]
  <2>1. <<kind, k>> \in Line
    BY DEF Line
  <2>2. Append(wire[c], <<kind, k>>) \in Seq(Line)
    BY <2>1
  <2> QED
    BY <1>1, <2>2 DEF Sends
<1>2. CASE Connect(c)
  BY <1>2 DEF Connect
<1>3. CASE Ask(c)
  <2>1. asked[c] + 1 \in Nat \ {0} /\ {"get", "junk"} \subseteq Kinds
    BY DEF Kinds
  <2>2. wire' \in [Clients -> Seq(Line)]
    BY <1>1, <1>3, <2>1 DEF Ask
  <2>3. junk' \subseteq Clients /\ hurried' \subseteq Clients /\ inside' \subseteq Clients
    BY <1>3 DEF Ask
  <2>4. asked' \in [Clients -> Nat] /\ \A d \in inside' : asked'[d] > 0
    BY <1>3 DEF Ask
  <2> QED
    BY <1>3, <2>2, <2>3, <2>4 DEF Ask
<1>4. CASE SendMore(c)
  <2>1. asked[c] \in Nat \ {0} /\ {"more", "end"} \subseteq Kinds
    BY <1>4 DEF SendMore, Kinds
  <2>2. wire' \in [Clients -> Seq(Line)]
    BY <1>1, <1>4, <2>1 DEF SendMore
  <2> QED
    BY <1>4, <2>2 DEF SendMore
<1>5. CASE Leave(c)
  <2>1. peer' \in [Clients -> {"stays", "left", "reset"}]
    BY <1>5 DEF Leave
  <2>2. wire' \in [Clients -> Seq(Line)]
    <3>1. <<>> \in Seq(Line)
      OBVIOUS
    <3>2. [wire EXCEPT ![c] = <<>>] \in [Clients -> Seq(Line)]
      BY <3>1
    <3> QED
      BY <1>5, <3>2 DEF Leave
  <2> QED
    BY <1>5, <2>1, <2>2 DEF Leave
<1> QED
  BY <1>2, <1>3, <1>4, <1>5

\* The server closes all sockets after a timeout or an error of select.
LEMMA AllClosed ==
    ASSUME Timeout \/ SelectFails
    PROVE  \E how \in {"closed", "dropped"} : CloseAll(how)
BY DEF Timeout, SelectFails

LEMMA GoneTypes ==
    ASSUME TypeOK, NEW S, NEW how \in {"closed", "dropped"}, Gone(S, how)
    PROVE  /\ conn' \in [Clients -> {"none", "backlog", "open", "closed", "dropped"}]
           /\ wire' \in [Clients -> Seq(Line)]
<1>1. <<>> \in Seq(Line)
  OBVIOUS
<1> QED
  BY <1>1 DEF TypeOK, Gone

LEMMA ReceiveTypes == ASSUME Types, Receive PROVE Types'
<1> DEFINE count == IF Len(wire[sock]) < Room THEN Len(wire[sock]) ELSE Room
           got == SubSeq(wire[sock], 1, count)
           lines == buffer[cur] \o got
           rest == SubSeq(wire[sock], count + 1, Len(wire[sock]))
           handled == cur \notin cut /\ Complete(lines)
<1> USE DEF Types, TypeOK, Begun
<1>1. sock \in Clients /\ wire[sock] \in Seq(Line) /\ buffer[cur] \in Seq(Line)
  BY DEF Receive, Busy
<1>2. Len(wire[sock]) \in Nat /\ Room \in Nat /\ Room + Len(buffer[cur]) = BufferSize
  BY <1>1, SizeAssumption, LenProperties DEF Room
<1>3. got \in Seq(Line) /\ Len(got) = count /\ rest \in Seq(Line)
  <2>1. \A i \in 1..Len(wire[sock]) : wire[sock][i] \in Line
    BY <1>1, ElementOfSeq
  <2>2. got \in Seq(Line) /\ Len(got) = count
    BY <1>2, <2>1, SubSeqProperties
  <2> QED
    BY <1>2, <2>1, <2>2, SubSeqProperties
<1>4. lines \in Seq(Line) /\ Len(lines) = Len(buffer[cur]) + count
  <2>1. buffer[cur] \in Seq(Line) /\ got \in Seq(Line) /\ Len(got) = count
    BY <1>1, <1>3
  <2> HIDE DEF count, got
  <2>2. buffer[cur] \o got \in Seq(Line) /\ Len(buffer[cur] \o got) = Len(buffer[cur]) + Len(got)
    BY <2>1, ConcatProperties
  <2> QED
    BY <2>1, <2>2
<1>5. wire' \in [Clients -> Seq(Line)] /\ buffer' \in [Slots -> Seq(Line)]
  BY <1>1, <1>3, <1>4 DEF Receive
<1>6. \A i \in Slots : Len(buffer'[i]) <= BufferSize
  BY <1>1, <1>2, <1>4 DEF Receive
<1>7. Busy' /\ Filled' /\ pc' \in {"select", "recv", "head"} /\ cur' \in Slots
      /\ ready' \in SUBSET Clients /\ cut' \subseteq Slots
  <2>1. CASE handled /\ IsRequest(lines[1])
    <3>1. pc' = "head" /\ UNCHANGED <<socket, cut, cur, ready>> /\ buffer'[cur] = lines
      BY <2>1 DEF Receive
    <3>2. lines # <<>>
      <4>1. Len(lines) >= 2
        BY <1>4, <2>1, LenProperties DEF Complete
      <4> HIDE DEF lines
      <4> QED
        BY <4>1
    <3> QED
      BY <1>1, <3>1, <3>2 DEF Busy, Filled, sock
  <2>2. CASE ~(handled /\ IsRequest(lines[1]))
    <3>1. After(cur, ready) /\ cut' \subseteq Slots /\ UNCHANGED socket
      BY <2>2 DEF Receive, Onward
    <3>2. cur \in Int
      BY SizeAssumption DEF Slots
    <3>3. \A j \in Slots : j > cur /\ socket[j] \in ready => socket'[j] \in Clients
      BY <3>1
    <3> QED
      BY <3>1, <3>2, <3>3, OnwardTypes
  <2> QED
    BY <2>1, <2>2
<1> QED
  BY <1>5, <1>6, <1>7 DEF Receive, client

LEMMA ServerTypes == ASSUME Types, Server \/ Answer \/ SelectFails \/ BrokenPipe PROVE Types'
<1> USE DEF Types, TypeOK, Begun
<1>0. cur \in Int /\ 0 \in Int /\ 1 \in Slots
  BY SizeAssumption DEF Slots
<1>1. CASE Select
  <2>1. UNCHANGED <<socket, buffer, cut, conn, client, wire, sent, served, clobbered>>
    BY <1>1 DEF Select
  <2>2. Polled \in SUBSET Clients
    BY DEF Polled
  <2>3. CASE Backlog # {}
    BY <1>0, <1>1, <2>1, <2>2, <2>3 DEF Select, client, Busy, Filled
  <2>4. CASE Backlog = {}
    <3>1. After(0, Polled)
      BY <1>1, <2>4 DEF Select
    <3>2. \A j \in Slots : j > 0 /\ socket[j] \in Polled => socket'[j] \in Clients
      BY <2>1, <2>2
    <3> QED
      BY <1>0, <2>1, <2>2, <3>1, <3>2, OnwardTypes DEF client
  <2> QED
    BY <2>3, <2>4
<1>2. CASE Timeout \/ SelectFails
  <2>1. PICK how \in {"closed", "dropped"} : CloseAll(how)
    BY <1>2, AllClosed
  <2> QED
    BY <2>1, GoneTypes DEF CloseAll, client, Busy, Filled
<1>3. CASE Accept
  <2>1. PICK c \in Backlog :
           IF Free = {}
           THEN Closed({c}) /\ UNCHANGED <<socket, buffer, cut>>
           ELSE LET i == CHOOSE j \in Free : \A k \in Free : j <= k
                IN /\ socket' = [socket EXCEPT ![i] = c]
                   /\ buffer' = [buffer EXCEPT ![i] = <<>>]
                   /\ cut' = cut \ {i}
                   /\ conn' = [conn EXCEPT ![c] = "open"]
                   /\ UNCHANGED wire
    BY <1>3 DEF Accept
  <2>2. After(0, ready) /\ UNCHANGED <<client, sent, served, clobbered>>
    BY <1>3 DEF Accept
  <2>3. <<>> \in Seq(Line) /\ Len(<<>>) = 0 /\ BufferSize >= 0
    BY SizeAssumption
  <2>4. /\ socket' \in [Slots -> Clients \cup {NoSocket, Stdin}]
        /\ buffer' \in [Slots -> Seq(Line)] /\ cut' \subseteq Slots
        /\ \A i \in Slots : Len(buffer'[i]) <= BufferSize
        /\ conn' \in [Clients -> {"none", "backlog", "open", "closed", "dropped"}]
        /\ wire' \in [Clients -> Seq(Line)]
        /\ \A j \in Slots : socket[j] \in ready => socket'[j] \in Clients
    <3>1. CASE Free = {}
      BY <2>1, <3>1, GoneTypes DEF Closed
    <3>2. CASE Free # {}
      <4> DEFINE i == CHOOSE j \in Free : \A k \in Free : j <= k
      <4>1. i \in Slots
        BY <3>2, FreeIsFree DEF Free
      <4>2. c \in Clients
        BY DEF Backlog
      <4> HIDE DEF i
      <4>3. /\ socket' = [socket EXCEPT ![i] = c]
            /\ buffer' = [buffer EXCEPT ![i] = <<>>]
            /\ cut' = cut \ {i}
            /\ conn' = [conn EXCEPT ![c] = "open"]
            /\ UNCHANGED wire
        BY <2>1, <3>2 DEF i
      <4>4. \A s \in Slots : buffer'[s] \in Seq(Line) /\ Len(buffer'[s]) <= BufferSize
        BY <2>3, <4>1, <4>3
      <4> QED
        BY <4>1, <4>2, <4>3, <4>4
    <3> QED
      BY <3>1, <3>2
  <2>5. \A j \in Slots : j > 0 /\ socket[j] \in ready => socket'[j] \in Clients
    BY <2>4
  <2> QED
    BY <1>0, <2>2, <2>4, <2>5, OnwardTypes DEF client
<1>4. CASE Receive
  BY <1>4, ReceiveTypes
<1>5. CASE Hangup
  <2>1. After(cur, ready) /\ UNCHANGED <<buffer, cut, client, sent, served, clobbered>>
    BY <1>5 DEF Hangup, Onward
  <2>2. /\ conn' \in [Clients -> {"none", "backlog", "open", "closed", "dropped"}]
        /\ wire' \in [Clients -> Seq(Line)]
    BY <1>5, GoneTypes DEF Closed, Hangup
  <2>3. socket' = [socket EXCEPT ![cur] = NoSocket]
    BY <1>5 DEF Hangup
  <2>4. \A j \in Slots : j > cur /\ socket[j] \in ready => socket'[j] \in Clients
    BY <1>0, <2>3
  <2> QED
    BY <1>0, <2>1, <2>2, <2>3, <2>4, OnwardTypes DEF client
<1>6. CASE RecvError
  <2>1. /\ After(cur, ready)
        /\ UNCHANGED <<buffer, cut, conn, wire, asked, inside, sent, served, hurried, junk>>
        /\ peer' \in [Clients -> {"stays", "left", "reset"}]
    BY <1>6 DEF RecvError, Onward
  <2>2. sock \in Clients
    BY <1>6 DEF RecvError, Busy
  <2>3. /\ socket' \in [Slots -> Clients \cup {NoSocket, Stdin}]
        /\ clobbered' \subseteq Clients
        /\ \A j \in Slots : j > cur /\ socket[j] \in ready => socket'[j] \in Clients
    <3>1. \/ UNCHANGED <<socket, clobbered>>
          \/ /\ socket' = [socket EXCEPT ![cur] = Stdin]
             /\ clobbered' = clobbered \cup {sock}
      BY <1>6 DEF RecvError
    <3>2. cur \in Slots /\ Slots \subseteq Int
      BY DEF Slots
    <3>3. CASE UNCHANGED <<socket, clobbered>>
      <4>1. \A j \in Slots : j > cur /\ socket[j] \in ready => socket[j] \in Clients
        OBVIOUS
      <4> QED
        BY <3>3, <4>1
    <3>4. CASE socket' = [socket EXCEPT ![cur] = Stdin] /\ clobbered' = clobbered \cup {sock}
      <4>1. \A j \in Slots : j > cur => socket'[j] = socket[j]
        BY <3>2, <3>4
      <4>2. ready \subseteq Clients
        OBVIOUS
      <4>3. socket' \in [Slots -> Clients \cup {NoSocket, Stdin}]
        BY <3>2, <3>4
      <4>4. clobbered' \subseteq Clients
        BY <2>2, <3>4
      <4> QED
        BY <4>1, <4>2, <4>3, <4>4
    <3> QED
      BY <3>1, <3>3, <3>4
  <2> QED
    BY <1>0, <2>1, <2>3, OnwardTypes
<1>7. ASSUME NEW part \in {"head", "data", "last"}, send(part), sock \in Clients
      PROVE  /\ sent' \in [Clients -> Seq({"head", "data", "last"})]
             /\ peer' \in [Clients -> {"stays", "left", "reset"}]
  BY <1>7 DEF send
<1>8. CASE SendHead
  BY <1>7, <1>8 DEF SendHead, Busy, Filled, sock
<1>9. CASE SendPage
  <2>1. /\ sent' \in [Clients -> Seq({"head", "data", "last"})]
        /\ peer' \in [Clients -> {"stays", "left", "reset"}]
    BY <1>7, <1>9 DEF SendPage, httpSend, Busy
  <2> QED
    BY <1>9, <2>1 DEF SendPage, Busy, Filled, sock
<1>10. CASE SendLast
  <2>1. sock \in Clients /\ buffer[cur] \in Seq(Line) /\ buffer[cur] # <<>>
    BY <1>10 DEF SendLast, Busy, Filled
  <2>2. /\ sent' \in [Clients -> Seq({"head", "data", "last"})]
        /\ peer' \in [Clients -> {"stays", "left", "reset"}]
    BY <1>7, <1>10, <2>1 DEF SendLast
  <2>3. served' \in [Clients -> Seq(Line)]
    <3>1. buffer[cur][1] \in Line
      BY <2>1
    <3>2. Append(served[sock], buffer[cur][1]) \in Seq(Line)
      BY <2>1, <3>1
    <3> QED
      BY <1>10, <2>1, <3>2 DEF SendLast
  <2>4. buffer' \in [Slots -> Seq(Line)] /\ \A i \in Slots : Len(buffer'[i]) <= BufferSize
    <3>1. <<>> \in Seq(Line) /\ Len(<<>>) = 0 /\ BufferSize >= 0
      BY SizeAssumption
    <3>2. \A s \in Slots : buffer'[s] \in Seq(Line) /\ Len(buffer'[s]) <= BufferSize
      BY <1>10, <3>1 DEF SendLast
    <3> QED
      BY <1>10, <3>2 DEF SendLast
  <2>5. After(cur, ready)
        /\ UNCHANGED <<socket, cut, conn, asked, inside, hurried, junk, wire, clobbered>>
    BY <1>10 DEF SendLast, Onward
  <2>6. \A j \in Slots : j > cur /\ socket[j] \in ready => socket'[j] \in Clients
    BY <2>5
  <2> QED
    BY <1>0, <2>2, <2>3, <2>4, <2>5, <2>6, OnwardTypes
<1>11. CASE BrokenPipe
  BY <1>11 DEF BrokenPipe, client, Busy, Filled
<1> QED
  BY <1>1, <1>2, <1>3, <1>4, <1>5, <1>6, <1>8, <1>9, <1>10, <1>11 DEF Server, Answer

LEMMA TypesStep == Types /\ [Next]_vars => Types'
<1> SUFFICES ASSUME Types, [Next]_vars PROVE Types'
  OBVIOUS
<1>1. CASE UNCHANGED vars
  BY <1>1 DEF vars, server, client, Types, TypeOK, Busy, Filled, Begun, sock
<1>2. CASE Next
  BY <1>2, ClientTypes, ServerTypes DEF Next
<1> QED
  BY <1>1, <1>2

----------------------------------------------------------------------------
(* The table of sockets *)

\* What the server closes: the slot goes with the connection.
LEMMA TableStep == Types /\ OpenHasOneSlot /\ [Next]_vars => OpenHasOneSlot'
<1> SUFFICES ASSUME Types, OpenHasOneSlot, [Next]_vars PROVE OpenHasOneSlot'
  OBVIOUS
<1> USE ClientAssumption DEF Types, TypeOK, OpenHasOneSlot
<1>1. CASE UNCHANGED <<socket, conn, clobbered>>
  BY <1>1
<1>2. ASSUME NEW c \in Clients, Connect(c) PROVE OpenHasOneSlot'
  BY <1>2 DEF Connect, server
<1>3. CASE Timeout \/ SelectFails
  <2>0. PICK how \in {"closed", "dropped"} : CloseAll(how)
    BY <1>3, AllClosed
  <2>1. /\ \A i \in Slots : socket'[i] = NoSocket
        /\ \A c \in Clients : conn'[c] = IF \E i \in Slots : socket[i] = c
                                         THEN how ELSE conn[c]
        /\ clobbered' = clobbered /\ how # "open"
    BY <2>0 DEF CloseAll, Gone
  <2>2. NoSocket \notin Clients
    OBVIOUS
  <2>3. \A c \in Clients \ clobbered' : conn'[c] # "open"
    BY <2>1
  <2> QED
    BY <2>1, <2>2, <2>3
<1>4. CASE Accept
  <2>1. PICK c \in Backlog :
           IF Free = {}
           THEN Closed({c}) /\ UNCHANGED <<socket, buffer, cut>>
           ELSE LET i == CHOOSE j \in Free : \A k \in Free : j <= k
                IN /\ socket' = [socket EXCEPT ![i] = c]
                   /\ buffer' = [buffer EXCEPT ![i] = <<>>]
                   /\ cut' = cut \ {i}
                   /\ conn' = [conn EXCEPT ![c] = "open"]
                   /\ UNCHANGED wire
    BY <1>4 DEF Accept
  <2>2. clobbered' = clobbered /\ c \in Clients /\ conn[c] = "backlog"
    BY <1>4 DEF Accept, Backlog
  <2>3. CASE Free = {}
    <3>1. \A d \in Clients : conn'[d] = IF d = c THEN "closed" ELSE conn[d]
      BY <2>1, <2>3 DEF Closed, Gone
    <3> QED
      BY <2>1, <2>2, <2>3, <3>1
  <2>4. CASE Free # {}
    <3> DEFINE i == CHOOSE j \in Free : \A k \in Free : j <= k
    <3>1. i \in Slots /\ socket[i] = NoSocket
      BY <2>4, FreeIsFree DEF Free
    <3> HIDE DEF i
    <3>2. socket' = [socket EXCEPT ![i] = c] /\ conn' = [conn EXCEPT ![c] = "open"]
      BY <2>1, <2>4 DEF i
    <3> QED
      BY <2>2, <3>1, <3>2
  <2> QED
    BY <2>3, <2>4
<1>5. CASE Hangup
  <2>1. sock \in Clients /\ cur \in Slots
    BY <1>5 DEF Hangup, Busy
  <2>2. /\ socket' = [socket EXCEPT ![cur] = NoSocket]
        /\ \A d \in Clients : conn'[d] = IF d = sock THEN "closed" ELSE conn[d]
        /\ clobbered' = clobbered
    BY <1>5 DEF Hangup, Closed, Gone
  <2> QED
    BY <2>1, <2>2 DEF sock
<1>6. CASE RecvError
  <2>1. sock \in Clients /\ cur \in Slots /\ Stdin \notin Clients /\ conn' = conn
    BY <1>6 DEF RecvError, Busy
  <2>2. \/ UNCHANGED <<socket, clobbered>>
        \/ /\ socket' = [socket EXCEPT ![cur] = Stdin]
           /\ clobbered' = clobbered \cup {sock}
    BY <1>6 DEF RecvError
  <2>3. CASE UNCHANGED <<socket, clobbered>>
    BY <1>1, <2>1, <2>3
  <2>4. CASE /\ socket' = [socket EXCEPT ![cur] = Stdin]
             /\ clobbered' = clobbered \cup {sock}
    BY <2>1, <2>4 DEF sock
  <2> QED
    BY <2>2, <2>3, <2>4
<1>7. ASSUME NEW c \in Clients, Ask(c) \/ SendMore(c) \/ Leave(c)
      PROVE  UNCHANGED <<socket, conn, clobbered>>
  BY <1>7 DEF Ask, SendMore, Leave, server
<1>8. CASE Select \/ Receive \/ SendHead \/ SendPage \/ SendLast \/ BrokenPipe \/ UNCHANGED vars
  BY <1>1, <1>8 DEF Select, Receive, SendHead, SendPage, SendLast, BrokenPipe, vars, server
<1> QED
  BY <1>1, <1>2, <1>3, <1>4, <1>5, <1>6, <1>7, <1>8 DEF Next, Server, Answer

----------------------------------------------------------------------------
(* The form of the answers *)

Part == {"head", "data", "last"}

LEMMA AppendGood ==
    ASSUME NEW s \in Seq(Part), NEW part \in Part, Good(s), part = "head" <=> Ended(s)
    PROVE  Good(Append(s, part)) /\ (Ended(Append(s, part)) <=> part = "last")
<1> DEFINE t == Append(s, part)
<1>1. Len(s) \in Nat /\ (s = <<>> <=> Len(s) = 0)
  BY EmptySeq, LenProperties
<1>2. /\ Len(t) = Len(s) + 1 /\ t # <<>>
      /\ \A n \in 1..Len(s) : t[n] = s[n]
      /\ t[Len(s) + 1] = part
  BY <1>1, AppendProperties
<1> HIDE DEF t
<1>3. ASSUME NEW n \in 1..Len(s) PROVE t[n] = "head" <=> n = 1 \/ t[n - 1] = "last"
  <2>1. n # 1 => n - 1 \in 1..Len(s)
    BY <1>1
  <2> QED
    BY <1>2, <2>1 DEF Good
<1>4. t[Len(s) + 1] = "head" <=> Len(s) + 1 = 1 \/ t[Len(s)] = "last"
  <2>1. Ended(s) <=> Len(s) = 0 \/ s[Len(s)] = "last"
    BY <1>1 DEF Ended, Last
  <2>2. Len(s) # 0 => t[Len(s)] = s[Len(s)]
    BY <1>1, <1>2
  <2>3. Len(s) + 1 = 1 <=> Len(s) = 0
    BY <1>1
  <2> QED
    BY <1>2, <2>1, <2>2, <2>3
<1>5. Good(t)
  <2> SUFFICES ASSUME NEW n \in 1..Len(t)
               PROVE  t[n] = "head" <=> n = 1 \/ t[n - 1] = "last"
    BY DEF Good
  <2>1. CASE n \in 1..Len(s)
    BY <1>3, <2>1
  <2>2. CASE n = Len(s) + 1
    <3>1. n - 1 = Len(s)
      BY <1>1, <2>2
    <3> QED
      BY <1>4, <2>2, <3>1
  <2> QED
    BY <1>1, <1>2, <2>1, <2>2
<1>6. Ended(t) <=> part = "last"
  BY <1>2 DEF Ended, Last
<1> QED
  BY <1>5, <1>6 DEF t

\* A part of an answer is sent: it is the next of its client, and no other's.
LEMMA SendAppends ==
    ASSUME TypeOK, NEW part \in Part, send(part), sock \in Clients,
           \A c \in Clients : Good(sent[c]), part = "head" <=> Ended(sent[sock])
    PROVE  /\ \A c \in Clients : Good(sent'[c])
           /\ \A c \in Clients : c # sock => sent'[c] = sent[c]
           /\ Ended(sent'[sock]) <=> part = "last"
<1>1. sent[sock] \in Seq(Part)
  BY DEF TypeOK, Part
<1>2. /\ sent'[sock] = Append(sent[sock], part)
      /\ \A c \in Clients : c # sock => sent'[c] = sent[c]
  BY DEF send, TypeOK
<1>3. Good(sent'[sock]) /\ (Ended(sent'[sock]) <=> part = "last")
  BY <1>1, <1>2, AppendGood
<1> QED
  BY <1>2, <1>3

LEMMA AnswersStep == Types /\ Answering /\ [Next]_vars => Answering'
<1> SUFFICES ASSUME Types, Answering, [Next]_vars PROVE Answering'
  OBVIOUS
<1> USE DEF Types
<1>0. cur \in Int /\ 0 \in Int
  BY SizeAssumption DEF TypeOK, Slots
<1>1. ASSUME UNCHANGED sent, pc \notin {"page", "foot", "killed"}, pc' \notin {"page", "foot"}
      PROVE  Answering'
  BY <1>1 DEF Answering, Whole, Halfway
<1>2. ASSUME NEW c \in Clients, Connect(c) \/ Ask(c) \/ SendMore(c) \/ Leave(c)
      PROVE  Answering'
  BY <1>2 DEF Connect, Ask, SendMore, Leave, server, Answering, Whole, Halfway, sock
<1>3. ASSUME NEW i \in Int, NEW S, After(i, S) PROVE pc' \in {"select", "recv"}
  BY <1>3, AfterGoesOn
<1>4. CASE Select
  BY <1>0, <1>1, <1>3, <1>4 DEF Select
<1>5. CASE Timeout \/ SelectFails \/ Accept \/ Hangup \/ RecvError
  BY <1>0, <1>1, <1>3, <1>5 DEF Timeout, SelectFails, CloseAll, Accept, Hangup, RecvError, Onward
<1>6. CASE Receive
  BY <1>0, <1>1, <1>3, <1>6 DEF Receive, Onward
<1>7. CASE SendHead
  <2>1. sock \in Clients /\ Ended(sent[sock]) /\ sock' = sock /\ send("head")
        /\ pc = "head" /\ pc' = "page"
    BY <1>7 DEF SendHead, Busy, Answering, Whole, sock
  <2>2. /\ \A c \in Clients : Good(sent'[c])
        /\ \A c \in Clients : c # sock => sent'[c] = sent[c]
        /\ ~Ended(sent'[sock])
    BY <2>1, SendAppends DEF Answering, Part
  <2> QED
    BY <2>1, <2>2 DEF Answering, Whole, Halfway
<1>8. CASE SendPage
  <2>1. sock \in Clients /\ ~Ended(sent[sock]) /\ sock' = sock
        /\ pc = "page" /\ pc' = "foot" /\ (send("data") \/ UNCHANGED sent)
    BY <1>8 DEF SendPage, httpSend, Busy, Answering, Halfway, sock
  <2>2. CASE UNCHANGED sent
    BY <2>1, <2>2 DEF Answering, Whole, Halfway
  <2>3. CASE send("data")
    <3>1. /\ \A c \in Clients : Good(sent'[c])
          /\ \A c \in Clients : c # sock => sent'[c] = sent[c]
          /\ ~Ended(sent'[sock])
      BY <2>1, <2>3, SendAppends DEF Answering, Part
    <3> QED
      BY <2>1, <3>1 DEF Answering, Whole, Halfway
  <2> QED
    BY <2>1, <2>2, <2>3
<1>9. CASE SendLast
  <2>1. sock \in Clients /\ ~Ended(sent[sock]) /\ send("last") /\ pc = "foot"
        /\ pc' \in {"select", "recv"}
    BY <1>0, <1>3, <1>9 DEF SendLast, Onward, Busy, Answering, Halfway
  <2>2. /\ \A c \in Clients : Good(sent'[c])
        /\ \A c \in Clients : c # sock => sent'[c] = sent[c]
        /\ Ended(sent'[sock])
    BY <2>1, SendAppends DEF Answering, Part
  <2>3. \A c \in Clients : Ended(sent'[c])
    BY <2>1, <2>2 DEF Answering, Whole
  <2> QED
    BY <2>1, <2>2, <2>3 DEF Answering, Whole, Halfway
<1>10. CASE BrokenPipe
  BY <1>10 DEF BrokenPipe, Answering, Whole, Halfway
<1>11. CASE UNCHANGED vars
  BY <1>11 DEF vars, server, Answering, Whole, Halfway, sock
<1> QED
  BY <1>2, <1>4, <1>5, <1>6, <1>7, <1>8, <1>9, <1>10, <1>11 DEF Next, Server, Answer

----------------------------------------------------------------------------
(* The theorems *)

LEMMA GoodIsWellFormed == IInv => WellFormed
<1> SUFFICES ASSUME IInv PROVE WellFormed
  OBVIOUS
<1>1. ASSUME NEW c \in Clients
      PROVE  \A n \in DOMAIN sent[c] : sent[c][n] = "head" <=> n = 1 \/ sent[c][n - 1] = "last"
  <2>1. sent[c] \in Seq(Part)
    BY DEF IInv, Types, TypeOK, Part
  <2>2. DOMAIN sent[c] = 1..Len(sent[c])
    BY <2>1, LenProperties
  <2> QED
    BY <2>2 DEF IInv, Answering, Good
<1> QED
  BY <1>1 DEF WellFormed

LEMMA Inductive == Spec => []IInv
<1>1. IInv /\ [Next]_vars => IInv'
  BY TypesStep, TableStep, AnswersStep DEF IInv
<1> QED
  BY <1>1, InvInit, PTL DEF Spec

(***************************************************************************)
(* The table, the buffers and the connections keep their types: no buffer  *)
(* takes more than fits into it, and the loop is always at a slot.         *)
(***************************************************************************)
THEOREM TypeCorrect == Spec => []TypeOK
<1>1. IInv => TypeOK
  BY DEF IInv, Types
<1> QED
  BY <1>1, Inductive, PTL

(***************************************************************************)
(* Every connection that is open has one slot, and every slot a connection *)
(* that is open, but for those lost after a failed recv: through accepting *)
(* with a full table, timeouts, hangups and resets.                        *)
(***************************************************************************)
THEOREM OneSlotEach == Spec => []OpenHasOneSlot
<1>1. IInv => OpenHasOneSlot
  BY DEF IInv
<1> QED
  BY <1>1, Inductive, PTL

(***************************************************************************)
(* What a client is sent is a sequence of answers, each with one header,   *)
(* the last one perhaps not whole, whatever the requests were.             *)
(***************************************************************************)
THEOREM AnswersAreWellFormed == Spec => []WellFormed
<1> QED
  BY GoodIsWellFormed, Inductive, PTL

----------------------------------------------------------------------------
(* Requests and answers.  What the server has received of a connection and *)
(* not yet thrown away, and what is still on its way, is one sequence of   *)
(* lines: to receive moves a line from the second part to the first and    *)
(* leaves the sequence as it is, to answer throws its first part away, to  *)
(* lose a connection cuts it off.                                          *)

BufferOf(sk, bf, c) ==
    IF \E i \in Slots : sk[i] = c THEN bf[CHOOSE i \in Slots : sk[i] = c] ELSE <<>>
Stream(c) == BufferOf(socket, buffer, c) \o wire[c]

\* The requests whose last line was sent.
Finished(c) == IF c \in inside THEN asked[c] - 1 ELSE asked[c]

\* The lines s and the answered requests v of a client that has begun a requests
\* and finished d: the numbers never go down, they go up behind an empty line,
\* and those of answered requests are in the past.
Ordered(s, a, d, v) ==
    /\ \A n \in 1..Len(s) : s[n][2] <= a /\ (s[n][1] = "end" => s[n][2] <= d)
    /\ \A m, n \in 1..Len(s) : m < n => /\ s[m][2] <= s[n][2]
                                        /\ s[m][1] = "end" => s[m][2] < s[n][2]
    /\ \A m \in 1..Len(v) : v[m][2] <= d /\ \A n \in 1..Len(s) : v[m][2] < s[n][2]
    /\ \A m, n \in 1..Len(v) : m < n => v[m][2] < v[n][2]

\* The same of a client that waits for each answer: all is answered, or the
\* lines are those of the one request that is not, its first line in front.
Polite(s, a, d, v) ==
    /\ \A n \in 1..Len(v) : v[n] = <<"get", n>>
    /\ \/ Len(v) = a /\ d = a /\ s = <<>>
       \/ /\ Len(v) + 1 = a
          /\ \A n \in 1..Len(s) : s[n][2] = a /\ (s[n][1] \in {"get", "junk"} <=> n = 1)

LEMMA LineParts ==
    ASSUME NEW s \in Seq(Line), NEW n \in 1..Len(s)
    PROVE  s[n] \in Line /\ s[n][1] \in Kinds /\ s[n][2] \in Nat
<1>1. s[n] \in Line
  BY ElementOfSeq
<1> QED
  BY <1>1 DEF Line

\* The second of two sequences in their concatenation.
LEMMA ConcatSecond ==
    ASSUME NEW b \in Seq(Line), NEW w \in Seq(Line), NEW n \in 1..Len(w)
    PROVE  Len(b) + n \in 1..Len(b \o w) /\ (b \o w)[Len(b) + n] = w[n]
<1>1. Len(b \o w) = Len(b) + Len(w) /\ Len(b) \in Nat /\ Len(w) \in Nat
  BY ConcatProperties, LenProperties
<1>2. Len(b) + n \in Len(b) + 1 .. Len(b) + Len(w) /\ (Len(b) + n) - Len(b) = n
  BY <1>1
<1> QED
  BY <1>1, <1>2, ConcatProperties

LEMMA LessTrans ==
    ASSUME NEW i \in Int, NEW j \in Int, NEW k \in Int, NEW l \in Int,
           i <= j, j <= k, k < l
    PROVE  i < l
OBVIOUS

\* A line of request k is sent, the first of it or a later one.
LEMMA OrderedAppend ==
    ASSUME NEW s \in Seq(Line), NEW v \in Seq(Line), NEW a \in Nat, NEW d \in Int,
           NEW kind \in Kinds, NEW k \in Nat \ {0}, NEW e \in Int,
           a <= k, d < k, d <= e, kind = "end" => k <= e,
           Ordered(s, a, d, v)
    PROVE  Ordered(Append(s, <<kind, k>>), k, e, v)
<1> DEFINE line == <<kind, k>>
           t == Append(s, line)
<1>1. line \in Line /\ line[1] = kind /\ line[2] = k
  BY DEF Line
<1>2. /\ Len(t) = Len(s) + 1 /\ Len(s) \in Nat
      /\ \A n \in 1..Len(s) : t[n] = s[n]
      /\ t[Len(s) + 1] = line
  BY <1>1, AppendProperties, LenProperties
<1> HIDE DEF line, t
<1>3. \A n \in 1..Len(s) : s[n][2] \in Nat /\ s[n][2] <= a /\ (s[n][1] = "end" => s[n][2] <= d)
  BY LineParts DEF Ordered
<1>4. \A m \in 1..Len(v) : v[m][2] \in Nat /\ v[m][2] <= d
  BY LineParts DEF Ordered
<1>5. ASSUME NEW n \in 1..Len(t)
      PROVE  t[n][2] <= k /\ (t[n][1] = "end" => t[n][2] <= e)
  <2>1. CASE n \in 1..Len(s)
    BY <1>2, <1>3, <2>1
  <2>2. CASE n = Len(s) + 1
    BY <1>1, <1>2, <2>2
  <2> QED
    BY <1>2, <2>1, <2>2
<1>6. ASSUME NEW m \in 1..Len(t), NEW n \in 1..Len(t), m < n
      PROVE  t[m][2] <= t[n][2] /\ (t[m][1] = "end" => t[m][2] < t[n][2])
  <2>1. m \in 1..Len(s)
    BY <1>2, <1>6
  <2>2. CASE n \in 1..Len(s)
    BY <1>2, <1>6, <2>1, <2>2 DEF Ordered
  <2>3. CASE n = Len(s) + 1
    BY <1>1, <1>2, <1>3, <2>1, <2>3
  <2> QED
    BY <1>2, <2>2, <2>3
<1>7. ASSUME NEW m \in 1..Len(v), NEW n \in 1..Len(t) PROVE v[m][2] < t[n][2]
  <2>1. CASE n \in 1..Len(s)
    BY <1>2, <2>1 DEF Ordered
  <2>2. CASE n = Len(s) + 1
    BY <1>1, <1>2, <1>4, <2>2
  <2> QED
    BY <1>2, <2>1, <2>2
<1>8. \A m \in 1..Len(v) : v[m][2] <= e
  BY <1>4
<1>9. \A m, n \in 1..Len(v) : m < n => v[m][2] < v[n][2]
  BY DEF Ordered
<1> QED
  BY <1>5, <1>6, <1>7, <1>8, <1>9 DEF Ordered, t, line

\* Lines are lost.
LEMMA OrderedCut ==
    ASSUME NEW b \in Seq(Line), NEW w \in Seq(Line), NEW v, NEW a, NEW d,
           Ordered(b \o w, a, d, v)
    PROVE  Ordered(b, a, d, v)
<1>1. /\ Len(b \o w) = Len(b) + Len(w) /\ Len(b) \in Nat /\ Len(w) \in Nat
      /\ \A n \in 1..Len(b) : (b \o w)[n] = b[n]
  BY ConcatProperties, LenProperties
<1>2. 1..Len(b) \subseteq 1..Len(b \o w)
  BY <1>1
<1> QED
  BY <1>1, <1>2 DEF Ordered

\* An answer is sent: the buffer b, a request in front and an empty line
\* somewhere behind it, is thrown away.
LEMMA OrderedServe ==
    ASSUME NEW b \in Seq(Line), NEW w \in Seq(Line), NEW v \in Seq(Line),
           NEW a \in Nat, NEW d \in Int,
           Ordered(b \o w, a, d, v), NEW e \in 2..Len(b), b[e][1] = "end"
    PROVE  /\ Ordered(w, a, d, Append(v, b[1]))
           /\ b[1][2] <= b[e][2] /\ b[e][2] <= d
           /\ \A n \in 1..Len(w) : b[e][2] < w[n][2]
<1> DEFINE s == b \o w
           u == Append(v, b[1])
<1>1. /\ Len(s) = Len(b) + Len(w) /\ Len(b) \in Nat /\ Len(w) \in Nat /\ s \in Seq(Line)
      /\ \A n \in 1..Len(b) : s[n] = b[n]
      /\ \A n \in 1..Len(w) : Len(b) + n \in 1..Len(s) /\ s[Len(b) + n] = w[n]
  BY ConcatProperties, ConcatSecond, LenProperties
<1>2. 1 \in 1..Len(b) /\ e \in 1..Len(b) /\ 1 < e
  BY <1>1
<1>3. b[1] \in Line /\ b[1][2] \in Nat /\ b[e][2] \in Nat
  BY <1>2, LineParts
<1>4. 1 \in 1..Len(s) /\ e \in 1..Len(s)
  BY <1>1, <1>2
<1>5. b[1][2] <= b[e][2] /\ b[e][2] <= d
  BY <1>1, <1>2, <1>4 DEF Ordered
<1>6. ASSUME NEW n \in 1..Len(w) PROVE w[n][2] \in Nat /\ b[e][2] < w[n][2]
  <2>1. e < Len(b) + n
    BY <1>1, <1>2
  <2>2. s[e][2] < s[Len(b) + n][2]
    BY <1>1, <1>2, <1>4, <2>1 DEF Ordered
  <2> QED
    BY <1>1, <1>2, <2>2, LineParts
<1>7. /\ Len(u) = Len(v) + 1 /\ Len(v) \in Nat
      /\ \A n \in 1..Len(v) : u[n] = v[n] /\ v[n][2] \in Nat
      /\ u[Len(v) + 1] = b[1]
  BY <1>3, AppendProperties, LenProperties, LineParts
<1>8. \A m \in 1..Len(v) : v[m][2] < b[1][2]
  BY <1>1, <1>2, <1>4 DEF Ordered
<1>9. \A n \in 1..Len(w) : w[n][2] <= a /\ (w[n][1] = "end" => w[n][2] <= d)
  BY <1>1 DEF Ordered
<1>10. ASSUME NEW m \in 1..Len(w), NEW n \in 1..Len(w), m < n
       PROVE  w[m][2] <= w[n][2] /\ (w[m][1] = "end" => w[m][2] < w[n][2])
  <2>1. Len(b) + m < Len(b) + n
    BY <1>1, <1>10
  <2>2. Len(b) + m \in 1..Len(s) /\ Len(b) + n \in 1..Len(s)
    BY <1>1
  <2> HIDE DEF s
  <2>3. /\ s[Len(b) + m][2] <= s[Len(b) + n][2]
        /\ s[Len(b) + m][1] = "end" => s[Len(b) + m][2] < s[Len(b) + n][2]
    <3>1. Ordered(s, a, d, v)
      BY DEF s
    <3> QED
      BY <2>1, <2>2, <3>1 DEF Ordered
  <2> QED
    BY <1>1, <2>3
<1> HIDE DEF s, u
<1>11. ASSUME NEW m \in 1..Len(u)
       PROVE  u[m][2] <= d /\ \A n \in 1..Len(w) : u[m][2] < w[n][2]
  <2>0. b[1][2] \in Int /\ b[e][2] \in Int
    BY <1>3
  <2>1. u[m][2] <= b[1][2] /\ u[m][2] \in Int
    <3>1. CASE m \in 1..Len(v)
      <4>1. u[m] = v[m] /\ v[m][2] \in Nat /\ v[m][2] < b[1][2]
        BY <1>7, <1>8, <3>1
      <4> QED
        BY <2>0, <4>1
    <3>2. CASE m = Len(v) + 1
      BY <1>3, <1>7, <3>2
    <3> QED
      BY <1>3, <1>7, <3>1, <3>2
  <2>2. u[m][2] <= d
    BY <1>5, <2>0, <2>1
  <2>3. ASSUME NEW n \in 1..Len(w) PROVE u[m][2] < w[n][2]
    <3>1. w[n][2] \in Int /\ b[e][2] < w[n][2]
      BY <1>6
    <3> QED
      BY <1>5, <2>0, <2>1, <3>1, LessTrans
  <2> QED
    BY <2>2, <2>3
<1>12. ASSUME NEW m \in 1..Len(u), NEW n \in 1..Len(u), m < n
       PROVE  u[m][2] < u[n][2]
  <2>1. m \in 1..Len(v)
    BY <1>7, <1>12
  <2>2. CASE n \in 1..Len(v)
    BY <1>7, <1>12, <2>1, <2>2 DEF Ordered
  <2>3. CASE n = Len(v) + 1
    BY <1>7, <1>8, <2>1, <2>3
  <2> QED
    BY <1>7, <2>2, <2>3
<1> QED
  BY <1>5, <1>6, <1>9, <1>10, <1>11, <1>12 DEF Ordered, u

\* The same four steps of a client that waits for each answer.
LEMMA PoliteAsk ==
    ASSUME NEW s \in Seq(Line), NEW v, NEW a \in Nat, NEW d, NEW kind \in {"get", "junk"},
           Polite(s, a, d, v), Len(v) = a
    PROVE  Polite(Append(s, <<kind, a + 1>>), a + 1, a, v)
<1>1. s = <<>>
  BY DEF Polite
<1>2. Append(s, <<kind, a + 1>>) = << <<kind, a + 1>> >>
  BY <1>1
<1>3. \A n \in 1..1 : << <<kind, a + 1>> >>[n] = <<kind, a + 1>> /\ n = 1
  OBVIOUS
<1> QED
  BY <1>2, <1>3 DEF Polite

LEMMA PoliteMore ==
    ASSUME NEW s \in Seq(Line), NEW v, NEW a \in Nat \ {0}, NEW d, NEW e,
           NEW kind \in {"more", "end"},
           Polite(s, a, d, v), s # <<>>
    PROVE  Polite(Append(s, <<kind, a>>), a, e, v)
<1> DEFINE line == <<kind, a>>
           t == Append(s, line)
<1>1. line \in Line /\ line[1] \notin {"get", "junk"} /\ line[2] = a
  BY DEF Line, Kinds
<1>2. /\ Len(t) = Len(s) + 1 /\ Len(s) \in Nat /\ Len(s) # 0
      /\ \A n \in 1..Len(s) : t[n] = s[n]
      /\ t[Len(s) + 1] = line
  BY <1>1, AppendProperties, LenProperties, EmptySeq
<1> HIDE DEF line, t
<1>3. Len(v) + 1 = a
      /\ \A n \in 1..Len(s) : s[n][2] = a /\ (s[n][1] \in {"get", "junk"} <=> n = 1)
  BY DEF Polite
<1>4. ASSUME NEW n \in 1..Len(t)
      PROVE  t[n][2] = a /\ (t[n][1] \in {"get", "junk"} <=> n = 1)
  <2>1. CASE n \in 1..Len(s)
    BY <1>2, <1>3, <2>1
  <2>2. CASE n = Len(s) + 1
    BY <1>1, <1>2, <2>2
  <2> QED
    BY <1>2, <2>1, <2>2
<1> QED
  BY <1>3, <1>4 DEF Polite, t, line

LEMMA PoliteCut ==
    ASSUME NEW b \in Seq(Line), NEW w \in Seq(Line), NEW v, NEW a, NEW d,
           Polite(b \o w, a, d, v)
    PROVE  Polite(b, a, d, v)
<1>1. /\ Len(b \o w) = Len(b) + Len(w) /\ Len(b) \in Nat /\ Len(w) \in Nat
      /\ b \o w \in Seq(Line)
      /\ \A n \in 1..Len(b) : (b \o w)[n] = b[n]
  BY ConcatProperties, LenProperties
<1>2. 1..Len(b) \subseteq 1..Len(b \o w)
  BY <1>1
<1>3. b \o w = <<>> => b = <<>>
  BY <1>1, EmptySeq
<1> QED
  BY <1>1, <1>2, <1>3 DEF Polite

LEMMA PoliteServe ==
    ASSUME NEW b \in Seq(Line), NEW w \in Seq(Line), NEW v \in Seq(Line),
           NEW a \in Nat, NEW d \in {a - 1, a},
           Ordered(b \o w, a, d, v), Polite(b \o w, a, d, v),
           NEW e \in 2..Len(b), b[e][1] = "end", IsRequest(b[1])
    PROVE  /\ Polite(w, a, d, Append(v, b[1]))
           /\ w = <<>> /\ d = a
<1> DEFINE s == b \o w
<1>1. /\ Len(s) = Len(b) + Len(w) /\ Len(b) \in Nat /\ Len(w) \in Nat /\ s \in Seq(Line)
      /\ \A n \in 1..Len(b) : s[n] = b[n]
      /\ \A n \in 1..Len(w) : Len(b) + n \in 1..Len(s) /\ s[Len(b) + n] = w[n]
      /\ Len(v) \in Nat
  BY ConcatProperties, ConcatSecond, LenProperties
<1> HIDE DEF s
<1>2. 1 \in 1..Len(s) /\ e \in 1..Len(s) /\ 1 \in 1..Len(b) /\ e \in 1..Len(b) /\ e # 1
  BY <1>1
<1>3. s # <<>>
  BY <1>1, <1>2, EmptySeq
<1>4. /\ \A n \in 1..Len(v) : v[n] = <<"get", n>>
      /\ Len(v) + 1 = a
      /\ \A n \in 1..Len(s) : s[n][2] = a /\ (s[n][1] \in {"get", "junk"} <=> n = 1)
  BY <1>3 DEF Polite, s
<1>5. b[1] = <<"get", a>>
  <2>1. b[1] \in Line /\ b[1][2] = a /\ b[1][1] \in {"get", "junk"}
    BY <1>1, <1>2, <1>4, LineParts
  <2>2. b[1][1] = "get"
    BY <2>1 DEF IsRequest
  <2> QED
    BY <2>1, <2>2 DEF Line
<1>6. b[e][2] = a
  BY <1>1, <1>2, <1>4
<1>7. b[e][2] <= d /\ \A n \in 1..Len(w) : b[e][2] < w[n][2]
  BY OrderedServe
<1>8. d = a
  BY <1>6, <1>7
<1>9. w = <<>>
  <2>1. ASSUME Len(w) # 0 PROVE FALSE
    <3>1. 1 \in 1..Len(w)
      BY <1>1, <2>1
    <3>2. Len(b) + 1 \in 1..Len(s) /\ s[Len(b) + 1] = w[1]
      BY <1>1, <3>1
    <3>3. w[1][2] = a
      BY <1>4, <3>2
    <3> QED
      BY <1>6, <1>7, <3>1, <3>3
  <2> QED
    BY <2>1, EmptySeq
<1>10. /\ Len(Append(v, b[1])) = a
       /\ \A n \in 1..Len(v) : Append(v, b[1])[n] = v[n]
       /\ Append(v, b[1])[Len(v) + 1] = b[1]
  <2>1. b[1] \in Line
    BY <1>2, LineParts
  <2> QED
    BY <1>4, <2>1, AppendProperties
<1>11. ASSUME NEW n \in 1..Len(Append(v, b[1])) PROVE Append(v, b[1])[n] = <<"get", n>>
  <2>1. CASE n \in 1..Len(v)
    BY <1>4, <1>10, <2>1
  <2>2. CASE n = Len(v) + 1
    BY <1>4, <1>5, <1>10, <2>2
  <2> QED
    BY <1>1, <1>4, <1>10, <2>1, <2>2
<1> QED
  BY <1>8, <1>9, <1>10, <1>11 DEF Polite

----------------------------------------------------------------------------
(* The stream of a connection *)

LEMMA BufferIs ==
    ASSUME NEW sk, NEW bf, NEW c, NEW i \in Slots, sk[i] = c,
           \A j \in Slots : sk[j] = c => j = i
    PROVE  BufferOf(sk, bf, c) = bf[i]
<1>1. (CHOOSE j \in Slots : sk[j] = c) = i
  OBVIOUS
<1> QED
  BY <1>1 DEF BufferOf

LEMMA BufferNone ==
    ASSUME NEW sk, NEW bf, NEW c, \A j \in Slots : sk[j] # c
    PROVE  BufferOf(sk, bf, c) = <<>>
BY DEF BufferOf

\* Slot i is not, and will not be, that of c.
LEMMA BufferElsewhere ==
    ASSUME NEW sk, NEW bf, NEW sl, NEW bg, NEW c, NEW i \in Slots,
           sk[i] # c, sl[i] # c,
           \A j \in Slots \ {i} : sl[j] = sk[j] /\ bg[j] = bf[j],
           \A j, k \in Slots : sk[j] = c /\ sk[k] = c => j = k
    PROVE  BufferOf(sl, bg, c) = BufferOf(sk, bf, c)
<1>1. CASE \A j \in Slots : sk[j] # c
  <2>1. \A j \in Slots : sl[j] # c
    BY <1>1
  <2> QED
    BY <1>1, <2>1, BufferNone
<1>2. ASSUME NEW j \in Slots, sk[j] = c PROVE BufferOf(sl, bg, c) = BufferOf(sk, bf, c)
  <2>1. j # i /\ sl[j] = c /\ bg[j] = bf[j]
    BY <1>2
  <2>2. \A k \in Slots : (sk[k] = c => k = j) /\ (sl[k] = c => k = j)
    BY <1>2
  <2> QED
    BY <1>2, <2>1, <2>2, BufferIs
<1> QED
  BY <1>1, <1>2

\* What the table says of a client.
LEMMA SlotOfClient ==
    ASSUME OpenHasOneSlot, TypeOK, NEW c \in Clients
    PROVE  /\ \A j, k \in Slots : socket[j] = c /\ socket[k] = c => j = k
           /\ \A j \in Slots : socket[j] = c => /\ conn[c] = "open"
                                                /\ BufferOf(socket, buffer, c) = buffer[j]
           /\ conn[c] # "open" => BufferOf(socket, buffer, c) = <<>>
           /\ BufferOf(socket, buffer, c) \in Seq(Line)
           /\ Stream(c) \in Seq(Line)
<1>1. \A j, k \in Slots : socket[j] = c /\ socket[k] = c => j = k
  BY DEF OpenHasOneSlot
<1>2. ASSUME NEW j \in Slots, socket[j] = c
      PROVE conn[c] = "open" /\ BufferOf(socket, buffer, c) = buffer[j]
  BY <1>1, <1>2, BufferIs DEF OpenHasOneSlot
<1>3. (\A j \in Slots : socket[j] # c) => BufferOf(socket, buffer, c) = <<>>
  BY BufferNone
<1>4. BufferOf(socket, buffer, c) \in Seq(Line)
  <2>1. <<>> \in Seq(Line)
    OBVIOUS
  <2>2. ASSUME NEW j \in Slots, socket[j] = c
        PROVE  BufferOf(socket, buffer, c) \in Seq(Line)
    <3>1. buffer[j] \in Seq(Line)
      BY DEF TypeOK
    <3> QED
      BY <1>2, <2>2, <3>1
  <2> QED
    BY <1>3, <2>1, <2>2
<1>5. Stream(c) \in Seq(Line)
  BY <1>4, ConcatProperties DEF Stream, TypeOK
<1> QED
  BY <1>1, <1>2, <1>3, <1>4, <1>5

----------------------------------------------------------------------------
(* The invariant of a client *)

\* It can still send.
Sending(c) == peer[c] = "stays" /\ conn[c] \in {"backlog", "open"}

Match(c) ==
    /\ Ordered(Stream(c), asked[c], Finished(c), served[c])
    /\ Answers(c) = Len(served[c])
    /\ c \notin hurried => /\ Polite(Stream(c), asked[c], Finished(c), served[c])
                           /\ c \in inside /\ Sending(c) => Stream(c) # <<>>
    /\ c \in clobbered => peer[c] # "stays"
    /\ conn[c] = "none" => c \notin inside
Matching == \A c \in Clients : Match(c)

\* What is answered is a whole request.
Handled == pc \in {"head", "page", "foot"} =>
               IsRequest(buffer[cur][1]) /\ Complete(buffer[cur])

\* Nothing has happened that matters for c.
LEMMA MatchSame ==
    ASSUME NEW c \in Clients, Match(c), Stream(c)' = Stream(c),
           asked'[c] = asked[c], c \in inside' <=> c \in inside,
           served'[c] = served[c], Answers(c)' = Answers(c),
           c \in hurried => c \in hurried',
           peer'[c] = "stays" => peer[c] = "stays",
           c \in clobbered' => c \in clobbered \/ peer'[c] # "stays",
           \/ conn'[c] = conn[c]
           \/ conn[c] = "none" /\ conn'[c] = "backlog"
           \/ conn[c] = "backlog" /\ conn'[c] = "open"
    PROVE  Match(c)'
<1>1. Finished(c)' = Finished(c)
  BY DEF Finished
<1>2. c \in inside' /\ Sending(c)' => c \in inside /\ Sending(c)
  BY DEF Sending, Match
<1> QED
  BY <1>1, <1>2 DEF Match

\* The connection is lost, and with it the lines behind b.
LEMMA MatchLost ==
    ASSUME NEW c \in Clients, Match(c), ~Sending(c)',
           NEW b \in Seq(Line), NEW w \in Seq(Line), Stream(c) = b \o w, Stream(c)' = b,
           asked'[c] = asked[c], c \in inside' <=> c \in inside,
           served'[c] = served[c], Answers(c)' = Answers(c),
           c \in hurried => c \in hurried',
           c \in clobbered' => peer'[c] # "stays",
           conn'[c] # "none"
    PROVE  Match(c)'
<1>1. Finished(c)' = Finished(c)
  BY DEF Finished
<1>2. Ordered(b, asked[c], Finished(c), served[c])
  BY OrderedCut DEF Match
<1>3. c \notin hurried => Polite(b, asked[c], Finished(c), served[c])
  BY PoliteCut DEF Match
<1> QED
  BY <1>1, <1>2, <1>3 DEF Match

\* The client sends a line.
LEMMA StreamSends ==
    ASSUME Types, OpenHasOneSlot, NEW c \in Clients, NEW kind \in Kinds, NEW k \in Nat \ {0},
           Sends(c, kind, k), UNCHANGED server
    PROVE  /\ Stream(c)' = Append(Stream(c), <<kind, k>>)
           /\ \A d \in Clients \ {c} : Stream(d)' = Stream(d)
           /\ Sending(c)
<1>1. wire'[c] = Append(wire[c], <<kind, k>>) /\ \A d \in Clients \ {c} : wire'[d] = wire[d]
  BY DEF Sends, Types, TypeOK
<1>2. /\ BufferOf(socket, buffer, c) \in Seq(Line) /\ wire[c] \in Seq(Line)
      /\ <<kind, k>> \in Line
  BY SlotOfClient DEF Types, TypeOK, Line
<1>3. ASSUME NEW b \in Seq(Line), NEW w \in Seq(Line), NEW line \in Line
      PROVE  b \o Append(w, line) = Append(b \o w, line)
  OBVIOUS
<1>4. BufferOf(socket, buffer, c) \o wire'[c] = Append(Stream(c), <<kind, k>>)
  BY <1>1, <1>2, <1>3 DEF Stream
<1> QED
  BY <1>1, <1>4 DEF Stream, server, Sends, Sending

LEMMA MatchAsk ==
    ASSUME Types, OpenHasOneSlot, NEW c \in Clients, Match(c), Ask(c)
    PROVE  Match(c)'
<1>1. PICK kind \in {"get", "junk"} : Sends(c, kind, asked[c] + 1)
  BY DEF Ask
<1>2. /\ asked[c] \in Nat /\ served[c] \in Seq(Line) /\ Stream(c) \in Seq(Line)
      /\ kind \in Kinds /\ asked[c] + 1 \in Nat \ {0}
  BY SlotOfClient DEF Types, TypeOK, Kinds
<1>3. /\ asked'[c] = asked[c] + 1 /\ c \in inside' /\ c \notin inside
      /\ UNCHANGED <<served, sent, clobbered, peer, conn>>
      /\ Stream(c)' = Append(Stream(c), <<kind, asked[c] + 1>>)
      /\ Sending(c)
      /\ c \notin hurried' => c \notin hurried /\ ~(Answers(c) < asked[c])
  BY <1>1, <1>2, StreamSends DEF Ask, Types, TypeOK
<1>4. Finished(c) = asked[c] /\ Finished(c)' = asked[c] /\ Answers(c)' = Answers(c)
  BY <1>2, <1>3 DEF Finished, Answers
<1>5. Ordered(Stream(c)', asked'[c], Finished(c)', served'[c])
  <2>1. Ordered(Stream(c), asked[c], asked[c], served[c])
    BY <1>4 DEF Match
  <2>2. Ordered(Append(Stream(c), <<kind, asked[c] + 1>>), asked[c] + 1, asked[c], served[c])
    BY <1>2, <2>1, OrderedAppend
  <2> QED
    BY <1>3, <1>4, <2>2
<1>6. ASSUME c \notin hurried'
      PROVE  Polite(Stream(c)', asked'[c], Finished(c)', served'[c])
  <2>1. Polite(Stream(c), asked[c], Finished(c), served[c]) /\ Answers(c) = Len(served[c])
        /\ ~(Answers(c) < asked[c])
    BY <1>3, <1>6 DEF Match
  <2>2. Len(served[c]) = asked[c]
    BY <1>2, <2>1, LenProperties DEF Polite
  <2>3. Polite(Append(Stream(c), <<kind, asked[c] + 1>>), asked[c] + 1, asked[c], served[c])
    BY <1>2, <2>1, <2>2, PoliteAsk
  <2> QED
    BY <1>3, <1>4, <2>3
<1>7. Stream(c)' # <<>>
  BY <1>2, <1>3
<1>8. conn'[c] # "none" /\ (c \in clobbered' => peer'[c] # "stays")
  BY <1>3 DEF Match, Sending
<1> QED
  BY <1>3, <1>4, <1>5, <1>6, <1>7, <1>8 DEF Match

LEMMA MatchSendMore ==
    ASSUME Types, OpenHasOneSlot, NEW c \in Clients, Match(c), SendMore(c)
    PROVE  Match(c)'
<1>1. PICK kind \in {"more", "end"} :
          /\ Sends(c, kind, asked[c])
          /\ inside' = IF kind = "more" THEN inside ELSE inside \ {c}
  BY DEF SendMore
<1>2. /\ asked[c] \in Nat \ {0} /\ served[c] \in Seq(Line) /\ Stream(c) \in Seq(Line)
      /\ kind \in Kinds /\ asked[c] - 1 \in Int /\ c \in inside
  BY SlotOfClient DEF Types, TypeOK, Kinds, SendMore, Begun
<1>3. /\ UNCHANGED <<asked, served, sent, hurried, clobbered, peer, conn>>
      /\ Stream(c)' = Append(Stream(c), <<kind, asked[c]>>)
      /\ Sending(c)
  BY <1>1, <1>2, StreamSends DEF SendMore
<1>4. /\ Finished(c) = asked[c] - 1 /\ Answers(c)' = Answers(c)
      /\ Finished(c)' = IF kind = "more" THEN asked[c] - 1 ELSE asked[c]
  BY <1>1, <1>2, <1>3 DEF Finished, Answers
<1>5. Ordered(Stream(c)', asked'[c], Finished(c)', served'[c])
  <2>1. Ordered(Stream(c), asked[c], asked[c] - 1, served[c])
    BY <1>4 DEF Match
  <2>2. /\ Finished(c)' \in Int /\ asked[c] - 1 <= Finished(c)'
        /\ kind = "end" => asked[c] <= Finished(c)'
    BY <1>1, <1>2, <1>4
  <2>3. Ordered(Append(Stream(c), <<kind, asked[c]>>), asked[c], Finished(c)', served[c])
    <3> DEFINE e == Finished(c)'
    <3>1. e \in Int /\ asked[c] - 1 <= e /\ (kind = "end" => asked[c] <= e)
      BY <2>2
    <3> HIDE DEF e
    <3>2. asked[c] <= asked[c] /\ asked[c] - 1 < asked[c] /\ asked[c] \in Nat
      BY <1>2
    <3>3. Ordered(Append(Stream(c), <<kind, asked[c]>>), asked[c], e, served[c])
      BY <1>2, <2>1, <3>1, <3>2, OrderedAppend
    <3> QED
      BY <3>3 DEF e
  <2> QED
    BY <1>3, <2>3
<1>6. ASSUME c \notin hurried'
      PROVE  Polite(Stream(c)', asked'[c], Finished(c)', served'[c])
  <2>1. Polite(Stream(c), asked[c], Finished(c), served[c]) /\ Stream(c) # <<>>
    BY <1>2, <1>3, <1>6 DEF Match
  <2>2. Polite(Append(Stream(c), <<kind, asked[c]>>), asked[c], Finished(c)', served[c])
    BY <1>2, <2>1, PoliteMore
  <2> QED
    BY <1>3, <2>2
<1>7. Stream(c)' # <<>>
  BY <1>2, <1>3
<1>8. conn'[c] # "none" /\ (c \in clobbered' => peer'[c] # "stays")
  BY <1>3 DEF Match, Sending
<1> QED
  BY <1>3, <1>4, <1>5, <1>6, <1>7, <1>8 DEF Match

LEMMA MatchLeave ==
    ASSUME Types, OpenHasOneSlot, NEW c \in Clients, Match(c), Leave(c)
    PROVE  Match(c)'
<1>1. /\ UNCHANGED <<server, conn, asked, inside, sent, served, hurried, clobbered>>
      /\ peer'[c] # "stays" /\ conn'[c] # "none"
      /\ wire'[c] = wire[c] \/ wire'[c] = <<>>
  BY DEF Leave, Types, TypeOK
<1>2. Answers(c)' = Answers(c) /\ ~Sending(c)'
  BY <1>1 DEF Answers, Sending
<1> DEFINE b == BufferOf(socket, buffer, c)
<1>3. b \in Seq(Line) /\ wire[c] \in Seq(Line) /\ Stream(c) = b \o wire[c]
  BY SlotOfClient DEF Stream, Types, TypeOK
<1>4. BufferOf(socket', buffer', c) = b
  BY <1>1 DEF server
<1>5. CASE wire'[c] = wire[c]
  <2>1. Stream(c)' = Stream(c)
    BY <1>3, <1>4, <1>5 DEF Stream
  <2> QED
    BY <1>1, <1>2, <2>1, MatchSame DEF Leave
<1>6. CASE wire'[c] = <<>>
  <2>1. Stream(c)' = b
    <3>1. b \o <<>> = b
      BY <1>3
    <3> QED
      BY <1>4, <1>6, <3>1 DEF Stream
  <2> HIDE DEF b
  <2> QED
    BY <1>1, <1>2, <1>3, <2>1, MatchLost
<1> QED
  BY <1>1, <1>5, <1>6

\* The other clients when one of them does something.
LEMMA MatchOther ==
    ASSUME Types, NEW c \in Clients, Match(c),
           NEW d \in Clients \ {c}, Connect(d) \/ Ask(d) \/ SendMore(d) \/ Leave(d)
    PROVE  Match(c)'
<1>1. /\ UNCHANGED <<server, sent, served, clobbered>>
      /\ conn'[c] = conn[c] /\ peer'[c] = peer[c] /\ wire'[c] = wire[c]
      /\ asked'[c] = asked[c] /\ (c \in inside' <=> c \in inside)
      /\ c \in hurried => c \in hurried'
  BY DEF Connect, Ask, SendMore, Leave, Sends, client, Types, TypeOK
<1>2. Stream(c)' = Stream(c) /\ Answers(c)' = Answers(c)
  BY <1>1 DEF Stream, Answers, server
<1> QED
  BY <1>1, <1>2, MatchSame

LEMMA ClientsMatch ==
    ASSUME Types, OpenHasOneSlot, Matching, NEW d \in Clients,
           Connect(d) \/ Ask(d) \/ SendMore(d) \/ Leave(d)
    PROVE  Matching'
<1> SUFFICES ASSUME NEW c \in Clients PROVE Match(c)'
  BY DEF Matching
<1>1. Match(c)
  BY DEF Matching
<1>2. CASE c # d
  BY <1>1, <1>2, MatchOther
<1>3. CASE c = d /\ Connect(d)
  <2>1. /\ UNCHANGED <<server, client, wire, sent, served, clobbered>>
        /\ conn[c] = "none" /\ conn'[c] = "backlog"
    BY <1>3 DEF Connect, Types, TypeOK
  <2>2. Stream(c)' = Stream(c) /\ Answers(c)' = Answers(c)
    BY <2>1 DEF Stream, Answers, server
  <2> QED
    BY <1>1, <2>1, <2>2, MatchSame DEF client
<1>4. CASE c = d /\ Ask(d)
  BY <1>1, <1>4, MatchAsk
<1>5. CASE c = d /\ SendMore(d)
  BY <1>1, <1>5, MatchSendMore
<1>6. CASE c = d /\ Leave(d)
  BY <1>1, <1>6, MatchLeave
<1> QED
  BY <1>2, <1>3, <1>4, <1>5, <1>6

\* The server closes a connection.
LEMMA MatchClosed ==
    ASSUME Types, OpenHasOneSlot, NEW c \in Clients, Match(c),
           \A j \in Slots : socket'[j] # c, wire'[c] = <<>>,
           conn'[c] \in {"closed", "dropped"},
           UNCHANGED <<client, sent, served, clobbered>>
    PROVE  Match(c)'
<1>1. Stream(c) \in Seq(Line)
  BY SlotOfClient DEF Types
<1>2. Stream(c)' = <<>>
  <2>1. BufferOf(socket', buffer', c) = <<>>
    BY BufferNone
  <2>2. <<>> \o <<>> = <<>>
    OBVIOUS
  <2> QED
    BY <2>1, <2>2 DEF Stream
<1>3. <<>> \in Seq(Line) /\ Stream(c) = <<>> \o Stream(c)
  BY <1>1
<1>4. Answers(c)' = Answers(c) /\ ~Sending(c)' /\ (c \in clobbered' => peer'[c] # "stays")
  BY DEF Answers, Sending, Match, client
<1> QED
  BY <1>1, <1>2, <1>3, <1>4, MatchLost DEF client

\* The server does nothing about a connection.
LEMMA MatchKept ==
    ASSUME Types, OpenHasOneSlot, NEW c \in Clients, Match(c),
           BufferOf(socket', buffer', c) = BufferOf(socket, buffer, c),
           wire'[c] = wire[c],
           \/ conn'[c] = conn[c]
           \/ conn[c] = "backlog" /\ conn'[c] = "open",
           peer'[c] = "stays" => peer[c] = "stays",
           UNCHANGED <<asked, inside, hurried>>,
           Answers(c)' = Answers(c), served'[c] = served[c],
           c \in clobbered' => c \in clobbered \/ peer'[c] # "stays"
    PROVE  Match(c)'
<1>1. Stream(c)' = Stream(c)
  BY DEF Stream
<1> QED
  BY <1>1, MatchSame

LEMMA TimeoutMatches ==
    ASSUME Types, OpenHasOneSlot, NEW c \in Clients, Match(c), Timeout \/ SelectFails
    PROVE  Match(c)'
<1>0. PICK how \in {"closed", "dropped"} : CloseAll(how)
  BY AllClosed
<1>1. /\ \A j \in Slots : socket'[j] # c
      /\ UNCHANGED <<buffer, client, sent, served, clobbered>>
      /\ Answers(c)' = Answers(c)
  BY <1>0, ClientAssumption DEF CloseAll, Answers
<1>2. ASSUME NEW j \in Slots, socket[j] = c PROVE Match(c)'
  <2>1. conn'[c] = how /\ wire'[c] = <<>>
    BY <1>0, <1>2 DEF CloseAll, Gone
  <2> QED
    BY <1>1, <2>1, MatchClosed
<1>3. CASE \A j \in Slots : socket[j] # c
  <2>1. conn'[c] = conn[c] /\ wire'[c] = wire[c]
    BY <1>0, <1>3 DEF CloseAll, Gone
  <2>2. BufferOf(socket', buffer', c) = BufferOf(socket, buffer, c)
    BY <1>1, <1>3, BufferNone
  <2> QED
    BY <1>1, <2>1, <2>2, MatchKept DEF client
<1> QED
  BY <1>2, <1>3

LEMMA AcceptMatches ==
    ASSUME Types, OpenHasOneSlot, NEW c \in Clients, Match(c), Accept
    PROVE  Match(c)'
<1>1. PICK d \in Backlog :
         IF Free = {}
         THEN Closed({d}) /\ UNCHANGED <<socket, buffer, cut>>
         ELSE LET i == CHOOSE j \in Free : \A k \in Free : j <= k
              IN /\ socket' = [socket EXCEPT ![i] = d]
                 /\ buffer' = [buffer EXCEPT ![i] = <<>>]
                 /\ cut' = cut \ {i}
                 /\ conn' = [conn EXCEPT ![d] = "open"]
                 /\ UNCHANGED wire
  BY DEF Accept
<1>2. /\ UNCHANGED <<client, sent, served, clobbered>> /\ Answers(c)' = Answers(c)
      /\ d \in Clients /\ conn[d] = "backlog"
  BY DEF Accept, Backlog, Answers
<1>3. \A j \in Slots : socket[j] # d
  BY <1>2 DEF OpenHasOneSlot
<1>4. CASE Free = {}
  <2>1. /\ UNCHANGED <<socket, buffer>>
        /\ conn'[c] = IF c = d THEN "closed" ELSE conn[c]
        /\ wire'[c] = IF c = d THEN <<>> ELSE wire[c]
    BY <1>1, <1>4 DEF Closed, Gone
  <2>2. CASE c = d
    BY <1>2, <1>3, <2>1, <2>2, MatchClosed
  <2>3. CASE c # d
    BY <1>2, <2>1, <2>3, MatchKept DEF client
  <2> QED
    BY <2>2, <2>3
<1>5. CASE Free # {}
  <2> DEFINE i == CHOOSE j \in Free : \A k \in Free : j <= k
  <2>1. i \in Slots /\ socket[i] = NoSocket
    BY <1>5, FreeIsFree DEF Free
  <2> HIDE DEF i
  <2>2. /\ socket' = [socket EXCEPT ![i] = d] /\ buffer' = [buffer EXCEPT ![i] = <<>>]
        /\ conn' = [conn EXCEPT ![d] = "open"] /\ wire' = wire
    BY <1>1, <1>5 DEF i
  <2>3. /\ socket'[i] = d /\ buffer'[i] = <<>>
        /\ \A j \in Slots \ {i} : socket'[j] = socket[j] /\ buffer'[j] = buffer[j]
        /\ conn'[c] = IF c = d THEN "open" ELSE conn[c]
        /\ NoSocket # c
    BY <2>1, <2>2, ClientAssumption DEF Types, TypeOK
  <2>4. BufferOf(socket', buffer', c) = BufferOf(socket, buffer, c)
    <3>1. CASE c = d
      <4> DEFINE sl == socket'
                 bg == buffer'
      <4>1. i \in Slots /\ sl[i] = c /\ \A j \in Slots : sl[j] = c => j = i
        BY <1>3, <2>1, <2>3, <3>1
      <4>2. bg[i] = <<>>
        BY <2>3
      <4> HIDE DEF sl, bg
      <4>3. BufferOf(sl, bg, c) = bg[i]
        BY <4>1, BufferIs
      <4>4. BufferOf(socket, buffer, c) = <<>>
        BY <1>3, <3>1, BufferNone
      <4> QED
        BY <4>2, <4>3, <4>4 DEF sl, bg
    <3>2. CASE c # d
      <4> DEFINE sl == socket'
                 bg == buffer'
      <4>1. \A j, k \in Slots : socket[j] = c /\ socket[k] = c => j = k
        BY SlotOfClient DEF Types
      <4>2. socket[i] # c /\ sl[i] # c
        BY <2>1, <2>3, <3>2
      <4>3. \A j \in Slots \ {i} : sl[j] = socket[j] /\ bg[j] = buffer[j]
        BY <2>3
      <4> HIDE DEF sl, bg
      <4>4. BufferOf(sl, bg, c) = BufferOf(socket, buffer, c)
        BY <2>1, <4>1, <4>2, <4>3, BufferElsewhere
      <4> QED
        BY <4>4 DEF sl, bg
    <3> QED
      BY <3>1, <3>2
  <2> QED
    BY <1>2, <2>2, <2>3, <2>4, MatchKept DEF client
<1> QED
  BY <1>4, <1>5

\* The connection that the server works on has the slot cur, and no other
\* connection has it.
LEMMA SockSlot ==
    ASSUME Types, OpenHasOneSlot, pc \in {"recv", "head", "page", "foot"}
    PROVE  /\ cur \in Slots /\ sock \in Clients /\ conn[sock] = "open"
           /\ \A j \in Slots : socket[j] = sock => j = cur
           /\ BufferOf(socket, buffer, sock) = buffer[cur]
<1>1. cur \in Slots /\ sock \in Clients
  BY DEF Types, TypeOK, Busy
<1>2. conn[sock] = "open" /\ \A j \in Slots : socket[j] = sock => j = cur
  BY <1>1 DEF OpenHasOneSlot, sock
<1>3. BufferOf(socket, buffer, sock) = buffer[cur]
  <2> DEFINE c == sock
  <2>1. cur \in Slots /\ socket[cur] = c /\ \A j \in Slots : socket[j] = c => j = cur
    BY <1>1, <1>2 DEF sock
  <2> HIDE DEF c
  <2>2. BufferOf(socket, buffer, c) = buffer[cur]
    BY <2>1, BufferIs
  <2> QED
    BY <2>2 DEF c
<1> QED
  BY <1>1, <1>2, <1>3

\* The lines received are those at the front of the rest.
LEMMA Moved ==
    ASSUME NEW b \in Seq(Line), NEW w \in Seq(Line), NEW n \in 0..Len(w)
    PROVE  /\ b \o SubSeq(w, 1, n) \in Seq(Line)
           /\ SubSeq(w, n + 1, Len(w)) \in Seq(Line)
           /\ (b \o SubSeq(w, 1, n)) \o SubSeq(w, n + 1, Len(w)) = b \o w
<1> DEFINE f == SubSeq(w, 1, n)
           r == SubSeq(w, n + 1, Len(w))
<1>1. Len(w) \in Nat /\ \A i \in 1..Len(w) : w[i] \in Line
  BY LenProperties, ElementOfSeq
<1>2. f \in Seq(Line) /\ r \in Seq(Line)
  BY <1>1, SubSeqProperties
<1>3. f \o r = w
  <2>1. f \o r = SubSeq(w, 1, Len(w))
    <3>1. 1 \in 1..Len(w) + 1 /\ n \in 0..Len(w) /\ Len(w) \in n..Len(w) /\ 1 - 1 = 0
      BY <1>1
    <3> QED
      BY <3>1, ConcatAdjacentSubSeq
  <2>2. SubSeq(w, 1, Len(w)) = w
    BY SubSeqFull
  <2> QED
    BY <2>1, <2>2
<1> HIDE DEF f, r
<1>4. b \o f \in Seq(Line) /\ (b \o f) \o r = b \o (f \o r)
  BY <1>2, ConcatProperties, ConcatAssociative
<1> QED
  BY <1>2, <1>3, <1>4 DEF f, r

\* Another connection than the one that the server works on.
LEMMA NotSock ==
    ASSUME Types, OpenHasOneSlot, pc \in {"recv", "head", "page", "foot"},
           NEW c \in Clients \ {sock}, socket'[cur] # c,
           \A j \in Slots \ {cur} : socket'[j] = socket[j] /\ buffer'[j] = buffer[j]
    PROVE  BufferOf(socket', buffer', c) = BufferOf(socket, buffer, c)
<1> DEFINE sl == socket'
           bg == buffer'
           i == cur
<1>1. \A j, k \in Slots : socket[j] = c /\ socket[k] = c => j = k
  BY SlotOfClient DEF Types
<1>2. i \in Slots /\ socket[i] # c /\ sl[i] # c
  BY SockSlot DEF sock
<1>3. \A j \in Slots \ {i} : sl[j] = socket[j] /\ bg[j] = buffer[j]
  OBVIOUS
<1> HIDE DEF sl, bg, i
<1>4. BufferOf(sl, bg, c) = BufferOf(socket, buffer, c)
  BY <1>1, <1>2, <1>3, BufferElsewhere
<1> QED
  BY <1>4 DEF sl, bg

\* The connection that the server works on keeps its slot.
LEMMA StillSock ==
    ASSUME Types, OpenHasOneSlot, pc \in {"recv", "head", "page", "foot"},
           UNCHANGED socket
    PROVE  BufferOf(socket', buffer', sock) = buffer'[cur]
<1> DEFINE bg == buffer'
           i == cur
           c == sock
<1>1. i \in Slots /\ socket[i] = c /\ \A j \in Slots : socket[j] = c => j = i
  BY SockSlot DEF sock
<1> HIDE DEF bg, i, c
<1>2. BufferOf(socket, bg, c) = bg[i]
  BY <1>1, BufferIs
<1> QED
  BY <1>2 DEF bg, i, c

LEMMA ReceiveMatches ==
    ASSUME Types, OpenHasOneSlot, NEW c \in Clients, Match(c), Receive
    PROVE  Match(c)'
<1> DEFINE count == IF Len(wire[sock]) < Room THEN Len(wire[sock]) ELSE Room
           f == SubSeq(wire[sock], 1, count)
           r == SubSeq(wire[sock], count + 1, Len(wire[sock]))
<1>1. /\ cur \in Slots /\ sock \in Clients
      /\ wire[sock] \in Seq(Line) /\ buffer[cur] \in Seq(Line)
      /\ BufferOf(socket, buffer, sock) = buffer[cur]
      /\ pc = "recv" /\ count > 0
  BY SockSlot DEF Types, TypeOK, Receive
<1>2. count \in 0..Len(wire[sock])
  <2>1. Len(buffer[cur]) \in Nat /\ Len(wire[sock]) \in Nat /\ BufferSize \in Nat
    BY <1>1, SizeAssumption, LenProperties
  <2> QED
    BY <1>1, <2>1 DEF Room
<1>3. /\ UNCHANGED <<socket, conn, client, sent, served, clobbered>>
      /\ wire' = [wire EXCEPT ![sock] = r]
      /\ buffer' = [buffer EXCEPT ![cur] = buffer[cur] \o f]
  BY DEF Receive
<1>4. (buffer[cur] \o f) \o r = buffer[cur] \o wire[sock]
  BY <1>1, <1>2, Moved
<1> HIDE DEF count, f, r
<1>5. /\ wire'[sock] = r /\ buffer'[cur] = buffer[cur] \o f
      /\ c # sock => wire'[c] = wire[c]
      /\ \A j \in Slots \ {cur} : buffer'[j] = buffer[j]
  BY <1>1, <1>3 DEF Types, TypeOK
<1>6. Answers(c)' = Answers(c)
  BY <1>3 DEF Answers
<1>7. CASE c = sock
  <2>1. BufferOf(socket', buffer', c) = buffer'[cur]
    BY <1>1, <1>3, <1>7, StillSock
  <2>2. Stream(c)' = (buffer[cur] \o f) \o r
    BY <1>5, <1>7, <2>1 DEF Stream
  <2>3. Stream(c)' = Stream(c)
    BY <1>1, <1>4, <1>7, <2>2 DEF Stream
  <2> QED
    BY <1>3, <1>6, <2>3, MatchSame DEF client
<1>8. CASE c # sock
  <2>1. socket'[cur] # c
    BY <1>3, <1>8 DEF sock
  <2>2. BufferOf(socket', buffer', c) = BufferOf(socket, buffer, c)
    BY <1>1, <1>3, <1>5, <1>8, <2>1, NotSock
  <2> QED
    BY <1>3, <1>5, <1>6, <1>8, <2>2, MatchKept DEF client
<1> QED
  BY <1>7, <1>8

LEMMA HangupMatches ==
    ASSUME Types, OpenHasOneSlot, NEW c \in Clients, Match(c), Hangup
    PROVE  Match(c)'
<1>1. /\ pc = "recv" /\ UNCHANGED <<buffer, client, sent, served, clobbered>>
      /\ socket' = [socket EXCEPT ![cur] = NoSocket]
      /\ conn'[c] = IF c = sock THEN "closed" ELSE conn[c]
      /\ wire'[c] = IF c = sock THEN <<>> ELSE wire[c]
      /\ Answers(c)' = Answers(c)
  BY DEF Hangup, Closed, Gone, Answers
<1>2. /\ cur \in Slots /\ \A j \in Slots : socket[j] = sock => j = cur
      /\ NoSocket # c
  BY <1>1, SockSlot, ClientAssumption
<1>3. socket'[cur] = NoSocket /\ \A j \in Slots \ {cur} : socket'[j] = socket[j]
  BY <1>1, <1>2 DEF Types, TypeOK
<1>4. CASE c = sock
  <2>1. \A j \in Slots : socket'[j] # c
    BY <1>2, <1>3, <1>4
  <2> QED
    BY <1>1, <1>4, <2>1, MatchClosed
<1>5. CASE c # sock
  <2>1. BufferOf(socket', buffer', c) = BufferOf(socket, buffer, c)
    BY <1>1, <1>2, <1>3, <1>5, NotSock
  <2> QED
    BY <1>1, <1>5, <2>1, MatchKept DEF client
<1> QED
  BY <1>4, <1>5

LEMMA RecvErrorMatches ==
    ASSUME Types, OpenHasOneSlot, NEW c \in Clients, Match(c), RecvError
    PROVE  Match(c)'
<1>1. /\ pc = "recv" /\ wire[sock] = <<>>
      /\ UNCHANGED <<buffer, conn, wire, asked, inside, sent, served, hurried>>
      /\ peer' = [peer EXCEPT ![sock] = "left"]
      /\ \/ UNCHANGED <<socket, clobbered>>
         \/ /\ buffer[cur] = <<>>
            /\ socket' = [socket EXCEPT ![cur] = Stdin]
            /\ clobbered' = clobbered \cup {sock}
  BY DEF RecvError
<1>2. /\ cur \in Slots /\ sock \in Clients /\ Stdin # c
      /\ \A j \in Slots : socket[j] = sock => j = cur
      /\ BufferOf(socket, buffer, sock) = buffer[cur]
  BY <1>1, SockSlot, ClientAssumption
<1>3. /\ peer'[sock] = "left" /\ (c # sock => peer'[c] = peer[c])
      /\ Answers(c)' = Answers(c)
      /\ c \in clobbered' => c \in clobbered \/ peer'[c] # "stays"
  BY <1>1, <1>2 DEF Types, TypeOK, Answers
<1>4. BufferOf(socket', buffer', c) = BufferOf(socket, buffer, c)
  <2>1. CASE UNCHANGED socket
    BY <1>1, <2>1
  <2>2. CASE /\ buffer[cur] = <<>>
             /\ socket' = [socket EXCEPT ![cur] = Stdin]
    <3>1. socket'[cur] = Stdin /\ \A j \in Slots \ {cur} : socket'[j] = socket[j]
      BY <1>2, <2>2 DEF Types, TypeOK
    <3>2. CASE c = sock
      <4>1. \A j \in Slots : socket'[j] # c
        BY <1>2, <3>1, <3>2
      <4>2. BufferOf(socket', buffer', c) = <<>>
        BY <4>1, BufferNone
      <4> QED
        BY <1>2, <2>2, <3>2, <4>2
    <3>3. CASE c # sock
      BY <1>1, <1>2, <3>1, <3>3, NotSock
    <3> QED
      BY <3>2, <3>3
  <2> QED
    BY <1>1, <2>1, <2>2
<1> QED
  BY <1>1, <1>3, <1>4, MatchKept

\* An answer ends with its last chunk.
LEMMA AnswersAppend ==
    ASSUME NEW s \in Seq(Part), NEW part \in Part
    PROVE  Cardinality({n \in DOMAIN Append(s, part) : Append(s, part)[n] = "last"})
               = Cardinality({n \in DOMAIN s : s[n] = "last"}) + (IF part = "last" THEN 1 ELSE 0)
<1> DEFINE t == Append(s, part)
           A == {n \in DOMAIN s : s[n] = "last"}
           B == {n \in DOMAIN t : t[n] = "last"}
<1>1. /\ t \in Seq(Part) /\ Len(t) = Len(s) + 1 /\ Len(s) \in Nat
      /\ \A n \in 1..Len(s) : t[n] = s[n]
      /\ t[Len(s) + 1] = part
      /\ DOMAIN s = 1..Len(s) /\ DOMAIN t = 1..Len(t)
  BY AppendProperties, LenProperties
<1>2. IsFiniteSet(A)
  <2>1. IsFiniteSet(1..Len(s))
    BY <1>1, FS_Interval
  <2>2. A \in SUBSET (1..Len(s))
    BY <1>1
  <2> QED
    BY <2>1, <2>2, FS_Subset
<1>3. Len(s) + 1 \notin A
  BY <1>1
<1> HIDE DEF t
<1>4. CASE part = "last"
  <2>1. B = A \cup {Len(s) + 1}
    BY <1>1, <1>4
  <2>2. Cardinality(A \cup {Len(s) + 1}) = Cardinality(A) + 1
    BY <1>2, <1>3, FS_AddElement
  <2> QED
    BY <1>4, <2>1, <2>2 DEF t
<1>5. CASE part # "last"
  <2>1. B = A
    BY <1>1, <1>5
  <2>2. Cardinality(A) \in Nat
    BY <1>2, FS_CardinalityType
  <2> HIDE DEF A, B
  <2>3. Cardinality(B) = Cardinality(A) + 0
    BY <2>1, <2>2
  <2> QED
    BY <1>5, <2>3 DEF t, A, B
<1> QED
  BY <1>4, <1>5

\* A part is sent to the connection that the server works on.
LEMMA AnswersSend ==
    ASSUME Types, NEW part \in Part, send(part), sock \in Clients, NEW c \in Clients
    PROVE  /\ Answers(c)' = Answers(c) + (IF c = sock /\ part = "last" THEN 1 ELSE 0)
           /\ peer'[c] = "stays" => peer[c] = "stays"
<1>1. /\ sent[c] \in Seq(Part)
      /\ sent'[sock] = Append(sent[sock], part)
      /\ c # sock => sent'[c] = sent[c]
  BY DEF send, Types, TypeOK, Part
<1>2. Answers(c) \in Nat
  <2>1. DOMAIN sent[c] = 1..Len(sent[c]) /\ Len(sent[c]) \in Nat
    BY <1>1, LenProperties
  <2>2. IsFiniteSet(1..Len(sent[c]))
    BY <2>1, FS_Interval
  <2>3. {n \in DOMAIN sent[c] : sent[c][n] = "last"} \in SUBSET (1..Len(sent[c]))
    BY <2>1
  <2>4. IsFiniteSet({n \in DOMAIN sent[c] : sent[c][n] = "last"})
    BY <2>2, <2>3, FS_Subset
  <2> QED
    BY <2>4, FS_CardinalityType DEF Answers
<1>3. Answers(c)' = Answers(c) + (IF c = sock /\ part = "last" THEN 1 ELSE 0)
  <2>1. CASE c = sock
    <3>1. sent'[c] = Append(sent[c], part)
      BY <1>1, <2>1
    <3> QED
      BY <1>1, <2>1, <3>1, AnswersAppend DEF Answers
  <2>2. CASE c # sock
    <3>1. Answers(c)' = Answers(c)
      BY <1>1, <2>2 DEF Answers
    <3> QED
      BY <1>2, <2>2, <3>1
  <2> QED
    BY <2>1, <2>2
<1>4. peer'[c] = "stays" => peer[c] = "stays"
  BY DEF send, Types, TypeOK
<1> QED
  BY <1>3, <1>4

LEMMA SendMatches ==
    ASSUME Types, OpenHasOneSlot, NEW c \in Clients, Match(c), SendHead \/ SendPage
    PROVE  Match(c)'
<1>1. pc \in {"head", "page"} /\ sock \in Clients
      /\ UNCHANGED <<socket, buffer, conn, asked, inside, hurried, wire, served, clobbered>>
  BY SockSlot DEF SendHead, SendPage
<1>2. Answers(c)' = Answers(c) /\ (peer'[c] = "stays" => peer[c] = "stays")
  <2>1. CASE UNCHANGED <<sent, peer>>
    BY <2>1 DEF Answers
  <2>2. ASSUME NEW part \in {"head", "data"}, send(part)
        PROVE  Answers(c)' = Answers(c) /\ (peer'[c] = "stays" => peer[c] = "stays")
    <3>1. Answers(c)' = Answers(c) + 0 /\ (peer'[c] = "stays" => peer[c] = "stays")
      BY <1>1, <2>2, AnswersSend DEF Part
    <3>2. Answers(c) \in Int
      <4>1. served[c] \in Seq(Line)
        BY DEF Types, TypeOK
      <4> QED
        BY <4>1, LenProperties DEF Match
    <3> QED
      BY <3>1, <3>2
  <2> QED
    BY <2>1, <2>2 DEF SendHead, SendPage, httpSend
<1> QED
  BY <1>1, <1>2, MatchKept

LEMMA SendLastMatches ==
    ASSUME Types, OpenHasOneSlot, Handled, NEW c \in Clients, Match(c), SendLast
    PROVE  Match(c)'
<1>1. /\ pc = "foot" /\ send("last")
      /\ served' = [served EXCEPT ![sock] = Append(@, buffer[cur][1])]
      /\ buffer' = [buffer EXCEPT ![cur] = <<>>]
      /\ UNCHANGED <<socket, conn, asked, inside, hurried, wire, clobbered>>
  BY DEF SendLast
<1>2. /\ cur \in Slots /\ sock \in Clients
      /\ BufferOf(socket, buffer, sock) = buffer[cur]
      /\ BufferOf(socket', buffer', sock) = buffer'[cur]
      /\ buffer[cur] \in Seq(Line)
  BY <1>1, SockSlot, StillSock DEF Types, TypeOK
<1>3. /\ buffer'[cur] = <<>> /\ \A j \in Slots \ {cur} : buffer'[j] = buffer[j]
      /\ served'[sock] = Append(served[sock], buffer[cur][1])
      /\ c # sock => served'[c] = served[c]
  BY <1>1, <1>2 DEF Types, TypeOK
<1>4. /\ Answers(c)' = Answers(c) + (IF c = sock THEN 1 ELSE 0)
      /\ peer'[c] = "stays" => peer[c] = "stays"
  BY <1>1, <1>2, AnswersSend DEF Part
<1>5. served[c] \in Seq(Line) /\ Len(served[c]) \in Nat /\ Answers(c) = Len(served[c])
  BY LenProperties DEF Types, TypeOK, Match
<1>6. CASE c # sock
  <2>1. socket'[cur] # c
    BY <1>1, <1>6 DEF sock
  <2>2. BufferOf(socket', buffer', c) = BufferOf(socket, buffer, c)
    BY <1>1, <1>3, <1>6, <2>1, NotSock
  <2>3. Answers(c)' = Answers(c)
    BY <1>4, <1>5, <1>6
  <2> QED
    BY <1>1, <1>3, <1>4, <1>6, <2>2, <2>3, MatchKept
<1>7. CASE c = sock
  <2> DEFINE b == buffer[cur]
             w == wire[c]
             v == served[c]
             a == asked[c]
             d == Finished(c)
  <2>1. b \in Seq(Line) /\ w \in Seq(Line) /\ v \in Seq(Line) /\ a \in Nat /\ d \in {a - 1, a}
        /\ d \in Int
    BY <1>2, <1>5 DEF Types, TypeOK, Finished
  <2>2. IsRequest(b[1]) /\ \E n \in 2..Len(b) : b[n][1] = "end"
    BY <1>1 DEF Handled, Complete
  <2>3. PICK e \in 2..Len(b) : b[e][1] = "end"
    BY <2>2
  <2>4. Ordered(b \o w, a, d, v) /\ (c \notin hurried => Polite(b \o w, a, d, v))
    BY <1>2, <1>7 DEF Match, Stream
  <2>5. Stream(c)' = w /\ Finished(c)' = d /\ served'[c] = Append(v, b[1])
    <3>1. Stream(c)' = <<>> \o w
      BY <1>1, <1>2, <1>3, <1>7 DEF Stream
    <3>2. <<>> \o w = w
      BY <2>1
    <3> QED
      BY <1>1, <1>3, <1>7, <3>1, <3>2 DEF Finished
  <2>6. c \notin inside <=> d = a
    BY <2>1 DEF Finished
  <2> HIDE DEF b, w, v, a, d
  <2>7. Ordered(w, a, d, Append(v, b[1]))
    BY <2>1, <2>3, <2>4, OrderedServe
  <2>8. ASSUME c \notin hurried
        PROVE  Polite(w, a, d, Append(v, b[1])) /\ d = a
    <3>1. Ordered(b \o w, a, d, v) /\ Polite(b \o w, a, d, v)
      BY <2>4, <2>8
    <3>2. d \in {a - 1, a}
      BY <2>1
    <3>3. IsRequest(b[1]) /\ b[e][1] = "end" /\ e \in 2..Len(b)
      BY <2>2, <2>3
    <3>4. b \in Seq(Line) /\ w \in Seq(Line) /\ v \in Seq(Line) /\ a \in Nat
      BY <2>1
    <3> QED
      BY <3>1, <3>2, <3>3, <3>4, PoliteServe
  <2>9. Answers(c)' = Len(Append(v, b[1]))
    <3>1. 1 \in 1..Len(b)
      BY <2>1, <2>3, LenProperties
    <3>2. b[1] \in Line
      BY <2>1, <3>1, LineParts
    <3>3. Len(Append(v, b[1])) = Len(v) + 1
      BY <2>1, <3>2, AppendProperties
    <3> QED
      BY <1>4, <1>5, <1>7, <3>3 DEF v
  <2>10. a = asked'[c]
    BY <1>1 DEF a
  <2>11. c \notin hurried' => /\ Polite(Stream(c)', asked'[c], Finished(c)', served'[c])
                              /\ ~(c \in inside')
    BY <1>1, <2>5, <2>6, <2>8, <2>10
  <2>12. Ordered(Stream(c)', asked'[c], Finished(c)', served'[c])
         /\ Answers(c)' = Len(served'[c])
    BY <2>5, <2>7, <2>9, <2>10
  <2>13. (c \in clobbered' => peer'[c] # "stays") /\ (conn'[c] = "none" => c \notin inside')
    BY <1>1, <1>4 DEF Match
  <2> QED
    BY <2>11, <2>12, <2>13 DEF Match
<1> QED
  BY <1>6, <1>7

LEMMA MatchingStep ==
    ASSUME Types, OpenHasOneSlot, Matching, Handled, [Next]_vars
    PROVE  Matching'
<1> SUFFICES ASSUME NEW c \in Clients PROVE Match(c)'
  BY DEF Matching
<1>1. Match(c)
  BY DEF Matching
<1>2. ASSUME NEW d \in Clients, Connect(d) \/ Ask(d) \/ SendMore(d) \/ Leave(d)
      PROVE  Match(c)'
  BY <1>2, ClientsMatch DEF Matching
<1>3. CASE Timeout \/ SelectFails
  BY <1>1, <1>3, TimeoutMatches
<1>4. CASE Accept
  BY <1>1, <1>4, AcceptMatches
<1>5. CASE Receive
  BY <1>1, <1>5, ReceiveMatches
<1>6. CASE Hangup
  BY <1>1, <1>6, HangupMatches
<1>7. CASE RecvError
  BY <1>1, <1>7, RecvErrorMatches
<1>8. CASE SendHead \/ SendPage
  BY <1>1, <1>8, SendMatches
<1>9. CASE SendLast
  BY <1>1, <1>9, SendLastMatches
<1>10. CASE Select \/ BrokenPipe \/ UNCHANGED vars
  <2>1. UNCHANGED <<socket, buffer, conn, client, wire, sent, served, clobbered>>
    BY <1>10 DEF Select, BrokenPipe, vars, server
  <2>2. Answers(c)' = Answers(c)
    BY <2>1 DEF Answers
  <2>3. BufferOf(socket', buffer', c) = BufferOf(socket, buffer, c)
    BY <2>1
  <2> QED
    BY <1>1, <2>1, <2>2, <2>3, MatchKept DEF client
<1> QED
  BY <1>2, <1>3, <1>4, <1>5, <1>6, <1>7, <1>8, <1>9, <1>10 DEF Next, Server, Answer

LEMMA HandledStep ==
    ASSUME Types, Handled, [Next]_vars
    PROVE  Handled'
<1>1. cur \in Int /\ 0 \in Int /\ cur \in Slots
  BY SizeAssumption DEF Types, TypeOK, Slots
<1>2. ASSUME UNCHANGED <<pc, buffer, cur>> \/ pc' \notin {"head", "page", "foot"}
      PROVE  Handled'
  BY <1>2 DEF Handled
<1>3. ASSUME NEW i \in Int, NEW S, After(i, S) PROVE pc' \in {"select", "recv"}
  BY <1>3, AfterGoesOn
<1>4. ASSUME NEW c \in Clients, Connect(c) \/ Ask(c) \/ SendMore(c) \/ Leave(c)
      PROVE  Handled'
  BY <1>2, <1>4 DEF Connect, Ask, SendMore, Leave, server
<1>5. CASE Select
  BY <1>1, <1>2, <1>3, <1>5 DEF Select
<1>6. CASE Timeout \/ SelectFails
  BY <1>2, <1>6 DEF Timeout, SelectFails, CloseAll
<1>7. CASE Accept \/ Hangup \/ RecvError \/ SendLast
  BY <1>1, <1>2, <1>3, <1>7 DEF Accept, Hangup, RecvError, SendLast, Onward
<1>8. CASE Receive
  <2> DEFINE count == IF Len(wire[sock]) < Room THEN Len(wire[sock]) ELSE Room
             lines == buffer[cur] \o SubSeq(wire[sock], 1, count)
             handled == cur \notin cut /\ Complete(lines)
  <2>1. /\ buffer' = [buffer EXCEPT ![cur] = lines]
        /\ \/ handled /\ IsRequest(lines[1]) /\ cur' = cur
           \/ After(cur, ready)
    BY <1>8 DEF Receive, Onward
  <2>2. CASE handled /\ IsRequest(lines[1]) /\ cur' = cur
    <3>1. buffer'[cur'] = lines
      BY <1>1, <2>1, <2>2 DEF Types, TypeOK
    <3>2. Complete(lines)
      BY <2>2
    <3> HIDE DEF lines
    <3> QED
      BY <2>2, <3>1, <3>2 DEF Handled, Complete, IsRequest
  <2>3. CASE After(cur, ready)
    BY <1>1, <1>2, <1>3, <2>3
  <2> QED
    BY <2>1, <2>2, <2>3
<1>9. CASE SendHead \/ SendPage \/ BrokenPipe
  BY <1>9 DEF SendHead, SendPage, BrokenPipe, Handled, Complete
<1>10. CASE UNCHANGED vars
  BY <1>2, <1>10 DEF vars, server
<1> QED
  BY <1>4, <1>5, <1>6, <1>7, <1>8, <1>9, <1>10 DEF Next, Server, Answer

LEMMA MatchingInit == Init => Matching /\ Handled
<1> SUFFICES ASSUME Init PROVE Matching /\ Handled
  OBVIOUS
<1>1. Handled
  BY DEF Init, Handled
<1>2. ASSUME NEW c \in Clients PROVE Match(c)
  <2>1. BufferOf(socket, buffer, c) = <<>>
    <3>1. \A i \in Slots : socket[i] # c
      BY ClientAssumption DEF Init
    <3> QED
      BY <3>1, BufferNone
  <2>2. Stream(c) = <<>>
    BY <2>1 DEF Init, Stream
  <2>3. asked[c] = 0 /\ Finished(c) = 0 /\ served[c] = <<>> /\ c \notin inside
        /\ c \notin clobbered /\ sent[c] = <<>>
    BY DEF Init, Finished
  <2>4. Answers(c) = 0
    <3>1. {n \in DOMAIN sent[c] : sent[c][n] = "last"} = {}
      BY <2>3
    <3> QED
      BY <3>1, FS_EmptySet DEF Answers
  <2>5. Len(<<>>) = 0 /\ 1..0 = {}
    OBVIOUS
  <2>6. Ordered(<<>>, 0, 0, <<>>) /\ Polite(<<>>, 0, 0, <<>>)
    BY <2>5 DEF Ordered, Polite
  <2> QED
    BY <2>2, <2>3, <2>4, <2>5, <2>6 DEF Match
<1> QED
  BY <1>1, <1>2 DEF Matching

(***************************************************************************)
(* Each client gets one answer to each of its requests, in their order, if *)
(* it waits for each answer; and no request is answered twice to a client  *)
(* that does not: however the lines arrive in pieces, fill the buffer or   *)
(* come behind a request that is thrown away with them.                    *)
(***************************************************************************)
THEOREM EachAnsweredOnce == Spec => []AnswersMatch
<1>1. IInv /\ Matching /\ Handled /\ [Next]_vars => Matching' /\ Handled'
  BY MatchingStep, HandledStep DEF IInv
<1>2. IInv /\ Matching => AnswersMatch
  <2> SUFFICES ASSUME IInv, Matching, NEW c \in Clients
               PROVE  /\ \A m, n \in DOMAIN served[c] :
                             m < n => served[c][m][2] < served[c][n][2]
                      /\ c \notin hurried =>
                             \A n \in DOMAIN served[c] : served[c][n] = <<"get", n>>
    BY DEF AnswersMatch
  <2>1. DOMAIN served[c] = 1..Len(served[c])
    BY LenProperties DEF IInv, Types, TypeOK
  <2>2. Match(c)
    BY DEF Matching
  <2> QED
    BY <2>1, <2>2 DEF Match, Ordered, Polite
<1> QED
  BY <1>1, <1>2, Inductive, MatchingInit, PTL DEF Spec
=============================================================================
