------------------------- MODULE RpcConnection_proofs -------------------------
(***************************************************************************)
(* The handshake gate of a connection follows its stream of frames, and    *)
(* its replies follow its requests, for any number of connections, frames  *)
(* and faults and any capacities.                                          *)
(***************************************************************************)
EXTENDS RpcConnection, FiniteSetTheorems, FunctionTheorems, TLAPS

-----------------------------------------------------------------------------
(* the invariant *)

Clients == {NoClient, "plain", "interactive"}

InFrames ==
  {f \in [kind : {"request", "hello", "garbage"}, id : Nat, wants : BOOLEAN,
          hello : Clients, standing : Clients] : f.kind # "hello" => f.hello = NoClient}

\* What a connection is entitled to behind a frame.
After(f) == IF f.hello # NoClient THEN f.hello ELSE f.standing

StreamTypeOK ==
  /\ inbox \in [Connections -> Seq(InFrames)] /\ arrived \in Nat
  /\ access \in [Connections -> Clients] /\ standing \in [Connections -> Clients]
  /\ disp = [c \in Connections |-> disp[c]]
  /\ main = [c \in Connections |-> main[c]] /\ reader = [c \in Connections |-> reader[c]]

\* The frames that wait continue each other, from the capability the dispatcher
\* has granted to the one the client counts on.
StreamIsLinked(c) ==
  main[c] # "closed" =>
    /\ \A i \in 1 .. Len(inbox[c]) :
         inbox[c][i].standing = IF i = 1 THEN access[c] ELSE After(inbox[c][i - 1])
    /\ standing[c] = IF Len(inbox[c]) = 0 THEN access[c] ELSE After(inbox[c][Len(inbox[c])])

\* A closed connection neither reads nor dispatches.
ClosedIsStill(c) == main[c] = "closed" => reader[c] # "run" /\ disp[c].at = "gone"

Faithful(reply) ==
  reply.due # "none" \/ reply.error \in GateErrors => reply.error = reply.due

HandlerPassedGate(c) ==
  /\ disp[c].at = "send" => Faithful(disp[c].reply)
  /\ Handling(c) => Gate(disp[c].frame.standing, disp[c].frame.method) = "none"

ConnectionInv(c) == StreamIsLinked(c) /\ ClosedIsStill(c) /\ HandlerPassedGate(c)
StreamInv == StreamTypeOK /\ \A c \in Connections : ConnectionInv(c)

-----------------------------------------------------------------------------
LEMMA Queue ==
  ASSUME NEW S, NEW q \in Seq(S), q # <<>>
  PROVE  /\ Head(q) \in S /\ Tail(q) \in Seq(S) /\ Head(q) = q[1]
         /\ Len(q) \in Nat \ {0} /\ Len(Tail(q)) = Len(q) - 1
         /\ \A i \in 1 .. Len(q) - 1 : Tail(q)[i] = q[i + 1]
  OBVIOUS

LEMMA QueueGrows ==
  ASSUME NEW S, NEW q \in Seq(S), NEW x \in S
  PROVE  /\ Append(q, x) \in Seq(S) /\ Len(Append(q, x)) = Len(q) + 1 /\ Len(q) \in Nat
         /\ \A i \in 1 .. Len(q) : Append(q, x)[i] = q[i]
         /\ Append(q, x)[Len(q) + 1] = x /\ Append(q, x) # <<>>
  OBVIOUS

LEMMA InitLinked == Init => StreamInv
<1> SUFFICES ASSUME Init
             PROVE  StreamInv
  OBVIOUS
<1>1. StreamTypeOK
  BY DEF Init, StreamTypeOK, Clients
<1>2. ASSUME NEW c \in Connections
      PROVE  ConnectionInv(c)
  <2>1. /\ Len(inbox[c]) = 0 /\ standing[c] = NoClient /\ access[c] = NoClient
        /\ disp[c].at \in {"recv", "gone"}
        /\ main[c] = "closed" => reader[c] # "run" /\ disp[c].at = "gone"
    BY DEF Init, Idle, Gone
  <2>2. QED
    BY <2>1 DEF ConnectionInv, StreamIsLinked, ClosedIsStill, HandlerPassedGate, Handling
<1>3. QED
  BY <1>1, <1>2 DEF StreamInv

\* A connection that a step does not touch.
LEMMA ConnectionStays ==
  ASSUME NEW c, ConnectionInv(c), inbox'[c] = inbox[c], access'[c] = access[c],
         standing'[c] = standing[c], main'[c] = main[c], reader'[c] = reader[c], disp'[c] = disp[c]
  PROVE  ConnectionInv(c)'
<1>1. StreamIsLinked(c)'
  BY DEF ConnectionInv, StreamIsLinked, After
<1>2. ClosedIsStill(c)' /\ HandlerPassedGate(c)'
  BY DEF ConnectionInv, ClosedIsStill, HandlerPassedGate, Handling, Faithful
<1>3. QED
  BY <1>1, <1>2 DEF ConnectionInv

streamVars == <<inbox, access, standing, main, reader, disp>>

LEMMA NothingTouched ==
  ASSUME StreamInv, UNCHANGED <<streamVars, arrived>>
  PROVE  StreamInv'
<1>1. StreamTypeOK'
  BY DEF StreamInv, StreamTypeOK, streamVars
<1>2. \A c \in Connections : ConnectionInv(c)'
  BY ConnectionStays DEF StreamInv, streamVars
<1>3. QED
  BY <1>1, <1>2 DEF StreamInv

LEMMA OneTouched ==
  ASSUME StreamInv, NEW c \in Connections, StreamTypeOK', ConnectionInv(c)',
         inbox' = [inbox EXCEPT ![c] = inbox'[c]], access' = [access EXCEPT ![c] = access'[c]],
         standing' = [standing EXCEPT ![c] = standing'[c]], main' = [main EXCEPT ![c] = main'[c]],
         reader' = [reader EXCEPT ![c] = reader'[c]], disp' = [disp EXCEPT ![c] = disp'[c]]
  PROVE  StreamInv'
<1>1. ASSUME NEW d \in Connections \ {c}
      PROVE  ConnectionInv(d)'
  <2>1. /\ inbox'[d] = inbox[d] /\ access'[d] = access[d] /\ standing'[d] = standing[d]
        /\ main'[d] = main[d] /\ reader'[d] = reader[d] /\ disp'[d] = disp[d]
    BY DEF StreamInv, StreamTypeOK
  <2>2. QED
    BY <2>1, ConnectionStays DEF StreamInv
<1>2. QED
  BY <1>1 DEF StreamInv

-----------------------------------------------------------------------------
(* the tasks around the dispatcher *)

LEMMA ReceiveLinked ==
  ASSUME StreamInv, NEW c \in Connections, Receive(c)
  PROVE  StreamInv'
<1>1. /\ inbox \in [Connections -> Seq(InFrames)] /\ access \in [Connections -> Clients]
      /\ standing \in [Connections -> Clients] /\ arrived \in Nat /\ ConnectionInv(c)
      /\ StreamTypeOK
  BY DEF StreamInv, StreamTypeOK
<1>2. PICK f \in Frames(arrived + 1, standing[c]) :
        /\ inbox' = [inbox EXCEPT ![c] = Append(@, f)]
        /\ standing' = IF f.hello # NoClient THEN [standing EXCEPT ![c] = f.hello] ELSE standing
  BY DEF Receive
<1>3. /\ reader[c] = "run" /\ arrived' = arrived + 1
      /\ UNCHANGED <<access, main, reader, disp>>
  BY DEF Receive
<1>4. f \in InFrames /\ f.standing = standing[c]
  <2>1. standing[c] \in Clients /\ arrived + 1 \in Nat
    BY <1>1
  <2>2. CASE f \in [kind : {"request"}, id : {arrived + 1}, wants : BOOLEAN, hello : {NoClient},
                    standing : {standing[c]}]
    BY <2>1, <2>2 DEF InFrames, Clients
  <2>3. CASE f \in [kind : {"hello"}, id : {arrived + 1}, wants : BOOLEAN,
                    hello : {NoClient, "plain", "interactive"}, standing : {standing[c]}]
    BY <2>1, <2>3 DEF InFrames, Clients
  <2>4. CASE f \in [kind : {"garbage"}, id : {0}, wants : {TRUE}, hello : {NoClient},
                    standing : {standing[c]}]
    <3>1. /\ f = [kind |-> "garbage", id |-> 0, wants |-> TRUE, hello |-> NoClient,
                  standing |-> standing[c]]
          /\ 0 \in Nat /\ TRUE \in BOOLEAN
      BY <2>4
    <3>2. QED
      BY <2>1, <3>1 DEF InFrames, Clients
  <2>5. QED
    BY <2>2, <2>3, <2>4 DEF Frames
<1>5. f.hello \in Clients
  BY <1>4 DEF InFrames
<1> DEFINE q == inbox[c]
<1>6. q \in Seq(InFrames)
  BY <1>1
<1>7. inbox'[c] = Append(q, f) /\ standing'[c] = After(f)
  BY <1>1, <1>2, <1>4 DEF After
<1>8. StreamTypeOK'
  <2>1. Append(q, f) \in Seq(InFrames)
    BY <1>4, <1>6, QueueGrows
  <2>2. inbox' \in [Connections -> Seq(InFrames)]
    BY <1>1, <1>2, <2>1
  <2>3. standing' \in [Connections -> Clients]
    BY <1>1, <1>2, <1>5
  <2>4. QED
    BY <1>1, <1>3, <2>2, <2>3 DEF StreamTypeOK
<1>9. ConnectionInv(c)'
  <2>1. main[c] # "closed"
    BY <1>1, <1>3 DEF ConnectionInv, ClosedIsStill
  <2>2. /\ \A i \in 1 .. Len(q) : q[i].standing = IF i = 1 THEN access[c] ELSE After(q[i - 1])
        /\ standing[c] = IF Len(q) = 0 THEN access[c] ELSE After(q[Len(q)])
    BY <1>1, <2>1 DEF ConnectionInv, StreamIsLinked
  <2> HIDE DEF q
  <2>3. /\ Len(Append(q, f)) = Len(q) + 1 /\ Len(q) \in Nat
        /\ \A i \in 1 .. Len(q) : Append(q, f)[i] = q[i]
        /\ Append(q, f)[Len(q) + 1] = f
    BY <1>4, <1>6, QueueGrows
  <2>4. StreamIsLinked(c)'
    <3>1. ASSUME NEW i \in 1 .. Len(inbox'[c])
          PROVE  inbox'[c][i].standing = IF i = 1 THEN access[c] ELSE After(inbox'[c][i - 1])
      <4>1. CASE i = Len(q) + 1
        BY <1>4, <1>7, <2>2, <2>3, <4>1
      <4>2. CASE i \in 1 .. Len(q)
        BY <1>7, <2>2, <2>3, <4>2
      <4>3. QED
        BY <1>7, <2>3, <4>1, <4>2
    <3>2. standing'[c] = IF Len(inbox'[c]) = 0 THEN access[c] ELSE After(inbox'[c][Len(inbox'[c])])
      BY <1>7, <2>3
    <3>3. QED
      BY <1>3, <3>1, <3>2 DEF StreamIsLinked, After
  <2>5. ClosedIsStill(c)' /\ HandlerPassedGate(c)'
    BY <1>1, <1>3 DEF ConnectionInv, ClosedIsStill, HandlerPassedGate, Handling, Faithful
  <2>6. QED
    BY <2>4, <2>5 DEF ConnectionInv
<1>10. /\ inbox' = [inbox EXCEPT ![c] = inbox'[c]]
       /\ standing' = [standing EXCEPT ![c] = standing'[c]]
       /\ access' = [access EXCEPT ![c] = access'[c]]
  BY <1>1, <1>2, <1>3
<1>11. /\ main' = [main EXCEPT ![c] = main'[c]] /\ reader' = [reader EXCEPT ![c] = reader'[c]]
       /\ disp' = [disp EXCEPT ![c] = disp'[c]]
  BY <1>1, <1>3 DEF StreamTypeOK
<1>12. QED
  BY <1>8, <1>9, <1>10, <1>11, OneTouched

\* The reader stops, the joining task goes on or closes the connection.
LEMMA TasksLinked ==
  ASSUME StreamInv, NEW c \in Connections, UNCHANGED <<standing, arrived>>,
         main' = [main EXCEPT ![c] = main'[c]], reader' = [reader EXCEPT ![c] = reader'[c]],
         \/ /\ UNCHANGED <<inbox, access, disp>>
            /\ main'[c] # "closed" \/ UNCHANGED main
            /\ main[c] # "closed" \/ UNCHANGED main
            /\ reader'[c] # "run" \/ UNCHANGED reader
         \/ Close(c)
  PROVE  StreamInv'
<1>1. /\ inbox \in [Connections -> Seq(InFrames)] /\ access \in [Connections -> Clients]
      /\ StreamTypeOK /\ ConnectionInv(c)
  BY DEF StreamInv, StreamTypeOK
<1>2. main' = [d \in Connections |-> main'[d]] /\ reader' = [d \in Connections |-> reader'[d]]
  BY <1>1 DEF StreamTypeOK
<1>3. CASE /\ UNCHANGED <<inbox, access, disp>>
           /\ main'[c] # "closed" \/ UNCHANGED main
           /\ main[c] # "closed" \/ UNCHANGED main
           /\ reader'[c] # "run" \/ UNCHANGED reader
  <2>1. StreamTypeOK'
    BY <1>1, <1>2, <1>3 DEF StreamTypeOK
  <2>2. StreamIsLinked(c)'
    BY <1>1, <1>3 DEF ConnectionInv, StreamIsLinked, After
  <2>3. ClosedIsStill(c)' /\ HandlerPassedGate(c)'
    BY <1>1, <1>3 DEF ConnectionInv, ClosedIsStill, HandlerPassedGate, Handling, Faithful
  <2>4. /\ inbox' = [inbox EXCEPT ![c] = inbox'[c]] /\ access' = [access EXCEPT ![c] = access'[c]]
        /\ standing' = [standing EXCEPT ![c] = standing'[c]]
        /\ disp' = [disp EXCEPT ![c] = disp'[c]]
    BY <1>1, <1>3 DEF StreamTypeOK
  <2>5. QED
    BY <2>1, <2>2, <2>3, <2>4, OneTouched DEF ConnectionInv
<1>4. CASE Close(c)
  <2>1. /\ main'[c] = "closed" /\ reader'[c] # "run" /\ disp'[c] = Gone
        /\ disp' = [disp EXCEPT ![c] = Gone] /\ inbox' = [inbox EXCEPT ![c] = <<>>]
        /\ access' = [access EXCEPT ![c] = NoClient]
    BY <1>1, <1>4 DEF Close, Abort, StreamTypeOK
  <2>2. StreamTypeOK'
    <3>1. inbox' \in [Connections -> Seq(InFrames)] /\ access' \in [Connections -> Clients]
      BY <1>1, <2>1 DEF Clients
    <3>2. disp' = [d \in Connections |-> disp'[d]]
      BY <1>1, <2>1 DEF StreamTypeOK
    <3>3. QED
      BY <1>1, <1>2, <3>1, <3>2 DEF StreamTypeOK
  <2>3. ConnectionInv(c)'
    BY <2>1 DEF ConnectionInv, StreamIsLinked, ClosedIsStill, HandlerPassedGate, Handling, Gone
  <2>4. /\ inbox' = [inbox EXCEPT ![c] = inbox'[c]] /\ access' = [access EXCEPT ![c] = access'[c]]
        /\ standing' = [standing EXCEPT ![c] = standing'[c]]
        /\ disp' = [disp EXCEPT ![c] = disp'[c]]
    BY <1>1, <2>1 DEF StreamTypeOK
  <2>5. QED
    BY <2>2, <2>3, <2>4, OneTouched
<1>5. QED
  BY <1>3, <1>4

-----------------------------------------------------------------------------
(* the dispatcher *)

\* Errors of the handlers behind the gate.
Inner == {"none", "session_not_found", "store_unavailable", "runtime_unavailable",
          "session_busy", "no_active_turn"}

LEMMA InnerFaithful ==
  ASSUME NEW f, Gate(f.standing, f.method) = "none", NEW error \in Inner
  PROVE  Faithful(Reply(f, error)) /\ Faithful([Reply(f, error) EXCEPT !.accepted = TRUE])
  BY DEF Faithful, Reply, Inner, GateErrors

LEMMA Refused ==
  ASSUME NEW f, Refusal(f.standing, f) # "none"
  PROVE  Faithful(Reply(f, Refusal(f.standing, f)))
<1>1. Gate(f.standing, f.method) \in GateErrors \union {"none"}
  BY DEF Gate, GateErrors
<1>2. CASE f.fault \in {"garbage", "version"}
  <2>1. Refusal(f.standing, f) \notin GateErrors
    BY <1>2 DEF Refusal, GateErrors
  <2>2. QED
    BY <1>2, <2>1 DEF Faithful, Reply
<1>3. CASE f.fault \notin {"garbage", "version"} /\ Gate(f.standing, f.method) # "none"
  <2>1. Refusal(f.standing, f) = Gate(f.standing, f.method)
    BY <1>3 DEF Refusal
  <2>2. QED
    BY <1>3, <2>1 DEF Faithful, Reply
<1>4. CASE f.fault \notin {"garbage", "version"} /\ Gate(f.standing, f.method) = "none"
  <2>1. Refusal(f.standing, f) \notin GateErrors
    BY <1>4 DEF Refusal, GateErrors
  <2>2. QED
    BY <1>4, <2>1 DEF Faithful, Reply
<1>5. QED
  BY <1>2, <1>3, <1>4

\* The frame that is taken carries what the dispatcher has granted.
LEMMA Taken ==
  ASSUME StreamInv, NEW c \in Connections, NEW f \in Heads(c), disp[c].at = "recv"
  PROVE  /\ inbox[c] # <<>> /\ main[c] # "closed" /\ inbox[c] \in Seq(InFrames)
         /\ f.standing = access[c] /\ Head(inbox[c]).standing = access[c]
         /\ f.hello = Head(inbox[c]).hello /\ f.hello \in Clients
         /\ f.method # "client.hello" \/ f.fault # "none" => f.hello = NoClient
         /\ f.method = "client.hello" /\ f.fault = "none" => f.hello # NoClient
         /\ f.method = "client.hello" => f.fault \in {"none", "version", "params", "protocol"}
<1> DEFINE h == Head(inbox[c])
<1>1. inbox[c] # <<>> /\ f \in Requests(h)
  BY DEF Heads
<1>2. inbox[c] \in Seq(InFrames) /\ main[c] # "closed"
  BY DEF StreamInv, StreamTypeOK, ConnectionInv, ClosedIsStill
<1>3. h \in InFrames /\ h = inbox[c][1] /\ Len(inbox[c]) \in Nat \ {0}
  BY <1>1, <1>2, Queue
<1>4. h.standing = access[c]
  BY <1>2, <1>3 DEF StreamInv, ConnectionInv, StreamIsLinked
<1> HIDE DEF h
<1>5. /\ f.standing = h.standing /\ f.hello = h.hello /\ h.hello \in Clients
      /\ f.method # "client.hello" \/ f.fault # "none" => f.hello = NoClient
      /\ f.method = "client.hello" /\ f.fault = "none" => f.hello # NoClient
      /\ f.method = "client.hello" => f.fault \in {"none", "version", "params", "protocol"}
  <2>1. h.kind \in {"request", "hello", "garbage"} /\ h.hello \in Clients
        /\ (h.kind # "hello" => h.hello = NoClient)
    BY <1>3 DEF InFrames
  <2>2. CASE h.kind = "request"
    <3>1. f \in Parsed(h, Used, {"none", "version", "params"}) /\ "client.hello" \notin Used
      BY <1>1, <2>2, RpcAssumption DEF Requests
    <3>2. QED
      BY <2>1, <2>2, <3>1 DEF Parsed
  <2>3. CASE h.kind = "hello"
    <3>1. f \in Parsed(h, {"client.hello"},
                       IF h.hello = NoClient THEN {"version", "params", "protocol"} ELSE {"none"})
      BY <1>1, <2>3 DEF Requests
    <3>2. QED
      BY <2>1, <2>3, <3>1 DEF Parsed
  <2>4. CASE h.kind = "garbage"
    <3>1. f \in Parsed(h, {"none"}, {"garbage"})
      BY <1>1, <2>4 DEF Requests
    <3>2. QED
      BY <2>1, <2>4, <3>1 DEF Parsed
  <2>5. QED
    BY <2>1, <2>2, <2>3, <2>4
<1>6. QED
  BY <1>1, <1>2, <1>4, <1>5 DEF h

\* The dispatcher goes on without a new frame, or takes one and grants what it asks for.
LEMMA DispatcherLinked ==
  ASSUME StreamInv, NEW c \in Connections, NEW new, disp' = [disp EXCEPT ![c] = new],
         UNCHANGED <<standing, main, reader, arrived>>, main[c] # "closed",
         HandlerPassedGate(c)',
         \/ UNCHANGED <<inbox, access>>
         \/ /\ inbox[c] # <<>> /\ inbox' = [inbox EXCEPT ![c] = Tail(@)]
            /\ access' = [access EXCEPT ![c] = After(Head(inbox[c]))]
  PROVE  StreamInv'
<1> DEFINE q == inbox[c]
<1>1. /\ inbox \in [Connections -> Seq(InFrames)] /\ access \in [Connections -> Clients]
      /\ StreamTypeOK /\ ConnectionInv(c) /\ q \in Seq(InFrames)
  BY DEF StreamInv, StreamTypeOK
<1>2. /\ standing' = [standing EXCEPT ![c] = standing'[c]] /\ main' = [main EXCEPT ![c] = main'[c]]
      /\ reader' = [reader EXCEPT ![c] = reader'[c]] /\ disp' = [disp EXCEPT ![c] = disp'[c]]
      /\ disp' = [d \in Connections |-> disp'[d]]
  BY <1>1 DEF StreamTypeOK
<1>3. ClosedIsStill(c)'
  BY DEF ClosedIsStill
<1>4. CASE UNCHANGED <<inbox, access>>
  <2>1. StreamTypeOK'
    BY <1>1, <1>2, <1>4 DEF StreamTypeOK
  <2>2. StreamIsLinked(c)'
    BY <1>1, <1>4 DEF ConnectionInv, StreamIsLinked, After
  <2>3. /\ inbox' = [inbox EXCEPT ![c] = inbox'[c]] /\ access' = [access EXCEPT ![c] = access'[c]]
    BY <1>1, <1>4
  <2>4. QED
    BY <1>2, <1>3, <2>1, <2>2, <2>3, OneTouched DEF ConnectionInv
<1>5. CASE /\ inbox[c] # <<>> /\ inbox' = [inbox EXCEPT ![c] = Tail(@)]
           /\ access' = [access EXCEPT ![c] = After(Head(inbox[c]))]
  <2>1. inbox'[c] = Tail(q) /\ access'[c] = After(Head(q))
    BY <1>1, <1>5
  <2>2. /\ \A i \in 1 .. Len(q) : q[i].standing = IF i = 1 THEN access[c] ELSE After(q[i - 1])
        /\ standing[c] = IF Len(q) = 0 THEN access[c] ELSE After(q[Len(q)])
    BY <1>1 DEF ConnectionInv, StreamIsLinked
  <2>3. inbox' = [inbox EXCEPT ![c] = Tail(q)] /\ access' = [access EXCEPT ![c] = After(Head(q))]
        /\ q # <<>>
    BY <1>5
  <2> HIDE DEF q
  <2>4. /\ Head(q) \in InFrames /\ Tail(q) \in Seq(InFrames) /\ Head(q) = q[1]
        /\ Len(q) \in Nat \ {0} /\ Len(Tail(q)) = Len(q) - 1
        /\ \A i \in 1 .. Len(q) - 1 : Tail(q)[i] = q[i + 1]
    BY <1>1, <2>3, Queue
  <2>5. StreamTypeOK'
    <3>1. After(Head(q)) \in Clients
      BY <2>4 DEF After, InFrames
    <3>2. inbox' \in [Connections -> Seq(InFrames)] /\ access' \in [Connections -> Clients]
      BY <1>1, <2>3, <2>4, <3>1
    <3>3. QED
      BY <1>1, <1>2, <3>2 DEF StreamTypeOK
  <2>6. StreamIsLinked(c)'
    <3>1. ASSUME NEW i \in 1 .. Len(inbox'[c])
          PROVE  inbox'[c][i].standing = IF i = 1 THEN access'[c] ELSE After(inbox'[c][i - 1])
      <4>1. i \in 1 .. Len(q) - 1 /\ inbox'[c][i] = q[i + 1]
        BY <2>1, <2>4
      <4>2. q[i + 1].standing = After(q[i])
        BY <2>2, <2>4, <4>1
      <4>3. i # 1 => inbox'[c][i - 1] = q[i]
        BY <2>1, <2>4, <4>1
      <4>4. QED
        BY <2>1, <2>4, <4>1, <4>2, <4>3
    <3>2. standing'[c] = IF Len(inbox'[c]) = 0 THEN access'[c] ELSE After(inbox'[c][Len(inbox'[c])])
      BY <2>1, <2>2, <2>4
    <3>3. QED
      BY <3>1, <3>2 DEF StreamIsLinked, After
  <2>7. /\ inbox' = [inbox EXCEPT ![c] = inbox'[c]] /\ access' = [access EXCEPT ![c] = access'[c]]
    BY <1>1, <2>3
  <2>8. QED
    BY <1>2, <1>3, <2>5, <2>6, <2>7, OneTouched DEF ConnectionInv
<1>6. QED
  BY <1>4, <1>5

\* What a handler leaves: a faithful reply, or a request that passed the gate.
Settled(new) ==
  /\ new.at = "send" => Faithful(new.reply)
  /\ new.at \in {"latest", "resume", "submit", "control"} =>
       Gate(new.frame.standing, new.frame.method) = "none"

LEMMA DispatcherSettled ==
  ASSUME StreamInv, NEW c \in Connections, NEW new, disp' = [disp EXCEPT ![c] = new], Settled(new),
         UNCHANGED <<standing, main, reader, arrived>>, main[c] # "closed",
         \/ UNCHANGED <<inbox, access>>
         \/ /\ inbox[c] # <<>> /\ inbox' = [inbox EXCEPT ![c] = Tail(@)]
            /\ access' = [access EXCEPT ![c] = After(Head(inbox[c]))]
  PROVE  StreamInv'
<1>1. disp'[c] = new
  BY DEF StreamInv, StreamTypeOK
<1>2. HandlerPassedGate(c)'
  BY <1>1 DEF HandlerPassedGate, Handling, Settled, Faithful
<1>3. QED
  BY <1>2, DispatcherLinked

LEMMA FinishSettles ==
  ASSUME NEW c, NEW f, NEW reply, Faithful(reply), Finish(c, f, reply)
  PROVE  \E new : Settled(new) /\ disp' = [disp EXCEPT ![c] = new]
<1> DEFINE new == IF f.wants THEN [at |-> "send", reply |-> reply] ELSE Idle
<1>1. Settled(new)
  BY DEF Settled, Idle
<1>2. disp' = [disp EXCEPT ![c] = new]
  BY DEF Finish
<1>3. QED
  BY <1>1, <1>2

LEMMA GateIsOpen ==
  ASSUME NEW client, NEW f, Refusal(client, f) = "none"
  PROVE  Gate(client, f.method) = "none" \/ f.fault \in {"garbage", "version"}
  BY DEF Refusal

\* A request that passed: what its first step must leave.
LEMMA PassedLinked ==
  ASSUME StreamInv, NEW c \in Connections, NEW f \in Heads(c), NEW methods, Passes(c, f, methods),
         "client.hello" \notin methods, UNCHANGED <<dispOthers, access>>,
         \/ \E error \in Inner : Finish(c, f, Reply(f, error))
         \/ \E at \in {"latest", "resume", "control"} :
              disp' = [disp EXCEPT ![c] = [at |-> at, frame |-> f, reply |-> <<>>]]
  PROVE  StreamInv'
<1>1. /\ disp[c].at = "recv" /\ inbox' = [inbox EXCEPT ![c] = Tail(@)]
      /\ f.method \in methods /\ Refusal(access[c], f) = "none"
  BY DEF Passes, Take
<1>2. /\ inbox[c] # <<>> /\ main[c] # "closed"
      /\ f.standing = access[c] /\ Head(inbox[c]).standing = access[c]
      /\ f.hello = NoClient /\ Head(inbox[c]).hello = NoClient
  BY <1>1, Taken
<1>3. access' = [access EXCEPT ![c] = After(Head(inbox[c]))]
  BY <1>2 DEF After, StreamInv, StreamTypeOK
<1>4. Gate(f.standing, f.method) = "none"
  <2>1. f.fault \notin {"garbage", "version"}
    BY <1>1 DEF Refusal
  <2>2. QED
    BY <1>1, <1>2, <2>1, GateIsOpen
<1>5. UNCHANGED <<standing, main, reader, arrived>>
  BY DEF dispOthers, clientVars
<1>6. PICK new : Settled(new) /\ disp' = [disp EXCEPT ![c] = new]
  <2>1. CASE \E error \in Inner : Finish(c, f, Reply(f, error))
    BY <1>4, <2>1, InnerFaithful, FinishSettles
  <2>2. ASSUME NEW at \in {"latest", "resume", "control"},
               disp' = [disp EXCEPT ![c] = [at |-> at, frame |-> f, reply |-> <<>>]]
        PROVE  \E new : Settled(new) /\ disp' = [disp EXCEPT ![c] = new]
    <3>1. Settled([at |-> at, frame |-> f, reply |-> <<>>])
      BY <1>4 DEF Settled
    <3>2. QED
      BY <2>2, <3>1
  <2>3. QED
    BY <2>1, <2>2
<1>7. QED
  BY <1>1, <1>2, <1>3, <1>5, <1>6, DispatcherSettled

\* A request that passed earlier and goes on.
LEMMA HandlerLinked ==
  ASSUME StreamInv, NEW c \in Connections, Handling(c), UNCHANGED <<inbox, dispOthers, access>>,
         \/ \E error \in Inner : Finish(c, disp[c].frame, Reply(disp[c].frame, error))
         \/ Finish(c, disp[c].frame, [Reply(disp[c].frame, "none") EXCEPT !.accepted = TRUE])
         \/ disp' = [disp EXCEPT ![c] = [at |-> "submit", frame |-> disp[c].frame, reply |-> <<>>]]
  PROVE  StreamInv'
<1> DEFINE f == disp[c].frame
<1>1. Gate(f.standing, f.method) = "none" /\ main[c] # "closed"
  BY DEF StreamInv, ConnectionInv, HandlerPassedGate, ClosedIsStill, Handling
<1>2. UNCHANGED <<inbox, access, standing, main, reader, arrived>>
  BY DEF dispOthers, clientVars
<1>3. PICK new : Settled(new) /\ disp' = [disp EXCEPT ![c] = new]
  <2> HIDE DEF f
  <2>1. CASE \E error \in Inner : Finish(c, f, Reply(f, error))
    BY <1>1, <2>1, InnerFaithful, FinishSettles
  <2>2. CASE Finish(c, f, [Reply(f, "none") EXCEPT !.accepted = TRUE])
    <3>1. "none" \in Inner
      BY DEF Inner
    <3>2. QED
      BY <1>1, <2>2, <3>1, InnerFaithful, FinishSettles
  <2>3. CASE disp' = [disp EXCEPT ![c] = [at |-> "submit", frame |-> f, reply |-> <<>>]]
    <3>1. Settled([at |-> "submit", frame |-> f, reply |-> <<>>])
      BY <1>1 DEF Settled
    <3>2. QED
      BY <2>3, <3>1
  <2>4. QED
    BY <2>1, <2>2, <2>3 DEF f
<1>4. QED
  BY <1>1, <1>2, <1>3, DispatcherSettled

LEMMA RefuseLinked ==
  ASSUME StreamInv, NEW c \in Connections, NEW f \in Heads(c), Refuse(c, f)
  PROVE  StreamInv'
<1> DEFINE error == Refusal(access[c], f)
<1>1. /\ disp[c].at = "recv" /\ inbox' = [inbox EXCEPT ![c] = Tail(@)]
      /\ error # "none" /\ Finish(c, f, Reply(f, error)) /\ UNCHANGED <<dispOthers, access>>
  BY DEF Refuse, Take
<1>2. /\ inbox[c] # <<>> /\ main[c] # "closed"
      /\ f.standing = access[c] /\ Head(inbox[c]).standing = access[c]
      /\ f.hello = Head(inbox[c]).hello
      /\ f.method # "client.hello" \/ f.fault # "none" => f.hello = NoClient
  BY <1>1, Taken
<1>3. f.hello = NoClient
  <2>1. CASE f.method = "client.hello" /\ f.fault = "none"
    BY <1>1, <2>1 DEF Refusal, Gate, Interactive, Answering
  <2>2. QED
    BY <1>2, <2>1
<1>4. access' = [access EXCEPT ![c] = After(Head(inbox[c]))]
  BY <1>1, <1>2, <1>3 DEF After, StreamInv, StreamTypeOK
<1>5. Faithful(Reply(f, error))
  BY <1>1, <1>2, Refused
<1>6. PICK new : Settled(new) /\ disp' = [disp EXCEPT ![c] = new]
  BY <1>1, <1>5, FinishSettles
<1>7. UNCHANGED <<standing, main, reader, arrived>>
  BY <1>1 DEF dispOthers, clientVars
<1>8. QED
  BY <1>1, <1>2, <1>4, <1>6, <1>7, DispatcherSettled

LEMMA HelloLinked ==
  ASSUME StreamInv, NEW c \in Connections, NEW f \in Heads(c), Hello(c, f)
  PROVE  StreamInv'
<1>1. /\ disp[c].at = "recv" /\ inbox' = [inbox EXCEPT ![c] = Tail(@)]
      /\ f.method = "client.hello" /\ Refusal(access[c], f) = "none"
      /\ access' = [access EXCEPT ![c] = f.hello] /\ Finish(c, f, Reply(f, "none"))
      /\ UNCHANGED dispOthers
  BY DEF Hello, Passes, Take
<1>2. /\ inbox[c] # <<>> /\ main[c] # "closed" /\ f.hello = Head(inbox[c]).hello
      /\ f.method = "client.hello" /\ f.fault = "none" => f.hello # NoClient
      /\ f.fault \in {"none", "version", "params", "protocol"}
      /\ f.method # "client.hello" \/ f.fault # "none" => f.hello = NoClient
      /\ f.standing = access[c] /\ Head(inbox[c]).standing = access[c]
  BY <1>1, Taken
<1>3. access' = [access EXCEPT ![c] = After(Head(inbox[c]))]
  <2>1. CASE f.hello # NoClient
    BY <1>1, <1>2, <2>1 DEF After
  <2>2. CASE f.hello = NoClient
    <3>1. f.fault \in {"version", "params", "protocol"}
      BY <1>1, <1>2, <2>2
    <3>2. QED
      BY <1>1, <3>1 DEF Refusal, Gate, Interactive, Answering
  <2>3. QED
    BY <2>1, <2>2
<1>4. Gate(f.standing, f.method) = "none" /\ "none" \in Inner
  BY <1>1 DEF Gate, Interactive, Answering, Inner
<1>5. PICK new : Settled(new) /\ disp' = [disp EXCEPT ![c] = new]
  BY <1>1, <1>4, InnerFaithful, FinishSettles
<1>6. UNCHANGED <<standing, main, reader, arrived>>
  BY <1>1 DEF dispOthers, clientVars
<1>7. QED
  BY <1>1, <1>2, <1>3, <1>5, <1>6, DispatcherSettled

LEMMA HandleLinked ==
  ASSUME StreamInv, NEW c \in Connections, Handle(c)
  PROVE  StreamInv'
<1>1. ASSUME NEW f \in Heads(c), Read(c, f)
      PROVE  StreamInv'
  <2>1. \E error \in Inner : Finish(c, f, Reply(f, error))
    BY <1>1 DEF Read, Inner
  <2>2. "client.hello" \notin Reads /\ Passes(c, f, Reads) /\ UNCHANGED <<dispOthers, access>>
    BY <1>1 DEF Read, Reads
  <2>3. QED
    BY <2>1, <2>2, PassedLinked
<1>2. ASSUME NEW f \in Heads(c), StoreFails(c, f)
      PROVE  StreamInv'
  <2> DEFINE methods ==
        REGISTERED_METHODS \ {"client.hello", "gateway.ping", "config.read", "session.create"}
  <2>1. \E error \in Inner : Finish(c, f, Reply(f, error))
    BY <1>2 DEF StoreFails, Inner
  <2>2. "client.hello" \notin methods /\ Passes(c, f, methods) /\ UNCHANGED <<dispOthers, access>>
    BY <1>2 DEF StoreFails
  <2>3. QED
    BY <2>1, <2>2, PassedLinked
<1>3. ASSUME NEW f \in Heads(c), Create(c, f)
      PROVE  StreamInv'
  <2>1. \E error \in Inner : Finish(c, f, Reply(f, error))
    BY <1>3 DEF Create, Inner
  <2>2. Passes(c, f, {"session.create"}) /\ UNCHANGED <<dispOthers, access>>
    BY <1>3 DEF Create
  <2>3. QED
    BY <2>1, <2>2, PassedLinked
<1>4. ASSUME NEW f \in Heads(c), ReadPage(c, f)
      PROVE  StreamInv'
  <2>1. \/ \E error \in Inner : Finish(c, f, Reply(f, error))
        \/ \E at \in {"latest", "resume", "control"} :
             disp' = [disp EXCEPT ![c] = [at |-> at, frame |-> f, reply |-> <<>>]]
    BY <1>4 DEF ReadPage, Inner
  <2>2. Passes(c, f, {"session.events.since"}) /\ UNCHANGED <<dispOthers, access>>
    BY <1>4 DEF ReadPage
  <2>3. QED
    BY <2>1, <2>2, PassedLinked
<1>5. ASSUME NEW f \in Heads(c), StartPrompt(c, f)
      PROVE  StreamInv'
  <2>1. \/ \E error \in Inner : Finish(c, f, Reply(f, error))
        \/ \E at \in {"latest", "resume", "control"} :
             disp' = [disp EXCEPT ![c] = [at |-> at, frame |-> f, reply |-> <<>>]]
    BY <1>5 DEF StartPrompt, Inner
  <2>2. Passes(c, f, {"prompt.submit"}) /\ UNCHANGED <<dispOthers, access>>
    BY <1>5 DEF StartPrompt
  <2>3. QED
    BY <2>1, <2>2, PassedLinked
<1>6. ASSUME NEW f \in Heads(c), Control(c, f)
      PROVE  StreamInv'
  <2>1. \/ \E error \in Inner : Finish(c, f, Reply(f, error))
        \/ \E at \in {"latest", "resume", "control"} :
             disp' = [disp EXCEPT ![c] = [at |-> at, frame |-> f, reply |-> <<>>]]
    BY <1>6 DEF Control, Inner
  <2>2. Passes(c, f, {"session.interrupt", "approval.respond"}) /\ UNCHANGED <<dispOthers, access>>
    BY <1>6 DEF Control
  <2>3. QED
    BY <2>1, <2>2, PassedLinked
<1>7. CASE ReadLatest(c)
  <2>1. Handling(c) /\ UNCHANGED <<inbox, dispOthers, access>>
    BY <1>7 DEF ReadLatest, Handling
  <2>2. \E error \in Inner : Finish(c, disp[c].frame, Reply(disp[c].frame, error))
    BY <1>7 DEF ReadLatest, Inner
  <2>3. QED
    BY <2>1, <2>2, HandlerLinked
<1>8. CASE ResumeActor(c)
  <2>1. Handling(c) /\ UNCHANGED <<inbox, dispOthers, access>>
    BY <1>8 DEF ResumeActor, Handling
  <2>2. disp' = [disp EXCEPT ![c] = [at |-> "submit", frame |-> disp[c].frame, reply |-> <<>>]]
    BY <1>8 DEF ResumeActor
  <2>3. QED
    BY <2>1, <2>2, HandlerLinked
<1>9. CASE SubmitPrompt(c)
  <2>1. Handling(c) /\ UNCHANGED <<inbox, dispOthers, access>>
    BY <1>9 DEF SubmitPrompt, Handling
  <2>2. \/ \E error \in Inner : Finish(c, disp[c].frame, Reply(disp[c].frame, error))
        \/ Finish(c, disp[c].frame, [Reply(disp[c].frame, "none") EXCEPT !.accepted = TRUE])
    BY <1>9 DEF SubmitPrompt, Inner
  <2>3. QED
    BY <2>1, <2>2, HandlerLinked
<1>10. CASE ControlActor(c)
  <2>1. Handling(c) /\ UNCHANGED <<inbox, dispOthers, access>>
    BY <1>10 DEF ControlActor, Handling
  <2>2. \E error \in Inner : Finish(c, disp[c].frame, Reply(disp[c].frame, error))
    BY <1>10 DEF ControlActor, Inner
  <2>3. QED
    BY <2>1, <2>2, HandlerLinked
<1>10a. CASE ActorRefuses(c) \/ ActorCannotWrite(c)
  <2>1. Handling(c) /\ UNCHANGED <<inbox, dispOthers, access>>
    BY <1>10a DEF ActorRefuses, ActorCannotWrite, Handling
  <2>2. \E error \in Inner : Finish(c, disp[c].frame, Reply(disp[c].frame, error))
    BY <1>10a DEF ActorRefuses, ActorCannotWrite, Inner
  <2>3. QED
    BY <2>1, <2>2, HandlerLinked
<1>11. CASE SendReply(c) \/ DispatcherEnds(c)
  <2>1. main[c] # "closed" /\ UNCHANGED <<inbox, access, standing, main, reader, arrived>>
    BY <1>11 DEF SendReply, DispatcherEnds, StreamInv, ConnectionInv, ClosedIsStill, dispOthers,
                 clientVars
  <2>2. PICK new \in {Idle, Ended} : disp' = [disp EXCEPT ![c] = new]
    BY <1>11 DEF SendReply, DispatcherEnds
  <2>3. Settled(new)
    BY <2>2 DEF Settled, Idle, Ended
  <2>4. QED
    BY <2>1, <2>2, <2>3, DispatcherSettled
<1>12. QED
  BY <1>1, <1>2, <1>3, <1>4, <1>5, <1>6, <1>7, <1>8, <1>9, <1>10, <1>10a, <1>11, RefuseLinked, HelloLinked
     DEF Handle

LEMMA StepLinked == StreamInv /\ [Next]_vars => StreamInv'
<1> SUFFICES ASSUME StreamInv, [Next]_vars
             PROVE  StreamInv'
  OBVIOUS
<1>1. CASE UNCHANGED vars \/ Actor
  <2>1. UNCHANGED <<streamVars, arrived>>
    BY <1>1 DEF vars, streamVars, taskVars, clientVars, Actor, TurnEnds, Asks, ActorStops, actorOthers
  <2>2. QED
    BY <2>1, NothingTouched
<1>2. ASSUME NEW c \in Connections, Client(c) \/ Writes(c)
      PROVE  StreamInv'
  <2>1. UNCHANGED <<streamVars, arrived>>
    BY <1>2 DEF Client, StopsTalking, StopsListening, Writes, Write, WriterEnds, streamVars,
                taskVars, clientVars
  <2>2. QED
    BY <2>1, NothingTouched
<1>3. ASSUME NEW c \in Connections, ReaderEnds(c) \/ ReaderFails(c)
      PROVE  StreamInv'
  <2>1. /\ UNCHANGED <<standing, arrived, inbox, access, disp, main>>
        /\ reader' = [reader EXCEPT ![c] = "ok"] \/ reader' = [reader EXCEPT ![c] = "err"]
    BY <1>3 DEF ReaderEnds, ReaderFails, clientVars
  <2>2. /\ main' = [main EXCEPT ![c] = main'[c]] /\ reader' = [reader EXCEPT ![c] = reader'[c]]
        /\ reader'[c] # "run"
    BY <2>1 DEF StreamInv, StreamTypeOK
  <2>3. QED
    BY <2>1, <2>2, TasksLinked
<1>4. ASSUME NEW c \in Connections, Joins(c)
      PROVE  StreamInv'
  <2>1. /\ UNCHANGED <<standing, arrived>> /\ main[c] # "closed"
        /\ \/ Close(c)
           \/ /\ UNCHANGED <<inbox, access, disp>>
              /\ reader' = [reader EXCEPT ![c] = Abort(@)] \/ UNCHANGED reader
              /\ \E at \in {"await_reader", "await_writer", "await_dispatcher"} :
                   main' = [main EXCEPT ![c] = at]
    BY <1>4 DEF Joins, JoinWriter, JoinReader, JoinDispatcher, mainOthers, clientVars
  <2>2. CASE Close(c)
    <3>1. /\ main' = [main EXCEPT ![c] = main'[c]] /\ reader' = [reader EXCEPT ![c] = reader'[c]]
      BY <2>2 DEF Close, StreamInv, StreamTypeOK
    <3>2. QED
      BY <2>1, <2>2, <3>1, TasksLinked
  <2>3. CASE /\ UNCHANGED <<inbox, access, disp>>
             /\ reader' = [reader EXCEPT ![c] = Abort(@)] \/ UNCHANGED reader
             /\ \E at \in {"await_reader", "await_writer", "await_dispatcher"} :
                  main' = [main EXCEPT ![c] = at]
    <3>1. /\ main' = [main EXCEPT ![c] = main'[c]] /\ reader' = [reader EXCEPT ![c] = reader'[c]]
          /\ main'[c] # "closed"
      BY <2>3 DEF StreamInv, StreamTypeOK
    <3>2. reader'[c] # "run" \/ UNCHANGED reader
      BY <2>3 DEF StreamInv, StreamTypeOK, Abort
    <3>3. QED
      BY <2>1, <2>3, <3>1, <3>2, TasksLinked
  <2>4. QED
    BY <2>1, <2>2, <2>3
<1>5. QED
  BY <1>1, <1>2, <1>3, <1>4, ReceiveLinked, HandleLinked DEF Next

LEMMA Invariance == Spec => []StreamInv
  BY InitLinked, StepLinked, PTL DEF Spec

-----------------------------------------------------------------------------
(* replies owed *)

\* The frames that want a reply are numbered 1, 2, 3 ...
LEMMA WantedCounts ==
  ASSUME NEW S, NEW frames \in Seq(S), NEW n \in 0 .. Len(frames)
  PROVE  /\ Wanted(frames, n) \in Nat
         /\ n < Len(frames) => Wanted(frames, n + 1)
                                 = Wanted(frames, n) + (IF frames[n + 1].wants THEN 1 ELSE 0)
         /\ \A i \in 1 .. n : frames[i].wants => Wanted(frames, i) \in 1 .. Wanted(frames, n)
<1> DEFINE W(k) == {i \in 1 .. k : frames[i].wants}
<1>0. Len(frames) \in Nat /\ n \in Nat
  OBVIOUS
<1>1. ASSUME NEW k \in Nat
      PROVE  IsFiniteSet(W(k)) /\ Cardinality(W(k)) \in Nat /\ Wanted(frames, k) = Cardinality(W(k))
  <2>1. IsFiniteSet(1 .. k) /\ W(k) \in SUBSET (1 .. k)
    BY FS_Interval
  <2>2. IsFiniteSet(W(k))
    BY <2>1, FS_Subset
  <2>3. Cardinality(W(k)) \in Nat
    BY <2>2, FS_CardinalityType
  <2>4. QED
    BY <2>2, <2>3 DEF Wanted
<1>2. Wanted(frames, n + 1) = Wanted(frames, n) + (IF frames[n + 1].wants THEN 1 ELSE 0)
  <2>1. /\ Wanted(frames, n + 1) = Cardinality(W(n + 1)) /\ Wanted(frames, n) = Cardinality(W(n))
        /\ Cardinality(W(n)) \in Nat /\ IsFiniteSet(W(n))
    <3>1. n + 1 \in Nat
      BY <1>0
    <3> HIDE DEF W
    <3>2. QED
      BY <1>0, <1>1, <3>1
  <2>2. CASE frames[n + 1].wants
    <3>1. W(n + 1) = W(n) \union {n + 1} /\ n + 1 \notin W(n)
      BY <1>0, <2>2
    <3> HIDE DEF W
    <3>2. Cardinality(W(n) \union {n + 1}) = Cardinality(W(n)) + 1
      BY <2>1, <3>1, FS_AddElement
    <3>3. QED
      BY <2>1, <2>2, <3>1, <3>2
  <2>3. CASE ~frames[n + 1].wants
    <3>1. W(n + 1) = W(n)
      BY <1>0, <2>3
    <3> HIDE DEF W
    <3>2. QED
      BY <2>1, <2>3, <3>1
  <2>4. QED
    BY <2>2, <2>3
<1>3. ASSUME NEW i \in 1 .. n, frames[i].wants
      PROVE  Wanted(frames, i) \in 1 .. Wanted(frames, n)
  <2>1. W(i) \in SUBSET W(n) /\ i \in W(i) /\ i \in Nat
    BY <1>0, <1>3
  <2>2. /\ Wanted(frames, i) = Cardinality(W(i)) /\ Cardinality(W(i)) \in Nat /\ IsFiniteSet(W(i))
        /\ Wanted(frames, n) = Cardinality(W(n)) /\ Cardinality(W(n)) \in Nat /\ IsFiniteSet(W(n))
    BY <1>0, <1>1, <2>1
  <2> HIDE DEF W
  <2>3. Cardinality(W(i)) <= Cardinality(W(n))
    BY <2>1, <2>2, FS_Subset
  <2>4. Cardinality(W(i)) # 0
    BY <2>1, <2>2, FS_EmptySet
  <2>5. QED
    BY <2>2, <2>3, <2>4
<1>4. Wanted(frames, n) \in Nat
  BY <1>0, <1>1
<1>5. QED
  BY <1>2, <1>3, <1>4

\* Only who wants a reply is counted.
LEMMA WantedSame ==
  ASSUME NEW frames, NEW others, NEW n \in Nat, \A i \in 1 .. n : frames[i].wants = others[i].wants
  PROVE  Wanted(others, n) = Wanted(frames, n)
<1>1. {i \in 1 .. n : frames[i].wants} = {i \in 1 .. n : others[i].wants}
  OBVIOUS
<1>2. QED
  BY <1>1 DEF Wanted

\* Behind the first frame.
LEMMA WantedBehind ==
  ASSUME NEW frames, NEW rest, NEW n \in Nat, \A i \in 1 .. n : rest[i].wants = frames[i + 1].wants
  PROVE  Wanted(frames, n + 1) = Wanted(rest, n) + (IF frames[1].wants THEN 1 ELSE 0)
<1> DEFINE R == {i \in 1 .. n : rest[i].wants}
           B == {i \in 2 .. n + 1 : frames[i].wants}
           g == [i \in R |-> i + 1]
<1>1. IsFiniteSet(R)
  <2>1. IsFiniteSet(1 .. n) /\ R \in SUBSET (1 .. n)
    BY FS_Interval
  <2>2. QED
    BY <2>1, FS_Subset
<1>2. IsFiniteSet(B) /\ Cardinality(B) = Cardinality(R) /\ Cardinality(R) \in Nat
  <2>1. g \in [R -> B]
    OBVIOUS
  <2>2. \A a, b \in R : g[a] = g[b] => a = b
    OBVIOUS
  <2>3. \A t \in B : \E s \in R : g[s] = t
    <3> SUFFICES ASSUME NEW t \in B
                 PROVE  \E s \in R : g[s] = t
      OBVIOUS
    <3>1. t - 1 \in 1 .. n /\ (t - 1) + 1 = t
      OBVIOUS
    <3>2. t - 1 \in R /\ g[t - 1] = t
      BY <3>1
    <3>3. QED
      BY <3>2
  <2> HIDE DEF g, R, B
  <2>4. g \in Bijection(R, B)
    BY <2>1, <2>2, <2>3, Fun_IsBij
  <2>5. ExistsBijection(R, B)
    BY <2>4 DEF ExistsBijection
  <2>6. QED
    BY <1>1, <2>5, FS_Bijection, FS_CardinalityType
<1>3. Wanted(rest, n) = Cardinality(R)
  BY DEF Wanted
<1>4. CASE frames[1].wants
  <2>1. {i \in 1 .. n + 1 : frames[i].wants} = B \union {1} /\ 1 \notin B
    BY <1>4
  <2>2. Wanted(frames, n + 1) = Cardinality(B \union {1})
    BY <2>1 DEF Wanted
  <2> HIDE DEF R, B
  <2>3. Cardinality(B \union {1}) = Cardinality(B) + 1
    BY <1>2, <2>1, FS_AddElement
  <2>4. QED
    BY <1>2, <1>3, <1>4, <2>2, <2>3
<1>5. CASE ~frames[1].wants
  <2>1. {i \in 1 .. n + 1 : frames[i].wants} = B
    BY <1>5
  <2>2. Wanted(frames, n + 1) = Cardinality(B)
    BY <2>1 DEF Wanted
  <2> HIDE DEF R, B
  <2>3. QED
    BY <1>2, <1>3, <1>5, <2>2
<1>6. QED
  BY <1>4, <1>5

\* A frame comes in.
LEMMA OwedGrows ==
  ASSUME NEW S, NEW ids \in Seq(Nat), NEW replies \in Seq(Nat), NEW frames \in Seq(S), NEW f \in S,
         f.id \in Nat, AreOwed(ids, replies, frames)
  PROVE  AreOwed(IF f.wants THEN Append(ids, f.id) ELSE ids, replies, Append(frames, f))
<1> DEFINE n    == Len(frames)
           more == Append(frames, f)
           owes == IF f.wants THEN Append(ids, f.id) ELSE ids
<1>1. /\ n \in Nat /\ Len(more) = n + 1 /\ more \in Seq(S) /\ more[n + 1] = f
      /\ \A i \in 1 .. n : more[i] = frames[i]
      /\ DOMAIN more = 1 .. n + 1 /\ DOMAIN frames = 1 .. n
      /\ Len(replies) \in Nat /\ DOMAIN replies = 1 .. Len(replies)
  OBVIOUS
<1>2. /\ Len(owes) = Len(ids) + (IF f.wants THEN 1 ELSE 0) /\ Len(ids) \in Nat
      /\ \A i \in 1 .. Len(ids) : owes[i] = ids[i]
      /\ f.wants => owes[Len(ids) + 1] = f.id
  OBVIOUS
<1>3. /\ Len(ids) = Len(replies) + Wanted(frames, n)
      /\ \A i \in 1 .. Len(replies) : ids[i] = replies[i]
      /\ \A i \in 1 .. n : frames[i].wants => ids[Len(replies) + Wanted(frames, i)] = frames[i].id
  BY <1>1 DEF AreOwed
<1> HIDE DEF n, more, owes
<1>4. ASSUME NEW k \in 0 .. n
      PROVE  Wanted(more, k) = Wanted(frames, k)
  <2>1. k \in Nat /\ \A i \in 1 .. k : frames[i].wants = more[i].wants
    BY <1>1
  <2>2. QED
    BY <2>1, WantedSame
<1>5. /\ Wanted(frames, n) \in Nat
      /\ \A i \in 1 .. n : frames[i].wants => Wanted(frames, i) \in 1 .. Wanted(frames, n)
  <2>1. n \in 0 .. Len(frames)
    BY <1>1 DEF n
  <2>2. QED
    BY <2>1, WantedCounts
<1>6. Wanted(more, n + 1) = Wanted(frames, n) + (IF f.wants THEN 1 ELSE 0)
  <2>1. n \in 0 .. Len(more) /\ n < Len(more) /\ Wanted(more, n) = Wanted(frames, n)
    BY <1>1, <1>4
  <2>2. Wanted(more, n + 1) = Wanted(more, n) + (IF more[n + 1].wants THEN 1 ELSE 0)
    BY <1>1, <2>1, WantedCounts
  <2>3. QED
    BY <1>1, <2>1, <2>2
<1>7. Len(owes) = Len(replies) + Wanted(more, Len(more))
  BY <1>1, <1>2, <1>3, <1>5, <1>6
<1>8. ASSUME NEW i \in 1 .. Len(replies)
      PROVE  owes[i] = replies[i]
  BY <1>1, <1>2, <1>3, <1>5
<1>9. ASSUME NEW i \in 1 .. n + 1, more[i].wants
      PROVE  owes[Len(replies) + Wanted(more, i)] = more[i].id
  <2>1. CASE i = n + 1
    BY SMTT(30), <1>1, <1>2, <1>3, <1>5, <1>6, <1>9, <2>1
  <2>2. CASE i \in 1 .. n
    <3>1. frames[i].wants /\ more[i].id = frames[i].id /\ Wanted(more, i) = Wanted(frames, i)
      BY <1>1, <1>4, <1>9, <2>2
    <3>2. Wanted(frames, i) \in 1 .. Wanted(frames, n)
      BY <1>5, <2>2, <3>1
    <3>3. Len(replies) + Wanted(frames, i) \in 1 .. Len(ids)
      BY SMTT(30), <1>1, <1>2, <1>3, <1>5, <3>2
    <3>4. QED
      BY <1>2, <1>3, <2>2, <3>1, <3>3
  <2>3. QED
    BY <1>1, <1>9, <2>1, <2>2
<1>10. QED
  BY <1>1, <1>7, <1>8, <1>9 DEF AreOwed, more, owes

\* What a frame turns out to be does not matter.
LEMMA OwedSame ==
  ASSUME NEW S, NEW T, NEW ids, NEW replies, NEW frames \in Seq(S), NEW others \in Seq(T),
         Len(others) = Len(frames),
         \A i \in 1 .. Len(frames) : others[i].wants = frames[i].wants /\ others[i].id = frames[i].id,
         AreOwed(ids, replies, frames)
  PROVE  AreOwed(ids, replies, others)
<1>1. Len(frames) \in Nat /\ DOMAIN others = DOMAIN frames /\ DOMAIN frames = 1 .. Len(frames)
  OBVIOUS
<1>2. ASSUME NEW k \in 0 .. Len(frames)
      PROVE  Wanted(others, k) = Wanted(frames, k)
  <2>1. k \in Nat /\ \A i \in 1 .. k : frames[i].wants = others[i].wants
    BY <1>1
  <2>2. QED
    BY <2>1, WantedSame
<1>3. QED
  BY <1>1, <1>2 DEF AreOwed

\* The first frame is answered, or wants no reply.
LEMMA OwedAnswered ==
  ASSUME NEW S, NEW T, NEW ids \in Seq(Nat), NEW replies \in Seq(Nat), NEW frames \in Seq(S),
         NEW rest \in Seq(T), Len(frames) = Len(rest) + 1, frames[1].id \in Nat,
         \A i \in 1 .. Len(rest) :
           rest[i].wants = frames[i + 1].wants /\ rest[i].id = frames[i + 1].id,
         AreOwed(ids, replies, frames)
  PROVE  AreOwed(ids, IF frames[1].wants THEN Append(replies, frames[1].id) ELSE replies, rest)
<1> DEFINE n    == Len(rest)
           more == IF frames[1].wants THEN Append(replies, frames[1].id) ELSE replies
<1>1. /\ n \in Nat /\ DOMAIN frames = 1 .. n + 1 /\ DOMAIN rest = 1 .. n /\ Len(frames) = n + 1
      /\ Len(replies) \in Nat /\ DOMAIN replies = 1 .. Len(replies) /\ DOMAIN more = 1 .. Len(more)
  OBVIOUS
<1>2. /\ Len(more) = Len(replies) + (IF frames[1].wants THEN 1 ELSE 0)
      /\ \A i \in 1 .. Len(replies) : more[i] = replies[i]
      /\ frames[1].wants => more[Len(replies) + 1] = frames[1].id
  OBVIOUS
<1>3. /\ Len(ids) = Len(replies) + Wanted(frames, n + 1)
      /\ \A i \in 1 .. Len(replies) : ids[i] = replies[i]
      /\ \A i \in 1 .. n + 1 : frames[i].wants => ids[Len(replies) + Wanted(frames, i)] = frames[i].id
  BY <1>1 DEF AreOwed
<1>4. /\ \A i \in 1 .. n : rest[i].wants = frames[i + 1].wants /\ rest[i].id = frames[i + 1].id
      /\ \A k \in 0 .. n : Wanted(rest, k) \in Nat
  BY <1>1, WantedCounts
<1> HIDE DEF n, more
<1>5. ASSUME NEW k \in 0 .. n
      PROVE  Wanted(frames, k + 1) = Wanted(rest, k) + (IF frames[1].wants THEN 1 ELSE 0)
  <2>1. k \in Nat /\ \A i \in 1 .. k : rest[i].wants = frames[i + 1].wants
    BY <1>1, <1>4
  <2>2. QED
    BY <2>1, WantedBehind
<1>6. Wanted(rest, 0) = 0
  <2>1. {i \in 1 .. 0 : rest[i].wants} = {}
    OBVIOUS
  <2>2. QED
    BY <2>1, FS_EmptySet DEF Wanted
<1>7. Len(ids) = Len(more) + Wanted(rest, n)
  BY <1>1, <1>2, <1>3, <1>4, <1>5
<1>8. ASSUME NEW i \in 1 .. Len(more)
      PROVE  ids[i] = more[i]
  <2>1. CASE i \in 1 .. Len(replies)
    BY <1>2, <1>3, <2>1
  <2>2. CASE i = Len(replies) + 1 /\ frames[1].wants
    <3>1. 0 \in 0 .. n /\ 1 \in 1 .. n + 1
      BY <1>1
    <3>2. Wanted(frames, 0 + 1) = 1
      BY <1>6, <1>5, <2>2, <3>1
    <3>3. ids[Len(replies) + Wanted(frames, 1)] = frames[1].id
      BY <1>3, <2>2, <3>1
    <3>4. QED
      BY <1>1, <1>2, <2>2, <3>2, <3>3
  <2>3. i \in 1 .. Len(replies) \/ (i = Len(replies) + 1 /\ frames[1].wants)
    BY <1>1, <1>2
  <2>4. QED
    BY <2>1, <2>2, <2>3
<1>9. ASSUME NEW i \in 1 .. n, rest[i].wants
      PROVE  ids[Len(more) + Wanted(rest, i)] = rest[i].id
  <2>1. frames[i + 1].wants /\ rest[i].id = frames[i + 1].id /\ i + 1 \in 1 .. n + 1
    BY <1>1, <1>4, <1>9
  <2>2. Len(more) + Wanted(rest, i) = Len(replies) + Wanted(frames, i + 1)
    BY SMTT(30), <1>1, <1>2, <1>4, <1>5
  <2>3. QED
    BY <1>3, <2>1, <2>2
<1>10. QED
  BY <1>1, <1>7, <1>8, <1>9 DEF AreOwed, n, more

\* The first reply is written.
LEMMA OwedWritten ==
  ASSUME NEW S, NEW ids \in Seq(Nat), NEW replies \in Seq(Nat), NEW frames \in Seq(S),
         replies # <<>>, ids # <<>>, AreOwed(ids, replies, frames)
  PROVE  AreOwed(Tail(ids), Tail(replies), frames)
<1> DEFINE n == Len(frames)
           r == Tail(replies)
           d == Tail(ids)
<1>1. /\ n \in Nat /\ DOMAIN frames = 1 .. n
      /\ Len(replies) \in Nat \ {0} /\ DOMAIN replies = 1 .. Len(replies)
      /\ Len(r) = Len(replies) - 1 /\ DOMAIN r = 1 .. Len(r)
      /\ \A i \in 1 .. Len(r) : r[i] = replies[i + 1]
  OBVIOUS
<1>2. /\ Len(ids) \in Nat \ {0} /\ Len(d) = Len(ids) - 1
      /\ \A i \in 1 .. Len(d) : d[i] = ids[i + 1]
  OBVIOUS
<1>3. /\ Len(ids) = Len(replies) + Wanted(frames, n)
      /\ \A i \in 1 .. Len(replies) : ids[i] = replies[i]
      /\ \A i \in 1 .. n : frames[i].wants => ids[Len(replies) + Wanted(frames, i)] = frames[i].id
  BY <1>1 DEF AreOwed
<1>4. /\ Wanted(frames, n) \in Nat
      /\ \A i \in 1 .. n : frames[i].wants => Wanted(frames, i) \in 1 .. Wanted(frames, n)
  BY <1>1, WantedCounts
<1> HIDE DEF n, r, d
<1>5. Len(d) = Len(r) + Wanted(frames, n)
  BY <1>1, <1>2, <1>3, <1>4
<1>6. \A i \in 1 .. Len(r) : d[i] = r[i]
  <2> SUFFICES ASSUME NEW i \in 1 .. Len(r)
               PROVE  d[i] = r[i]
    OBVIOUS
  <2>1. i \in 1 .. Len(d) /\ i + 1 \in 1 .. Len(replies)
    BY <1>1, <1>4, <1>5
  <2>2. QED
    BY <1>1, <1>2, <1>3, <2>1
<1>7. ASSUME NEW i \in 1 .. n, frames[i].wants
      PROVE  d[Len(r) + Wanted(frames, i)] = frames[i].id
  <2>1. Wanted(frames, i) \in 1 .. Wanted(frames, n)
    BY <1>4, <1>7
  <2>2. /\ Len(r) + Wanted(frames, i) \in 1 .. Len(d)
        /\ Len(r) + Wanted(frames, i) + 1 = Len(replies) + Wanted(frames, i)
    BY <1>1, <1>4, <1>5, <2>1
  <2>3. QED
    BY <1>2, <1>3, <1>7, <2>2
<1>8. QED
  BY <1>1, <1>5, <1>6, <1>7 DEF AreOwed, n, r, d

-----------------------------------------------------------------------------
(* replies follow requests *)

HandlerPlaces == {"latest", "resume", "submit", "control"}

\* Ids are numbers, and a frame wants a reply or not.
HoldsIds(new) ==
  /\ new.at = "send" => new.reply.id \in Nat
  /\ new.at \in HandlerPlaces => new.frame.id \in Nat /\ new.frame.wants \in BOOLEAN

\* The replies made are the next ones owed.
Leads(ids, replies) ==
  Len(replies) <= Len(ids) /\ \A i \in 1 .. Len(replies) : ids[i] = replies[i]

Stopped(c) == disp[c].at \in {"ok", "gone"}

\* While a writer lives the replies made are the next ones owed, and as long as the
\* dispatcher works the frames it has not answered are owed behind them.
InOrder(c) ==
  /\ HoldsIds(disp[c])
  /\ writer[c] = "run" =>
       /\ Stopped(c) => Leads(owed[c], Replies(c))
       /\ ~Stopped(c) => AreOwed(owed[c], Replies(c), Waiting(c))

ReplyTypeOK ==
  /\ outbox \in [Connections -> Seq(Nat)] /\ owed \in [Connections -> Seq(Nat)]
  /\ writer = [c \in Connections |-> writer[c]] /\ misplaced = FALSE

ReplyInv == ReplyTypeOK /\ \A c \in Connections : InOrder(c)

LEMMA Parts ==
  ASSUME StreamInv, ReplyInv, NEW c \in Connections
  PROVE  /\ inbox[c] \in Seq(InFrames) /\ outbox[c] \in Seq(Nat) /\ owed[c] \in Seq(Nat)
         /\ Replies(c) \in Seq(Nat)
         /\ disp[c].at # "send" => Replies(c) = outbox[c]
         /\ disp[c].at = "send" => Replies(c) = Append(outbox[c], disp[c].reply.id)
         /\ ~Handling(c) => Waiting(c) = inbox[c]
         /\ Handling(c) =>
              /\ Waiting(c) \in Seq(InFrames \union {disp[c].frame})
              /\ Len(Waiting(c)) = Len(inbox[c]) + 1 /\ Waiting(c)[1] = disp[c].frame
              /\ \A i \in 1 .. Len(inbox[c]) : Waiting(c)[i + 1] = inbox[c][i]
<1>1. inbox[c] \in Seq(InFrames) /\ outbox[c] \in Seq(Nat) /\ owed[c] \in Seq(Nat) /\ InOrder(c)
  BY DEF StreamInv, StreamTypeOK, ReplyInv, ReplyTypeOK
<1>2. /\ Replies(c) \in Seq(Nat)
      /\ disp[c].at # "send" => Replies(c) = outbox[c]
      /\ disp[c].at = "send" => Replies(c) = Append(outbox[c], disp[c].reply.id)
  <2>1. CASE disp[c].at = "send"
    <3> DEFINE id == disp[c].reply.id
    <3>1. id \in Nat /\ Replies(c) = outbox[c] \o <<id>>
      BY <1>1, <2>1 DEF InOrder, HoldsIds, Replies
    <3> HIDE DEF id
    <3>2. outbox[c] \o <<id>> = Append(outbox[c], id) /\ Append(outbox[c], id) \in Seq(Nat)
      BY <1>1, <3>1
    <3>3. QED
      BY <2>1, <3>1, <3>2 DEF id
  <2>2. CASE disp[c].at # "send"
    <3>1. Replies(c) = outbox[c] \o <<>>
      BY <2>2 DEF Replies
    <3>2. QED
      BY <1>1, <2>2, <3>1
  <2>3. QED
    BY <2>1, <2>2
<1>3. ~Handling(c) => Waiting(c) = inbox[c]
  BY <1>1 DEF Waiting
<1>4. ASSUME Handling(c)
      PROVE  /\ Waiting(c) \in Seq(InFrames \union {disp[c].frame})
             /\ Len(Waiting(c)) = Len(inbox[c]) + 1 /\ Waiting(c)[1] = disp[c].frame
             /\ \A i \in 1 .. Len(inbox[c]) : Waiting(c)[i + 1] = inbox[c][i]
  <2> DEFINE q == inbox[c]
             f == disp[c].frame
  <2>1. Waiting(c) = <<f>> \o q /\ q \in Seq(InFrames)
    BY <1>1, <1>4 DEF Waiting
  <2> HIDE DEF q, f
  <2>2. <<f>> \in Seq(InFrames \union {f}) /\ q \in Seq(InFrames \union {f})
    BY <2>1
  <2>3. QED
    BY <2>1, <2>2 DEF q, f
<1>5. QED
  BY <1>1, <1>2, <1>3, <1>4

LEMMA OwedLeads ==
  ASSUME NEW S, NEW ids, NEW replies \in Seq(Nat), NEW frames \in Seq(S),
         AreOwed(ids, replies, frames)
  PROVE  Leads(ids, replies)
<1>1. Len(frames) \in Nat /\ Len(replies) \in Nat /\ DOMAIN replies = 1 .. Len(replies)
  OBVIOUS
<1>2. Wanted(frames, Len(frames)) \in Nat
  BY <1>1, WantedCounts
<1>3. QED
  BY <1>1, <1>2 DEF AreOwed, Leads

LEMMA InitOwes == Init => ReplyInv
<1> SUFFICES ASSUME Init
             PROVE  ReplyInv
  OBVIOUS
<1>1. ReplyTypeOK
  BY DEF Init, ReplyTypeOK
<1>2. ASSUME NEW c \in Connections
      PROVE  InOrder(c)
  <2>1. /\ owed[c] = <<>> /\ outbox[c] = <<>> /\ inbox[c] = <<>>
        /\ disp[c].at \in {"recv", "gone"}
    BY DEF Init, Idle, Gone
  <2>2. Replies(c) = <<>> /\ Waiting(c) = <<>> /\ HoldsIds(disp[c])
    BY <2>1 DEF Replies, Waiting, Handling, HoldsIds, HandlerPlaces
  <2>3. Wanted(<<>>, 0) = 0
    <3> DEFINE none == <<>>
    <3>1. {i \in 1 .. 0 : none[i].wants} = {}
      OBVIOUS
    <3>2. QED
      BY <3>1, FS_EmptySet DEF Wanted
  <2>4. AreOwed(<<>>, <<>>, <<>>)
    BY <2>3 DEF AreOwed
  <2>5. QED
    BY <2>1, <2>2, <2>4 DEF InOrder, Leads
<1>3. QED
  BY <1>1, <1>2 DEF ReplyInv

\* A connection nothing of which changes, but that its writer may have stopped.
LEMMA OrderStays ==
  ASSUME NEW c, InOrder(c), outbox'[c] = outbox[c], owed'[c] = owed[c], inbox'[c] = inbox[c],
         disp'[c] = disp[c], writer'[c] = writer[c] \/ writer'[c] # "run"
  PROVE  InOrder(c)'
<1>1. Replies(c)' = Replies(c) /\ Waiting(c)' = Waiting(c)
  BY DEF Replies, Waiting, Handling
<1>2. QED
  BY <1>1 DEF InOrder, Stopped

LEMMA OneOwes ==
  ASSUME ReplyInv, StreamInv, NEW c \in Connections, ReplyTypeOK', InOrder(c)',
         \A d \in Connections \ {c} :
           /\ outbox'[d] = outbox[d] /\ owed'[d] = owed[d] /\ inbox'[d] = inbox[d]
           /\ disp'[d] = disp[d] /\ writer'[d] = writer[d]
  PROVE  ReplyInv'
<1>1. ASSUME NEW d \in Connections \ {c}
      PROVE  InOrder(d)'
  BY OrderStays DEF ReplyInv
<1>2. QED
  BY <1>1 DEF ReplyInv

\* Without a living writer nobody is owed an order.
LEMMA WriterGone ==
  ASSUME NEW c, HoldsIds(disp'[c]), writer'[c] # "run"
  PROVE  InOrder(c)'
  BY DEF InOrder

LEMMA ReceiveOwes ==
  ASSUME StreamInv, ReplyInv, NEW c \in Connections, Receive(c)
  PROVE  ReplyInv'
<1>1. /\ inbox[c] \in Seq(InFrames) /\ owed[c] \in Seq(Nat) /\ Replies(c) \in Seq(Nat)
      /\ InOrder(c) /\ arrived \in Nat
  BY Parts DEF ReplyInv, StreamInv, StreamTypeOK
<1>2. PICK f \in Frames(arrived + 1, standing[c]) :
        /\ inbox' = [inbox EXCEPT ![c] = Append(@, f)]
        /\ owed' = IF f.wants THEN [owed EXCEPT ![c] = Append(@, f.id)] ELSE owed
  BY DEF Receive
<1>3. UNCHANGED <<disp, outbox, writer, misplaced>>
  BY DEF Receive
<1>4. f.id \in Nat
  <2>1. f.id \in {arrived + 1, 0}
    BY <1>2 DEF Frames
  <2>2. QED
    BY <1>1, <2>1
<1> DEFINE S    == InFrames \union {f, disp[c].frame}
           owes == IF f.wants THEN Append(owed[c], f.id) ELSE owed[c]
<1>5. owed'[c] = owes /\ inbox'[c] = Append(inbox[c], f) /\ owes \in Seq(Nat)
  BY <1>1, <1>2, <1>4 DEF StreamInv, StreamTypeOK, ReplyInv, ReplyTypeOK
<1>6. ReplyTypeOK'
  <2>1. owed' \in [Connections -> Seq(Nat)]
    BY <1>1, <1>2, <1>4 DEF ReplyInv, ReplyTypeOK
  <2>2. QED
    BY <1>3, <2>1 DEF ReplyInv, ReplyTypeOK
<1>7. /\ Len(owes) >= Len(owed[c]) /\ Len(owes) \in Nat /\ Len(owed[c]) \in Nat
      /\ \A i \in 1 .. Len(owed[c]) : owes[i] = owed[c][i]
  BY <1>1, <1>4
<1>8. Replies(c)' = Replies(c)
  BY <1>3 DEF Replies
<1>9. Waiting(c)' = Append(Waiting(c), f) /\ Waiting(c) \in Seq(S)
  <2> DEFINE q == inbox[c]
             w == IF Handling(c) THEN <<disp[c].frame>> ELSE <<>>
  <2>1. Waiting(c)' = w \o Append(q, f) /\ Waiting(c) = w \o q
    BY <1>3, <1>5 DEF Waiting, Handling
  <2>2. q \in Seq(S) /\ w \in Seq(S)
    <3>1. <<disp[c].frame>> \in Seq(S) /\ <<>> \in Seq(S)
      OBVIOUS
    <3>2. q \in Seq(S)
      BY <1>1
    <3> HIDE DEF S, q
    <3>3. QED
      BY <3>1, <3>2
  <2>3. f \in S
    OBVIOUS
  <2> HIDE DEF S, q, w
  <2>4. w \o Append(q, f) = Append(w \o q, f) /\ w \o q \in Seq(S)
    BY <2>2, <2>3
  <2>5. QED
    BY <2>1, <2>4
<1>10. AreOwed(owed[c], Replies(c), Waiting(c)) => AreOwed(owes, Replies(c), Append(Waiting(c), f))
  <2>1. f \in S
    OBVIOUS
  <2> HIDE DEF S
  <2>2. QED
    BY <1>1, <1>4, <1>9, <2>1, OwedGrows
<1> HIDE DEF S, owes
<1>11. InOrder(c)'
  <2>1. HoldsIds(disp[c])'
    BY <1>1, <1>3 DEF InOrder, HoldsIds
  <2>2. ASSUME writer'[c] = "run"
        PROVE  /\ Stopped(c) => Leads(owes, Replies(c))
               /\ ~Stopped(c) => AreOwed(owes, Replies(c), Append(Waiting(c), f))
    <3>1. /\ Stopped(c) => Leads(owed[c], Replies(c))
          /\ ~Stopped(c) => AreOwed(owed[c], Replies(c), Waiting(c))
      BY <1>1, <1>3, <2>2 DEF InOrder
    <3>2. Len(Replies(c)) \in Nat
      BY <1>1
    <3>3. Leads(owed[c], Replies(c)) => Leads(owes, Replies(c))
      BY <1>7, <3>2 DEF Leads
    <3>4. QED
      BY <1>10, <3>1, <3>3
  <2>3. Stopped(c)' = Stopped(c)
    BY <1>3 DEF Stopped
  <2>4. QED
    BY <1>5, <1>8, <1>9, <2>1, <2>2, <2>3 DEF InOrder
<1>12. QED
  BY <1>1, <1>2, <1>3, <1>6, <1>11, OneOwes DEF StreamInv, StreamTypeOK, ReplyInv, ReplyTypeOK

\* What may become of a frame: its reply, nothing if it wants none, or a handler that has it.
Outcome(h, new) ==
  \/ new.at = "send" /\ h.wants /\ new.reply.id = h.id
  \/ new.at = "recv" /\ ~h.wants
  \/ new.at \in HandlerPlaces /\ new.frame.id = h.id /\ new.frame.wants = h.wants

\* The dispatcher takes the next frame or goes on with the one it has.
LEMMA DispatcherOwes ==
  ASSUME StreamInv, ReplyInv, StreamInv', NEW c \in Connections, NEW new,
         disp' = [disp EXCEPT ![c] = new], UNCHANGED <<owed, outbox, writer, misplaced>>,
         \/ /\ disp[c].at = "recv" /\ inbox[c] # <<>> /\ inbox' = [inbox EXCEPT ![c] = Tail(@)]
            /\ Outcome(Head(inbox[c]), new)
         \/ Handling(c) /\ UNCHANGED inbox /\ Outcome(disp[c].frame, new)
  PROVE  ReplyInv'
<1> DEFINE h == IF Handling(c) THEN disp[c].frame ELSE Head(inbox[c])
           w == Waiting(c)
           S == InFrames \union {disp[c].frame}
<1>1. /\ inbox[c] \in Seq(InFrames) /\ outbox[c] \in Seq(Nat) /\ owed[c] \in Seq(Nat)
      /\ InOrder(c)
  BY Parts DEF ReplyInv
<1>2. /\ disp'[c] = new /\ outbox'[c] = outbox[c] /\ owed'[c] = owed[c] /\ writer'[c] = writer[c]
      /\ inbox'[c] \in Seq(InFrames)
  BY DEF StreamInv, StreamTypeOK
<1>3. /\ w \in Seq(S) /\ Len(w) = Len(inbox'[c]) + 1 /\ w[1] = h
      /\ h.id \in Nat /\ h.wants \in BOOLEAN
      /\ \A i \in 1 .. Len(inbox'[c]) : inbox'[c][i] = w[i + 1]
      /\ Replies(c) = outbox[c] /\ ~Stopped(c) /\ Outcome(h, new)
  <2>1. CASE Handling(c)
    <3>1. inbox'[c] = inbox[c] /\ Outcome(disp[c].frame, new)
      BY <2>1 DEF Handling
    <3>2. /\ disp[c].frame.id \in Nat /\ disp[c].frame.wants \in BOOLEAN
          /\ disp[c].at # "send" /\ ~Stopped(c)
      BY <1>1, <2>1 DEF InOrder, HoldsIds, HandlerPlaces, Handling, Stopped
    <3>3. /\ w \in Seq(S) /\ Len(w) = Len(inbox[c]) + 1 /\ w[1] = disp[c].frame
          /\ \A i \in 1 .. Len(inbox[c]) : w[i + 1] = inbox[c][i]
          /\ Replies(c) = outbox[c]
      BY <2>1, <3>2, Parts
    <3> HIDE DEF w, S
    <3>4. QED
      BY <2>1, <3>1, <3>2, <3>3
  <2>2. CASE ~Handling(c)
    <3> DEFINE q == inbox[c]
    <3>1. /\ q # <<>> /\ inbox'[c] = Tail(q) /\ Outcome(Head(q), new) /\ disp[c].at = "recv"
      BY <2>2 DEF StreamInv, StreamTypeOK
    <3>9. ~Stopped(c)
      BY <3>1 DEF Stopped
    <3>2. w = q /\ q \in Seq(InFrames) /\ Replies(c) = outbox[c]
      BY <2>2, <3>1, Parts
    <3> HIDE DEF w, q
    <3>3. /\ Head(q) \in InFrames /\ Head(q) = q[1]
          /\ Len(q) \in Nat \ {0} /\ Len(Tail(q)) = Len(q) - 1
          /\ \A i \in 1 .. Len(q) - 1 : Tail(q)[i] = q[i + 1]
      BY <3>1, <3>2, Queue
    <3>4. h = Head(q) /\ Head(q).id \in Nat /\ Head(q).wants \in BOOLEAN
      BY <2>2, <3>3 DEF q, InFrames
    <3>5. q \in Seq(S)
      BY <3>2
    <3> HIDE DEF h, S
    <3>6. QED
      BY <3>1, <3>2, <3>3, <3>4, <3>5, <3>9
  <2>3. QED
    BY <2>1, <2>2
<1>4. HoldsIds(new)
  BY <1>3 DEF Outcome, HoldsIds, HandlerPlaces
<1>5. ASSUME writer[c] = "run"
      PROVE  AreOwed(owed[c], outbox[c], w)
  BY <1>1, <1>3, <1>5 DEF InOrder
<1> HIDE DEF h, w, S
<1>6. ASSUME writer[c] = "run", new.at \in {"send", "recv"}
      PROVE  AreOwed(owed[c], Replies(c)', inbox'[c]) /\ Waiting(c)' = inbox'[c]
  <2>1. AreOwed(owed[c], IF w[1].wants THEN Append(outbox[c], w[1].id) ELSE outbox[c], inbox'[c])
    BY <1>1, <1>2, <1>3, <1>5, <1>6, OwedAnswered
  <2>2. Waiting(c)' = inbox'[c]
    <3>1. ~Handling(c)'
      BY <1>2, <1>6 DEF Handling
    <3>2. Waiting(c)' = <<>> \o inbox'[c]
      BY <3>1 DEF Waiting
    <3>3. QED
      BY <1>2, <3>2
  <2>3. CASE new.at = "send"
    <3>1. h.wants /\ new.reply.id = h.id
      BY <1>3, <2>3 DEF Outcome, HandlerPlaces
    <3>2. Replies(c)' = outbox[c] \o <<h.id>>
      BY <1>2, <2>3, <3>1 DEF Replies
    <3>3. outbox[c] \o <<h.id>> = Append(outbox[c], h.id)
      BY <1>1, <1>3
    <3>4. QED
      BY <1>3, <2>1, <2>2, <3>1, <3>2, <3>3
  <2>4. CASE new.at = "recv"
    <3>1. ~h.wants
      BY <1>3, <2>4 DEF Outcome, HandlerPlaces
    <3>2. Replies(c)' = outbox[c] \o <<>>
      BY <1>2, <2>4 DEF Replies
    <3>3. Replies(c)' = outbox[c]
      BY <1>1, <3>2
    <3>4. QED
      BY <1>3, <2>1, <2>2, <3>1, <3>3
  <2>5. QED
    BY <1>6, <2>3, <2>4
<1>7. ASSUME writer[c] = "run", new.at \in HandlerPlaces
      PROVE  AreOwed(owed[c], Replies(c)', Waiting(c)')
  <2> DEFINE q == inbox'[c]
             g == new.frame
             v == <<g>> \o q
  <2>1. Replies(c)' = outbox[c] \o <<>> /\ Waiting(c)' = v
    BY <1>2, <1>7 DEF Replies, Waiting, Handling, HandlerPlaces
  <2>2. Replies(c)' = outbox[c]
    BY <1>1, <2>1
  <2>3. g.id = h.id /\ g.wants = h.wants
    BY <1>3, <1>7 DEF Outcome, HandlerPlaces
  <2> HIDE DEF q, g
  <2>4. q \in Seq(InFrames \union {g}) /\ <<g>> \in Seq(InFrames \union {g}) /\ Len(q) \in Nat
    BY <1>2 DEF q
  <2>5. /\ v \in Seq(InFrames \union {g}) /\ Len(v) = Len(q) + 1 /\ v[1] = g
        /\ \A i \in 1 .. Len(q) : v[i + 1] = q[i]
    BY <2>4
  <2> HIDE DEF v
  <2>6. Len(w) = Len(v) /\ \A i \in 1 .. Len(w) : v[i].wants = w[i].wants /\ v[i].id = w[i].id
    <3>1. Len(w) = Len(v) /\ Len(w) = Len(q) + 1
      BY <1>3, <2>5 DEF q
    <3>2. ASSUME NEW i \in 1 .. Len(w)
          PROVE  v[i].wants = w[i].wants /\ v[i].id = w[i].id
      <4>1. CASE i = 1
        BY <1>3, <2>3, <2>5, <4>1
      <4>2. CASE i # 1
        <5>1. i - 1 \in 1 .. Len(q) /\ (i - 1) + 1 = i
          BY <2>4, <3>1, <4>2
        <5>2. v[i] = q[i - 1] /\ w[i] = q[i - 1]
          BY <1>3, <2>5, <5>1 DEF q
        <5>3. QED
          BY <5>2
      <4>3. QED
        BY <4>1, <4>2
    <3>3. QED
      BY <3>1, <3>2
  <2>7. AreOwed(owed[c], outbox[c], v)
    BY <1>3, <1>5, <1>7, <2>5, <2>6, OwedSame
  <2>8. QED
    BY <2>1, <2>2, <2>7
<1>8. new.at \in {"send", "recv"} \union HandlerPlaces
  BY <1>3 DEF Outcome
<1>9. ~Stopped(c)' /\ (writer[c] = "run" => AreOwed(owed[c], Replies(c)', Waiting(c)'))
  BY <1>2, <1>6, <1>7, <1>8 DEF Stopped, HandlerPlaces
<1>10. InOrder(c)'
  BY <1>2, <1>4, <1>9 DEF InOrder
<1>11. ReplyTypeOK'
  BY DEF ReplyInv, ReplyTypeOK
<1>12. QED
  BY <1>10, <1>11, OneOwes DEF StreamInv, StreamTypeOK

LEMMA FinishAnswers ==
  ASSUME NEW c, NEW f, f.wants \in BOOLEAN, NEW reply, reply.id = f.id, Finish(c, f, reply)
  PROVE  \E new : Outcome(f, new) /\ disp' = [disp EXCEPT ![c] = new]
<1> DEFINE new == IF f.wants THEN [at |-> "send", reply |-> reply] ELSE Idle
<1>1. Outcome(f, new)
  BY DEF Outcome, Idle
<1>2. QED
  BY <1>1 DEF Finish

LEMMA HandlerHolds ==
  ASSUME NEW c, NEW f, NEW at \in HandlerPlaces,
         disp' = [disp EXCEPT ![c] = [at |-> at, frame |-> f, reply |-> <<>>]]
  PROVE  \E new : Outcome(f, new) /\ disp' = [disp EXCEPT ![c] = new]
<1>1. Outcome(f, [at |-> at, frame |-> f, reply |-> <<>>])
  BY DEF Outcome
<1>2. QED
  BY <1>1

LEMMA RepliesCarryIds ==
  \A f, error : Reply(f, error).id = f.id /\ [Reply(f, error) EXCEPT !.accepted = TRUE].id = f.id
  BY DEF Reply

\* A request is what its frame says, with its id.
LEMMA RequestIsItsFrame ==
  ASSUME StreamInv, NEW c \in Connections, NEW f \in Heads(c)
  PROVE  /\ inbox[c] # <<>> /\ Head(inbox[c]) \in InFrames
         /\ f.id = Head(inbox[c]).id /\ f.wants = Head(inbox[c]).wants
<1> DEFINE h == Head(inbox[c])
<1>1. inbox[c] # <<>> /\ f \in Requests(h)
  BY DEF Heads
<1>2. inbox[c] \in Seq(InFrames)
  BY DEF StreamInv, StreamTypeOK
<1>3. h \in InFrames
  BY <1>1, <1>2, Queue
<1> HIDE DEF h
<1>4. \E methods, errors : f \in Parsed(h, methods, errors)
  <2>1. h.kind \in {"request", "hello", "garbage"}
    BY <1>3 DEF InFrames
  <2>2. QED
    BY <1>1, <2>1 DEF Requests
<1>5. f.id = h.id /\ f.wants = h.wants
  BY <1>4 DEF Parsed
<1>6. QED
  BY <1>1, <1>3, <1>5 DEF h

\* Every first step of a request has an outcome for it.
LEMMA TakenHasOutcome ==
  ASSUME StreamInv, NEW c \in Connections, NEW f \in Heads(c),
         \/ Refuse(c, f) \/ Hello(c, f) \/ Read(c, f) \/ StoreFails(c, f) \/ Create(c, f)
         \/ ReadPage(c, f) \/ StartPrompt(c, f) \/ Control(c, f)
  PROVE  /\ disp[c].at = "recv" /\ inbox[c] # <<>> /\ inbox' = [inbox EXCEPT ![c] = Tail(@)]
         /\ UNCHANGED <<owed, outbox, writer, misplaced>>
         /\ \E new : Outcome(Head(inbox[c]), new) /\ disp' = [disp EXCEPT ![c] = new]
<1>1. /\ inbox[c] # <<>> /\ Head(inbox[c]) \in InFrames
      /\ f.id = Head(inbox[c]).id /\ f.wants = Head(inbox[c]).wants
  BY RequestIsItsFrame
<1>2. f.wants \in BOOLEAN
  BY <1>1 DEF InFrames
<1>3. /\ Take(c, f) /\ UNCHANGED dispOthers
      /\ \/ \E error : Finish(c, f, Reply(f, error))
         \/ \E at \in {"latest", "resume", "control"} :
              disp' = [disp EXCEPT ![c] = [at |-> at, frame |-> f, reply |-> <<>>]]
  <2>1. CASE Refuse(c, f)
    BY <2>1 DEF Refuse
  <2>2. CASE Hello(c, f)
    BY <2>2 DEF Hello, Passes
  <2>3. CASE Read(c, f)
    BY <2>3 DEF Read, Passes
  <2>4. CASE StoreFails(c, f)
    BY <2>4 DEF StoreFails, Passes
  <2>5. CASE Create(c, f)
    BY <2>5 DEF Create, Passes
  <2>6. CASE ReadPage(c, f)
    BY <2>6 DEF ReadPage, Passes
  <2>7. CASE StartPrompt(c, f)
    BY <2>7 DEF StartPrompt, Passes
  <2>8. CASE Control(c, f)
    BY <2>8 DEF Control, Passes
  <2>9. QED
    BY <2>1, <2>2, <2>3, <2>4, <2>5, <2>6, <2>7, <2>8
<1>4. PICK new : Outcome(f, new) /\ disp' = [disp EXCEPT ![c] = new]
  <2>1. ASSUME NEW error, Finish(c, f, Reply(f, error))
        PROVE  \E new : Outcome(f, new) /\ disp' = [disp EXCEPT ![c] = new]
    BY <1>2, <2>1, FinishAnswers, RepliesCarryIds
  <2>2. ASSUME NEW at \in {"latest", "resume", "control"},
               disp' = [disp EXCEPT ![c] = [at |-> at, frame |-> f, reply |-> <<>>]]
        PROVE  \E new : Outcome(f, new) /\ disp' = [disp EXCEPT ![c] = new]
    <3>1. at \in HandlerPlaces
      BY DEF HandlerPlaces
    <3>2. QED
      BY <2>2, <3>1, HandlerHolds
  <2>3. QED
    BY <1>3, <2>1, <2>2
<1>5. Outcome(Head(inbox[c]), new)
  BY <1>1, <1>4 DEF Outcome
<1>6. QED
  BY <1>1, <1>3, <1>4, <1>5 DEF Take, dispOthers, replyVars

\* So has every step of a handler that awaited.
LEMMA HeldHasOutcome ==
  ASSUME NEW c \in Connections,
         \/ ReadLatest(c) \/ ResumeActor(c) \/ SubmitPrompt(c) \/ ControlActor(c)
         \/ ActorRefuses(c) \/ ActorCannotWrite(c),
         disp[c].frame.wants \in BOOLEAN
  PROVE  /\ Handling(c) /\ UNCHANGED <<inbox, owed, outbox, writer, misplaced>>
         /\ \E new : Outcome(disp[c].frame, new) /\ disp' = [disp EXCEPT ![c] = new]
<1> DEFINE f == disp[c].frame
<1>1. /\ Handling(c) /\ UNCHANGED <<inbox, dispOthers>>
      /\ \/ \E error : Finish(c, f, Reply(f, error))
         \/ Finish(c, f, [Reply(f, "none") EXCEPT !.accepted = TRUE])
         \/ disp' = [disp EXCEPT ![c] = [at |-> "submit", frame |-> f, reply |-> <<>>]]
  <2>1. CASE ReadLatest(c)
    BY <2>1 DEF ReadLatest, Handling
  <2>2. CASE ResumeActor(c)
    BY <2>2 DEF ResumeActor, Handling
  <2>3. CASE SubmitPrompt(c)
    BY <2>3 DEF SubmitPrompt, Handling
  <2>4. CASE ControlActor(c)
    BY <2>4 DEF ControlActor, Handling
  <2>5. CASE ActorRefuses(c) \/ ActorCannotWrite(c)
    BY <2>5 DEF ActorRefuses, ActorCannotWrite, Handling
  <2>6. QED
    BY <2>1, <2>2, <2>3, <2>4, <2>5
<1> HIDE DEF f
<1>2. f.wants \in BOOLEAN
  BY DEF f
<1>3. \E new : Outcome(f, new) /\ disp' = [disp EXCEPT ![c] = new]
  <2>1. ASSUME NEW error, Finish(c, f, Reply(f, error))
        PROVE  \E new : Outcome(f, new) /\ disp' = [disp EXCEPT ![c] = new]
    <3> DEFINE reply == Reply(f, error)
    <3>1. reply.id = f.id
      BY RepliesCarryIds
    <3>2. Finish(c, f, reply)
      BY <2>1
    <3> HIDE DEF reply
    <3>3. QED
      BY <1>2, <3>1, <3>2, FinishAnswers
  <2>2. CASE Finish(c, f, [Reply(f, "none") EXCEPT !.accepted = TRUE])
    <3> DEFINE reply == [Reply(f, "none") EXCEPT !.accepted = TRUE]
    <3>1. reply.id = f.id
      BY RepliesCarryIds
    <3>2. Finish(c, f, reply)
      BY <2>2
    <3> HIDE DEF reply
    <3>3. QED
      BY <1>2, <3>1, <3>2, FinishAnswers
  <2>3. CASE disp' = [disp EXCEPT ![c] = [at |-> "submit", frame |-> f, reply |-> <<>>]]
    <3>1. "submit" \in HandlerPlaces
      BY DEF HandlerPlaces
    <3>2. QED
      BY <2>3, <3>1, HandlerHolds
  <2>4. QED
    BY <1>1, <2>1, <2>2, <2>3
<1>4. QED
  BY <1>1, <1>3 DEF dispOthers, replyVars, f

LEMMA HandleOwes ==
  ASSUME StreamInv, ReplyInv, StreamInv', NEW c \in Connections, Handle(c)
  PROVE  ReplyInv'
<1>1. ASSUME NEW f \in Heads(c),
             \/ Refuse(c, f) \/ Hello(c, f) \/ Read(c, f) \/ StoreFails(c, f) \/ Create(c, f)
             \/ ReadPage(c, f) \/ StartPrompt(c, f) \/ Control(c, f)
      PROVE  ReplyInv'
  <2>1. /\ disp[c].at = "recv" /\ inbox[c] # <<>> /\ inbox' = [inbox EXCEPT ![c] = Tail(@)]
        /\ UNCHANGED <<owed, outbox, writer, misplaced>>
        /\ \E new : Outcome(Head(inbox[c]), new) /\ disp' = [disp EXCEPT ![c] = new]
    BY <1>1, TakenHasOutcome
  <2>2. PICK new : Outcome(Head(inbox[c]), new) /\ disp' = [disp EXCEPT ![c] = new]
    BY <2>1
  <2>3. QED
    BY <2>1, <2>2, DispatcherOwes
<1>2. ASSUME \/ ReadLatest(c) \/ ResumeActor(c) \/ SubmitPrompt(c) \/ ControlActor(c)
             \/ ActorRefuses(c) \/ ActorCannotWrite(c)
      PROVE  ReplyInv'
  <2>1. disp[c].frame.wants \in BOOLEAN
    BY <1>2 DEF ReplyInv, InOrder, HoldsIds, HandlerPlaces, ReadLatest, ResumeActor, SubmitPrompt,
                ControlActor, ActorRefuses, ActorCannotWrite
  <2>2. /\ Handling(c) /\ UNCHANGED <<inbox, owed, outbox, writer, misplaced>>
        /\ \E new : Outcome(disp[c].frame, new) /\ disp' = [disp EXCEPT ![c] = new]
    BY <1>2, <2>1, HeldHasOutcome
  <2>3. PICK new : Outcome(disp[c].frame, new) /\ disp' = [disp EXCEPT ![c] = new]
    BY <2>2
  <2>4. QED
    BY <2>2, <2>3, DispatcherOwes
<1>3. ASSUME SendReply(c)
      PROVE  ReplyInv'
  <2>1. /\ disp[c].at = "send" /\ UNCHANGED <<owed, writer, misplaced, inbox>> /\ InOrder(c)
        /\ outbox[c] \in Seq(Nat) /\ disp[c].reply.id \in Nat
        /\ Replies(c) = Append(outbox[c], disp[c].reply.id) /\ Waiting(c) = inbox[c]
        /\ inbox[c] \in Seq(InFrames)
    BY <1>3, Parts DEF SendReply, ReplyInv, InOrder, HoldsIds, replyVars, Handling
  <2>2. \E new \in {Idle, Ended} : disp' = [disp EXCEPT ![c] = new]
    BY <1>3 DEF SendReply
  <2>3. /\ disp'[c] \in {Idle, Ended}
        /\ \A d \in Connections \ {c} : disp'[d] = disp[d]
    BY <2>2 DEF StreamInv, StreamTypeOK
  <2>4. HoldsIds(disp'[c])
    BY <2>3 DEF HoldsIds, HandlerPlaces, Idle, Ended
  <2>5. CASE writer[c] = "run"
    <3>1. /\ outbox' = [outbox EXCEPT ![c] = Append(outbox[c], disp[c].reply.id)]
          /\ disp' = [disp EXCEPT ![c] = Idle]
      BY <1>3, <2>5 DEF SendReply
    <3>2. ReplyTypeOK'
      BY <2>1, <3>1 DEF ReplyInv, ReplyTypeOK
    <3>3. outbox'[c] = Replies(c) /\ disp'[c] = Idle /\ Replies(c) \in Seq(Nat)
      BY <2>1, <3>1 DEF ReplyInv, ReplyTypeOK, StreamInv, StreamTypeOK
    <3>4. ~Stopped(c)' /\ ~Stopped(c) /\ ~Handling(c)' /\ disp'[c].at # "send"
      BY <2>1, <3>3 DEF Stopped, Handling, Idle
    <3>5. Replies(c)' = Replies(c)
      <4>1. Replies(c)' = outbox'[c] \o <<>>
        BY <3>4 DEF Replies
      <4>2. QED
        BY <3>3, <4>1
    <3>6. Waiting(c)' = Waiting(c)
      <4>1. Waiting(c)' = <<>> \o inbox[c]
        BY <2>1, <3>4 DEF Waiting
      <4>2. QED
        BY <2>1, <4>1
    <3>7. InOrder(c)'
      BY <2>1, <2>4, <2>5, <3>4, <3>5, <3>6 DEF InOrder
    <3>8. \A d \in Connections \ {c} : outbox'[d] = outbox[d]
      BY <3>1 DEF ReplyInv, ReplyTypeOK
    <3>9. QED
      BY <2>1, <2>3, <3>2, <3>7, <3>8, OneOwes
  <2>6. CASE writer[c] # "run"
    <3>1. UNCHANGED outbox
      BY <1>3, <2>6 DEF SendReply
    <3>2. ReplyTypeOK'
      BY <2>1, <3>1 DEF ReplyInv, ReplyTypeOK
    <3>3. QED
      BY <2>1, <2>3, <2>4, <2>6, <3>1, <3>2, WriterGone, OneOwes
  <2>7. QED
    BY <2>5, <2>6
<1>4. ASSUME DispatcherEnds(c)
      PROVE  ReplyInv'
  <2>1. /\ disp[c].at = "recv" /\ UNCHANGED <<owed, outbox, writer, misplaced, inbox>>
        /\ disp' = [disp EXCEPT ![c] = Ended] /\ InOrder(c) /\ inbox[c] \in Seq(InFrames)
        /\ Waiting(c) = inbox[c] /\ Replies(c) = outbox[c] /\ Replies(c) \in Seq(Nat)
    BY <1>4, Parts DEF DispatcherEnds, ReplyInv, dispOthers, replyVars, Handling
  <2>2. disp'[c] = Ended /\ \A d \in Connections \ {c} : disp'[d] = disp[d]
    BY <2>1 DEF StreamInv, StreamTypeOK
  <2>3. HoldsIds(disp'[c]) /\ Stopped(c)' /\ ~Stopped(c) /\ disp'[c].at # "send"
    BY <2>1, <2>2 DEF HoldsIds, HandlerPlaces, Ended, Stopped
  <2>4. Replies(c)' = Replies(c)
    <3>1. Replies(c)' = outbox[c] \o <<>>
      BY <2>1, <2>3 DEF Replies
    <3>2. QED
      BY <2>1, <3>1
  <2>5. writer[c] = "run" => Leads(owed[c], Replies(c))
    BY <2>1, <2>3, OwedLeads DEF InOrder
  <2>6. InOrder(c)' /\ ReplyTypeOK'
    BY <2>1, <2>3, <2>4, <2>5 DEF InOrder, ReplyInv, ReplyTypeOK
  <2>7. QED
    BY <2>1, <2>2, <2>6, OneOwes
<1>5. QED
  BY <1>1, <1>2, <1>3, <1>4 DEF Handle

LEMMA WriteOwes ==
  ASSUME StreamInv, ReplyInv, NEW c \in Connections, Write(c)
  PROVE  ReplyInv'
<1> DEFINE out == outbox[c]
           due == owed[c]
<1>1. /\ writer[c] = "run" /\ out # <<>> /\ UNCHANGED <<disp, inbox>>
      /\ outbox' = [outbox EXCEPT ![c] = Tail(out)]
  BY DEF Write
<1>2. /\ inbox[c] \in Seq(InFrames) /\ out \in Seq(Nat) /\ due \in Seq(Nat)
      /\ Replies(c) \in Seq(Nat) /\ InOrder(c)
  BY Parts DEF ReplyInv
<1>3. /\ Replies(c)' = Tail(Replies(c)) /\ Replies(c) # <<>> /\ Head(Replies(c)) = Head(out)
      /\ Waiting(c)' = Waiting(c)
      /\ Tail(out) \in Seq(Nat)
  <2>1. outbox'[c] = Tail(out)
    BY <1>1 DEF ReplyInv, ReplyTypeOK
  <2> DEFINE r == IF disp[c].at = "send" THEN <<disp[c].reply.id>> ELSE <<>>
  <2>2. Replies(c) = out \o r /\ Replies(c)' = Tail(out) \o r
    BY <1>1, <2>1 DEF Replies
  <2>3. r \in Seq(Nat)
    BY <1>2 DEF InOrder, HoldsIds
  <2> HIDE DEF r, out
  <2>4. Tail(out) \o r = Tail(out \o r) /\ out \o r # <<>> /\ Head(out \o r) = Head(out)
        /\ Tail(out) \in Seq(Nat)
    <3> DEFINE l == Tail(out) \o r
               m == Tail(out \o r)
    <3>1. /\ Len(out) \in Nat \ {0} /\ Tail(out) \in Seq(Nat) /\ Len(Tail(out)) = Len(out) - 1
          /\ \A i \in 1 .. Len(Tail(out)) : Tail(out)[i] = out[i + 1]
          /\ Len(r) \in Nat
      BY <1>1, <1>2, <2>3
    <3>2. /\ out \o r \in Seq(Nat) /\ out \o r # <<>> /\ Head(out \o r) = Head(out)
          /\ Len(out \o r) = Len(out) + Len(r)
          /\ \A i \in 1 .. Len(out) : (out \o r)[i] = out[i]
          /\ \A i \in Len(out) + 1 .. Len(out) + Len(r) : (out \o r)[i] = r[i - Len(out)]
      BY <1>1, <1>2, <2>3, <3>1
    <3>3. /\ l \in Seq(Nat) /\ Len(l) = Len(out) - 1 + Len(r)
          /\ \A i \in 1 .. Len(out) - 1 : l[i] = out[i + 1]
          /\ \A i \in Len(out) .. Len(out) - 1 + Len(r) : l[i] = r[i + 1 - Len(out)]
      BY <2>3, <3>1
    <3>4. /\ m \in Seq(Nat) /\ Len(m) = Len(out) - 1 + Len(r)
          /\ \A i \in 1 .. Len(m) : m[i] = (out \o r)[i + 1]
      BY <3>1, <3>2
    <3> HIDE DEF l, m
    <3>5. ASSUME NEW i \in 1 .. Len(m)
          PROVE  m[i] = l[i]
      <4>1. CASE i < Len(out)
        <5>1. i \in 1 .. Len(out) - 1 /\ i + 1 \in 1 .. Len(out)
          BY <3>1, <3>4, <4>1
        <5>2. QED
          BY <3>2, <3>3, <3>4, <5>1
      <4>2. CASE i >= Len(out)
        <5>1. /\ i \in Len(out) .. Len(out) - 1 + Len(r)
              /\ i + 1 \in Len(out) + 1 .. Len(out) + Len(r) /\ (i + 1) - Len(out) = i + 1 - Len(out)
          BY <3>1, <3>4, <4>2
        <5>2. QED
          BY <3>2, <3>3, <3>4, <5>1
      <4>3. QED
        BY <3>1, <3>4, <4>1, <4>2
    <3>6. m = l
      BY SMTT(30), <3>3, <3>4, <3>5
    <3>7. QED
      BY <3>1, <3>2, <3>6 DEF l, m
  <2>5. Waiting(c)' = Waiting(c)
    BY <1>1 DEF Waiting, Handling
  <2>6. QED
    BY <2>2, <2>4, <2>5
<1>4. \E S : Waiting(c) \in Seq(S)
  <2>1. CASE Handling(c)
    BY <2>1, Parts
  <2>2. CASE ~Handling(c)
    BY <1>2, <2>2, Parts
  <2>3. QED
    BY <2>1, <2>2
<1>5. Leads(due, Replies(c))
  BY <1>1, <1>2, <1>4, OwedLeads DEF InOrder
<1>6. due # <<>> /\ Head(due) = Head(out)
  <2> DEFINE r == Replies(c)
  <2>1. r \in Seq(Nat) /\ r # <<>> /\ Leads(due, r) /\ Head(r) = Head(out)
    BY <1>2, <1>3, <1>5
  <2> HIDE DEF r, due, out
  <2>2. Len(r) \in Nat \ {0} /\ Head(r) = r[1] /\ Len(due) \in Nat
    BY <1>2, <2>1
  <2>3. Len(due) >= 1 /\ due[1] = r[1]
    BY <2>1, <2>2 DEF Leads
  <2>4. QED
    BY <1>2, <2>1, <2>2, <2>3
<1>7. HoldsIds(disp'[c])
  BY <1>1, <1>2 DEF InOrder
<1>8. outbox' \in [Connections -> Seq(Nat)] /\ \A d \in Connections \ {c} : outbox'[d] = outbox[d]
  BY <1>1, <1>3 DEF ReplyInv, ReplyTypeOK
<1>9. CASE listens[c]
  <2>1. /\ misplaced' = (misplaced \/ due = <<>> \/ Head(due) # Head(out))
        /\ owed' = [owed EXCEPT ![c] = IF @ = <<>> THEN @ ELSE Tail(@)] /\ UNCHANGED writer
    BY <1>9 DEF Write
  <2>2. misplaced' = FALSE
    BY <1>6, <2>1 DEF ReplyInv, ReplyTypeOK
  <2>3. Tail(due) \in Seq(Nat)
    BY <1>2, <1>6
  <2>4. owed' = [owed EXCEPT ![c] = Tail(due)]
    BY <1>6, <2>1
  <2>5. owed'[c] = Tail(due) /\ owed' \in [Connections -> Seq(Nat)]
        /\ \A d \in Connections \ {c} : owed'[d] = owed[d]
    BY <2>3, <2>4 DEF ReplyInv, ReplyTypeOK
  <2>6. ReplyTypeOK'
    BY <1>8, <2>1, <2>2, <2>5 DEF ReplyInv, ReplyTypeOK
  <2>7. Stopped(c) => Leads(Tail(due), Tail(Replies(c)))
    <3> DEFINE r == Replies(c)
    <3>1. r \in Seq(Nat) /\ r # <<>> /\ Leads(due, r)
      BY <1>2, <1>3, <1>5
    <3> HIDE DEF r, due
    <3>2. /\ Len(r) \in Nat \ {0} /\ Len(Tail(r)) = Len(r) - 1
          /\ \A i \in 1 .. Len(Tail(r)) : Tail(r)[i] = r[i + 1]
          /\ Len(due) \in Nat \ {0} /\ Len(Tail(due)) = Len(due) - 1
          /\ \A i \in 1 .. Len(Tail(due)) : Tail(due)[i] = due[i + 1]
      BY <1>2, <1>6, <3>1
    <3>3. QED
      BY <3>1, <3>2 DEF Leads, r
  <2>8. ~Stopped(c) => AreOwed(Tail(due), Tail(Replies(c)), Waiting(c))
    <3>1. ~Stopped(c) => AreOwed(due, Replies(c), Waiting(c))
      BY <1>1, <1>2 DEF InOrder
    <3>2. QED
      BY <1>2, <1>3, <1>4, <1>6, <3>1, OwedWritten
  <2>9. Stopped(c)' = Stopped(c)
    BY <1>1 DEF Stopped
  <2>10. InOrder(c)'
    BY <1>3, <1>7, <2>5, <2>7, <2>8, <2>9 DEF InOrder
  <2>11. QED
    BY <1>1, <1>8, <2>1, <2>5, <2>6, <2>10, OneOwes
<1>10. CASE ~listens[c]
  <2>1. writer' = [writer EXCEPT ![c] = "err"] /\ UNCHANGED replyVars
    BY <1>10 DEF Write
  <2>2. /\ writer'[c] = "err" /\ \A d \in Connections \ {c} : writer'[d] = writer[d]
        /\ writer' = [d \in Connections |-> writer'[d]] /\ UNCHANGED <<owed, misplaced>>
    BY <2>1 DEF ReplyInv, ReplyTypeOK, replyVars
  <2>3. ReplyTypeOK'
    BY <1>8, <2>2 DEF ReplyInv, ReplyTypeOK
  <2>4. QED
    BY <1>1, <1>7, <1>8, <2>2, <2>3, WriterGone, OneOwes
<1>11. QED
  BY <1>9, <1>10

\* The joining task either touches none of it or closes the connection.
LEMMA JoinOwes ==
  ASSUME StreamInv, ReplyInv, NEW c \in Connections, Joins(c)
  PROVE  ReplyInv'
<1>1. \/ UNCHANGED <<outbox, owed, inbox, disp, writer, misplaced>>
      \/ Close(c) /\ UNCHANGED <<owed, misplaced>>
  BY DEF Joins, JoinWriter, JoinReader, JoinDispatcher, mainOthers, replyVars
<1>2. CASE UNCHANGED <<outbox, owed, inbox, disp, writer, misplaced>>
  <2>1. ReplyTypeOK'
    BY <1>2 DEF ReplyInv, ReplyTypeOK
  <2>2. \A d \in Connections : InOrder(d)'
    BY <1>2, OrderStays DEF ReplyInv
  <2>3. QED
    BY <2>1, <2>2 DEF ReplyInv
<1>3. CASE Close(c) /\ UNCHANGED <<owed, misplaced>>
  <2>1. /\ writer' = [writer EXCEPT ![c] = Abort(writer[c])] /\ disp' = [disp EXCEPT ![c] = Gone]
        /\ inbox' = [inbox EXCEPT ![c] = <<>>] /\ outbox' = [outbox EXCEPT ![c] = <<>>]
    BY <1>3 DEF Close
  <2>2. /\ writer'[c] # "run" /\ disp'[c] = Gone
        /\ writer' = [d \in Connections |-> writer'[d]]
    BY <2>1 DEF Abort, ReplyInv, ReplyTypeOK, StreamInv, StreamTypeOK
  <2>3. ReplyTypeOK'
    <3>1. outbox' \in [Connections -> Seq(Nat)]
      BY <2>1 DEF ReplyInv, ReplyTypeOK
    <3>2. QED
      BY <1>3, <2>2, <3>1 DEF ReplyInv, ReplyTypeOK
  <2>4. HoldsIds(disp'[c])
    BY <2>2 DEF HoldsIds, HandlerPlaces, Gone
  <2>5. \A d \in Connections \ {c} :
          /\ outbox'[d] = outbox[d] /\ owed'[d] = owed[d] /\ inbox'[d] = inbox[d]
          /\ disp'[d] = disp[d] /\ writer'[d] = writer[d]
    BY <1>3, <2>1 DEF ReplyInv, ReplyTypeOK, StreamInv, StreamTypeOK
  <2>6. QED
    BY <2>2, <2>3, <2>4, <2>5, WriterGone, OneOwes
<1>4. QED
  BY <1>1, <1>2, <1>3

LEMMA StepOwes == StreamInv /\ StreamInv' /\ ReplyInv /\ [Next]_vars => ReplyInv'
<1> SUFFICES ASSUME StreamInv, StreamInv', ReplyInv, [Next]_vars
             PROVE  ReplyInv'
  OBVIOUS
<1>1. ASSUME UNCHANGED <<outbox, owed, inbox, disp, writer, misplaced>>
      PROVE  ReplyInv'
  <2>1. ReplyTypeOK'
    BY <1>1 DEF ReplyInv, ReplyTypeOK
  <2>2. \A d \in Connections : InOrder(d)'
    BY <1>1, OrderStays DEF ReplyInv
  <2>3. QED
    BY <2>1, <2>2 DEF ReplyInv
<1>2. CASE UNCHANGED vars \/ Actor
  <2>1. UNCHANGED <<outbox, owed, inbox, disp, writer, misplaced>>
    BY <1>2 DEF vars, taskVars, replyVars, Actor, TurnEnds, Asks, ActorStops, actorOthers
  <2>2. QED
    BY <1>1, <2>1
<1>3. ASSUME NEW c \in Connections, Client(c) \/ ReaderEnds(c) \/ ReaderFails(c)
      PROVE  ReplyInv'
  <2>1. UNCHANGED <<outbox, owed, inbox, disp, writer, misplaced>>
    BY <1>3 DEF Client, StopsTalking, StopsListening, ReaderEnds, ReaderFails, taskVars, replyVars
  <2>2. QED
    BY <1>1, <2>1
<1>4. ASSUME NEW c \in Connections, WriterEnds(c)
      PROVE  ReplyInv'
  <2>1. /\ UNCHANGED <<outbox, owed, inbox, disp, misplaced>>
        /\ writer' = [writer EXCEPT ![c] = "ok"]
    BY <1>4 DEF WriterEnds, replyVars
  <2>2. /\ writer'[c] = "ok" /\ writer' = [d \in Connections |-> writer'[d]]
        /\ \A d \in Connections \ {c} : writer'[d] = writer[d]
    BY <2>1 DEF ReplyInv, ReplyTypeOK
  <2>3. ReplyTypeOK'
    BY <2>1, <2>2 DEF ReplyInv, ReplyTypeOK
  <2>4. HoldsIds(disp'[c])
    BY <2>1 DEF ReplyInv, InOrder
  <2>5. QED
    BY <2>1, <2>2, <2>3, <2>4, WriterGone, OneOwes
<1>5. QED
  BY <1>2, <1>3, <1>4, ReceiveOwes, HandleOwes, WriteOwes, JoinOwes DEF Next, Writes

LEMMA OwedInvariance == Spec => []ReplyInv
  BY InitOwes, StepOwes, Invariance, PTL DEF Spec

-----------------------------------------------------------------------------
(* theorems *)

\* Whatever the connections of a process send, in whatever order their frames wait, a
\* request is judged by the last good hello sent before it on its own connection, and only
\* by that (ConnectionAccess in connection.rs, the gate of dispatch.rs).
THEOREM GateIsInOrder == Spec => []GateFollowsTheStream
<1>1. StreamInv => GateFollowsTheStream
  BY DEF StreamInv, ConnectionInv, HandlerPassedGate, Faithful, GateFollowsTheStream
<1>2. QED
  BY <1>1, Invariance, PTL

\* A client gets the replies to its requests in the order it sent them, one for each that
\* has an id and none for a notification, whatever the handlers in between await and
\* whichever of them refuse (dispatcher_loop of stdio.rs and websocket.rs, dispatch.rs:115).
THEOREM RepliesAreOwed == Spec => []RepliesFollowRequests
<1>1. ReplyInv => RepliesFollowRequests
  BY DEF ReplyInv, ReplyTypeOK, InOrder, Stopped, RepliesFollowRequests
<1>2. QED
  BY <1>1, OwedInvariance, PTL
=============================================================================
