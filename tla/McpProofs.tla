----------------------------- MODULE McpProofs -----------------------------
(***************************************************************************)
(* The safety of the MCP client for any number of servers, calls and stray *)
(* lines and any threads: an answer is its call's because an id is used    *)
(* once per client, and the end of the program goes over the servers one   *)
(* by one.                                                                 *)
(***************************************************************************)
EXTENDS Mcp, SequenceTheorems, TLAPS

-----------------------------------------------------------------------------
(* The inductive invariant.                                                *)

\* The ids in a client's pipes have been given out, and what bears the id of the call under
\* way is that call's.
Own(s) ==
  /\ \A i \in 1 .. Len(out[s]) : out[s][i].of # 0 => out[s][i].id < nextId[s]
  /\ \A i \in 1 .. Len(inbox[s]) : inbox[s][i].id < nextId[s]
  /\ \A t \in Threads : call[t].on = s =>
       /\ \A i \in 1 .. Len(out[s]) :
            out[s][i].of # 0 /\ out[s][i].id = call[t].id => out[s][i].of = call[t].n
       /\ \A i \in 1 .. Len(inbox[s]) : inbox[s][i].id = call[t].id => inbox[s][i].n = call[t].n

\* Tools are called when the servers are up, and the end has gone over the servers before at.
Order ==
  /\ \A t \in Callers : call[t].method = "tools/call"
  /\ prog = "boot" => \A t \in Callers : call[t] = NoCall
  /\ prog = "ending" => \A s \in All : s < at => child[s] = "none"
  /\ prog = "ended" => \A s \in All : child[s] = "none"

McpInv == TypeOK /\ (\A s \in All : Own(s)) /\ Order /\ AnswerIsOwn

-----------------------------------------------------------------------------
(* Queues.                                                                 *)

LEMMA Popped ==
  ASSUME NEW S, NEW q \in Seq(S), q # <<>>
  PROVE  /\ Tail(q) \in Seq(S) /\ Head(q) \in S /\ Head(q) = q[1] /\ 1 \in 1 .. Len(q)
         /\ \A i \in 1 .. Len(Tail(q)) : i + 1 \in 1 .. Len(q) /\ Tail(q)[i] = q[i + 1]
<1>1. Len(q) \in Nat /\ Len(q) # 0
  BY EmptySeq, LenProperties
<1>2. Tail(q) \in Seq(S) /\ Head(q) \in S /\ Len(Tail(q)) = Len(q) - 1
      /\ \A i \in 1 .. Len(Tail(q)) : Tail(q)[i] = q[i + 1]
  BY HeadTailProperties
<1> QED  BY <1>1, <1>2

LEMMA InQueue ==
  ASSUME NEW S, NEW q \in Seq(S)
  PROVE  \A i \in 1 .. Len(q) : q[i] \in S
BY LenProperties

\* What is in the pipes has its type.
LEMMA InPipes ==
  ASSUME TypeOK, NEW s \in All
  PROVE  /\ out[s] \in Seq(Line) /\ inbox[s] \in Seq(Request)
         /\ \A i \in 1 .. Len(out[s]) : out[s][i] \in Line /\ out[s][i].id \in Nat /\ out[s][i].of \in Nat
         /\ \A i \in 1 .. Len(inbox[s]) : inbox[s][i] \in Request /\ inbox[s][i].id \in Nat
<1>1. out[s] \in Seq(Line) /\ inbox[s] \in Seq(Request)
  BY DEF TypeOK
<1>2. \A i \in 1 .. Len(out[s]) : out[s][i] \in Line
  BY <1>1, InQueue
<1>3. \A i \in 1 .. Len(inbox[s]) : inbox[s][i] \in Request
  BY <1>1, InQueue
<1>4. (\A l \in Line : l.id \in Nat /\ l.of \in Nat) /\ \A r \in Request : r.id \in Nat
  BY DEF Line, Request
<1> QED  BY <1>1, <1>2, <1>3, <1>4

LEMMA Pushed ==
  ASSUME NEW S, NEW q \in Seq(S), NEW x \in S
  PROVE  /\ Append(q, x) \in Seq(S)
         /\ \A i \in 1 .. Len(Append(q, x)) :
              \/ i \in 1 .. Len(q) /\ Append(q, x)[i] = q[i]
              \/ Append(q, x)[i] = x
<1>1. Append(q, x) \in Seq(S) /\ Len(Append(q, x)) = Len(q) + 1 /\ Len(q) \in Nat
      /\ (\A i \in 1 .. Len(q) : Append(q, x)[i] = q[i]) /\ Append(q, x)[Len(q) + 1] = x
  BY AppendProperties, LenProperties
<1> QED  BY <1>1

\* Nothing is in the pipes of a client but what was there, and no call is under way on it
\* but one that was: its answers stay apart.
LEMMA OwnKept ==
  ASSUME NEW s \in All, Own(s), nextId'[s] = nextId[s],
         \A i \in 1 .. Len(out'[s]) : out'[s][i].of # 0 =>
            \E j \in 1 .. Len(out[s]) : out'[s][i] = out[s][j],
         \A i \in 1 .. Len(inbox'[s]) : \E j \in 1 .. Len(inbox[s]) : inbox'[s][i] = inbox[s][j],
         \A t \in Threads : call'[t].on = s => call'[t] = call[t]
  PROVE  Own(s)'
<1>1. \A i \in 1 .. Len(out'[s]) : out'[s][i].of # 0 => out'[s][i].id < nextId'[s]
  BY DEF Own
<1>2. \A i \in 1 .. Len(inbox'[s]) : inbox'[s][i].id < nextId'[s]
  BY DEF Own
<1>3. ASSUME NEW t \in Threads, call'[t].on = s
      PROVE  /\ \A i \in 1 .. Len(out'[s]) :
                  out'[s][i].of # 0 /\ out'[s][i].id = call'[t].id => out'[s][i].of = call'[t].n
             /\ \A i \in 1 .. Len(inbox'[s]) : inbox'[s][i].id = call'[t].id => inbox'[s][i].n = call'[t].n
  <2>1. call'[t] = call[t] /\ call[t].on = s  BY <1>3
  <2> QED  BY <2>1 DEF Own
<1> QED  BY <1>1, <1>2, <1>3 DEF Own

-----------------------------------------------------------------------------
(* The two ends of a request.                                              *)

LEMMA SendKeeps ==
  ASSUME TypeOK, \A s \in All : Own(s),
         NEW t \in Threads, NEW s \in All, NEW m \in Methods, call[t] = NoCall,
         state[s] \in {"Initializing", "Ready"}, Send(t, s, m),
         UNCHANGED <<at, state, failed, tools, child, got, noise>>
  PROVE  TypeOK' /\ \A r \in All : Own(r)'
<1> DEFINE c == [on |-> s, id |-> nextId[s], n |-> calls + 1, method |-> m]
<1>1. c \in Request /\ s \in Nat /\ nextId[s] \in Nat
  BY DEF TypeOK, Request, All
<1>2. nextId' \in [All -> Nat] /\ calls' \in Nat
  BY DEF TypeOK, Send
<1>3. CASE child[s] = "up"
  <2>1. call' = [call EXCEPT ![t] = c] /\ inbox' = [inbox EXCEPT ![s] = Append(@, c)]
        /\ prog' = prog /\ out' = out
    BY <1>3 DEF Send, TypeOK, Threads
  <2>2. inbox[s] \in Seq(Request)
    BY DEF TypeOK
  <2>3. Append(inbox[s], c) \in Seq(Request)
        /\ \A i \in 1 .. Len(Append(inbox[s], c)) :
             \/ i \in 1 .. Len(inbox[s]) /\ Append(inbox[s], c)[i] = inbox[s][i]
             \/ Append(inbox[s], c)[i] = c
    BY <1>1, <2>2, Pushed
  <2>4. TypeOK'
    <3>1. call' \in [Threads -> Request] /\ inbox' \in [All -> Seq(Request)]
      BY <1>1, <2>1, <2>3 DEF TypeOK
    <3>2. \A u \in Threads : call'[u] # NoCall =>
            call'[u].on \in All /\ state'[call'[u].on] \in {"Initializing", "Ready"}
      BY <2>1 DEF TypeOK
    <3> QED  BY <1>2, <2>1, <3>1, <3>2 DEF TypeOK
  <2>5. Own(s)'
    <3>1. inbox'[s] = Append(inbox[s], c) /\ out'[s] = out[s] /\ nextId'[s] = nextId[s] + 1
      BY <2>1 DEF TypeOK, Send
    <3>2. \A i \in 1 .. Len(out[s]) : out[s][i].of # 0 => out[s][i].id < nextId[s] + 1 /\ out[s][i].id # nextId[s]
      <4>1. \A i \in 1 .. Len(out[s]) : out[s][i].id \in Nat
        BY InPipes
      <4> QED  BY <4>1, <1>1 DEF Own
    <3>3. \A i \in 1 .. Len(inbox[s]) : inbox[s][i].id < nextId[s] + 1 /\ inbox[s][i].id # nextId[s]
      <4>1. \A i \in 1 .. Len(inbox[s]) : inbox[s][i].id \in Nat
        BY InPipes
      <4> QED  BY <4>1, <1>1 DEF Own
    <3>4. \A i \in 1 .. Len(inbox'[s]) : inbox'[s][i].id < nextId[s] + 1
      BY <1>1, <2>3, <3>1, <3>3
    <3>5. \A u \in Threads : call'[u].on = s => call'[u] = c
      BY <2>1 DEF Send, Free, TypeOK
    <3>6. \A i \in 1 .. Len(inbox'[s]) : inbox'[s][i].id = c.id => inbox'[s][i].n = c.n
      BY <2>3, <3>1, <3>3
    <3> QED  BY <3>1, <3>2, <3>4, <3>5, <3>6 DEF Own
  <2>6. ASSUME NEW r \in All, r # s PROVE Own(r)'
    <3>1. out'[r] = out[r] /\ inbox'[r] = inbox[r] /\ nextId'[r] = nextId[r]
      BY <2>1, <2>6 DEF TypeOK, Send
    <3>2. \A u \in Threads : call'[u].on = r => call'[u] = call[u]
      BY <2>1, <2>6 DEF TypeOK
    <3> QED  BY <3>1, <3>2, OwnKept
  <2> QED  BY <2>4, <2>5, <2>6
<1>4. CASE child[s] # "up"
  <2>1. prog' = "killed" /\ call' = call /\ inbox' = inbox /\ out' = out
    BY <1>4 DEF Send
  <2>2. TypeOK'
    BY <1>2, <2>1 DEF TypeOK
  <2>3. ASSUME NEW r \in All PROVE Own(r)'
    <3>1. nextId'[r] = nextId[r] \/ (r = s /\ nextId'[r] = nextId[r] + 1)
      BY DEF TypeOK, Send
    <3>2. \A i \in 1 .. Len(out[r]) : out[r][i].id \in Nat
      BY InPipes
    <3>3. \A i \in 1 .. Len(inbox[r]) : inbox[r][i].id \in Nat
      BY InPipes
    <3>4. nextId[r] \in Nat /\ nextId[r] =< nextId'[r] /\ nextId'[r] \in Nat
      BY <3>1 DEF TypeOK
    <3> QED  BY <2>1, <3>2, <3>3, <3>4 DEF Own
  <2> QED  BY <2>2, <2>3
<1> QED  BY <1>3, <1>4

\* A read takes the first line, or none.
LEMMA TakeKeeps ==
  ASSUME TypeOK, \A s \in All : Own(s), NEW t \in Threads, NEW o, Take(t, o), nextId' = nextId
  PROVE  /\ call' \in [Threads -> Request] /\ out' \in [All -> Seq(Line)]
         /\ call'[t] = NoCall /\ \A u \in Threads : u # t => call'[u] = call[u]
         /\ \A r \in All : Own(r)'
<1> DEFINE s == call[t].on
<1>1. s \in All /\ out[s] \in Seq(Line)
  BY DEF Take, TypeOK
<1>2. call' = [call EXCEPT ![t] = NoCall] /\ NoCall \in Request /\ inbox' = inbox
  BY DEF Take, NoCall, Request, Methods
<1>3. call' \in [Threads -> Request] /\ call'[t] = NoCall /\ \A u \in Threads : u # t => call'[u] = call[u]
  BY <1>2 DEF TypeOK
<1>4. out' = out \/ (out[s] # <<>> /\ out' = [out EXCEPT ![s] = Tail(@)])
  BY DEF Take
<1>5. out' \in [All -> Seq(Line)]
  <2>1. out \in [All -> Seq(Line)]  BY DEF TypeOK
  <2>2. out[s] # <<>> => Tail(out[s]) \in Seq(Line)  BY <1>1, Popped
  <2> QED  BY <1>4, <2>1, <2>2
<1>6. ASSUME NEW r \in All PROVE Own(r)'
  <2>1. \A i \in 1 .. Len(out'[r]) : \E j \in 1 .. Len(out[r]) : out'[r][i] = out[r][j]
    <3>1. CASE out' = out  BY <3>1
    <3>2. CASE out[s] # <<>> /\ out' = [out EXCEPT ![s] = Tail(@)]
      <4>1. \A i \in 1 .. Len(Tail(out[s])) : i + 1 \in 1 .. Len(out[s]) /\ Tail(out[s])[i] = out[s][i + 1]
        BY <1>1, <3>2, Popped
      <4>2. CASE r = s
        <5>1. out'[r] = Tail(out[s])  BY <3>2, <4>2 DEF TypeOK
        <5> QED  BY <4>1, <4>2, <5>1
      <4>3. CASE r # s
        <5>1. out'[r] = out[r]  BY <3>2, <4>3 DEF TypeOK
        <5> QED  BY <5>1
      <4> QED  BY <4>2, <4>3
    <3> QED  BY <1>4, <3>1, <3>2
  <2>2. \A u \in Threads : call'[u].on = r => call'[u] = call[u]
    <3>1. NoCall.on = 0 /\ r # 0  BY DEF NoCall, All
    <3> QED  BY <1>3, <3>1
  <2>3. \A i \in 1 .. Len(inbox'[r]) : \E j \in 1 .. Len(inbox[r]) : inbox'[r][i] = inbox[r][j]
    BY <1>2
  <2> QED  BY <2>1, <2>2, <2>3, OwnKept
<1> QED  BY <1>3, <1>5, <1>6

-----------------------------------------------------------------------------
(* The steps.                                                              *)

LEMMA McpInitially == McpInit => McpInv
<1> SUFFICES ASSUME McpInit PROVE McpInv
  OBVIOUS
<1>1. TypeOK
  <2>1. <<>> \in Seq(Request) /\ <<>> \in Seq(Line)
    BY EmptySeq
  <2>2. NoCall \in Request
    BY DEF NoCall, Request, Methods
  <2> QED  BY <2>1, <2>2 DEF McpInit, TypeOK
<1>2. \A s \in All : Own(s)
  <2>1. ASSUME NEW s \in All PROVE inbox[s] = <<>> /\ out[s] = <<>> /\ 1 .. Len(<<>>) = {}
    BY DEF McpInit
  <2> QED  BY <2>1 DEF Own
<1>3. Order /\ AnswerIsOwn
  BY DEF McpInit, Order, AnswerIsOwn, Threads, NoCall
<1> QED  BY <1>1, <1>2, <1>3 DEF McpInv

\* Nothing of the pipes and the calls changes.
LEMMA OwnUnchanged ==
  ASSUME \A s \in All : Own(s), UNCHANGED <<nextId, inbox, out, call>>
  PROVE  \A s \in All : Own(s)'
BY DEF Own

LEMMA SpawnKeeps == ASSUME McpInv, NEW s \in All, Spawn(s) PROVE McpInv'
<1>1. TypeOK'
  <2>1. at' \in Nat /\ child' \in [All -> {"none", "up", "dead"}] /\ failed' \in [All -> BOOLEAN]
        /\ state' \in [All -> {"Disconnected", "Initializing", "Ready", "Error"}]
    <3>1. at \in Nat /\ child \in [All -> {"none", "up", "dead"}] /\ failed \in [All -> BOOLEAN]
          /\ state \in [All -> {"Disconnected", "Initializing", "Ready", "Error"}]
      BY DEF McpInv, TypeOK
    <3>2. at' \in Nat
      BY <3>1 DEF Spawn, NextServer
    <3>3. child' \in [All -> {"none", "up", "dead"}]
      BY <3>1 DEF Spawn
    <3>4. failed' \in [All -> BOOLEAN]
      BY <3>1 DEF Spawn
    <3>5. state' \in [All -> {"Disconnected", "Initializing", "Ready", "Error"}]
      BY <3>1 DEF Spawn
    <3> QED  BY <3>2, <3>3, <3>4, <3>5
  <2>2. ASSUME NEW t \in Threads, call'[t] # NoCall
        PROVE  call'[t].on \in All /\ state'[call'[t].on] \in {"Initializing", "Ready"}
    <3>1. call[t] # NoCall /\ call' = call  BY <2>2 DEF Spawn
    <3>2. call[t].on \in All /\ state[call[t].on] \in {"Initializing", "Ready"}
      BY <3>1 DEF McpInv, TypeOK
    <3>3. call[t].on # s  BY <3>2 DEF Spawn
    <3>4. state'[call[t].on] = state[call[t].on]
      BY <3>2, <3>3 DEF Spawn, McpInv, TypeOK
    <3> QED  BY <3>1, <3>2, <3>4
  <2> QED  BY <2>1, <2>2 DEF McpInv, TypeOK, Spawn
<1>2. \A r \in All : Own(r)'
  BY OwnUnchanged DEF McpInv, Spawn
<1>3. Order' /\ AnswerIsOwn'
  BY DEF McpInv, Order, AnswerIsOwn, Spawn, Booting
<1> QED  BY <1>1, <1>2, <1>3 DEF McpInv

LEMMA AskKeeps == ASSUME McpInv, NEW s \in All, Ask(s) PROVE McpInv'
<1>1. PICK m \in {"initialize", "tools/list"} : Send("main", s, m)
  BY DEF Ask
<1>2. "main" \in Threads /\ m \in Methods /\ call["main"] = NoCall /\ state[s] \in {"Initializing", "Ready"}
  BY DEF Ask, Booting, Threads, Methods
<1>3. TypeOK' /\ \A r \in All : Own(r)'
  BY <1>1, <1>2, SendKeeps DEF McpInv, Ask
<1>4. \A t \in Callers : call'[t] = call[t]
  BY <1>1, CallersAssumption DEF Send, McpInv, TypeOK, Threads
<1>5. prog = "boot" /\ prog' \in {"boot", "killed"}
  BY <1>1 DEF Ask, Booting, Send
<1>6. Order' /\ AnswerIsOwn'
  BY <1>4, <1>5 DEF McpInv, Order, AnswerIsOwn, Ask
<1> QED  BY <1>3, <1>6 DEF McpInv

LEMMA ConnectedKeeps == ASSUME McpInv, NEW s \in All, Connected(s) PROVE McpInv'
<1>1. PICK o : Take("main", o)
  BY DEF Connected
<1>2. "main" \in Threads /\ nextId' = nextId /\ prog = "boot" /\ prog' \in {"boot", "terminated", "killed"}
  BY DEF Connected, Threads
<1>3. /\ call' \in [Threads -> Request] /\ out' \in [All -> Seq(Line)]
      /\ call'["main"] = NoCall /\ \A u \in Threads : u # "main" => call'[u] = call[u]
      /\ \A r \in All : Own(r)'
  BY <1>1, <1>2, TakeKeeps DEF McpInv
<1>4. \A t \in Threads : call'[t] = NoCall
  BY <1>2, <1>3 DEF McpInv, Order, Threads
<1>5. child' = child /\ inbox' = inbox /\ noise' = noise
  BY <1>1 DEF Take
<1>6. /\ state' \in [All -> {"Disconnected", "Initializing", "Ready", "Error"}]
      /\ failed' \in [All -> BOOLEAN] /\ at' \in Nat
  <2>1. at \in Nat /\ failed \in [All -> BOOLEAN]
        /\ state \in [All -> {"Disconnected", "Initializing", "Ready", "Error"}]
    BY DEF McpInv, TypeOK
  <2>2. at' \in Nat
    BY <2>1 DEF Connected, NextServer
  <2>3. failed' \in [All -> BOOLEAN]
    BY <2>1 DEF Connected
  <2>4. state' \in [All -> {"Disconnected", "Initializing", "Ready", "Error"}]
    BY <2>1 DEF Connected
  <2> QED  BY <2>2, <2>3, <2>4
<1>7. TypeOK'
  BY <1>2, <1>3, <1>4, <1>5, <1>6 DEF McpInv, TypeOK, Connected
<1>8. Order' /\ AnswerIsOwn'
  BY <1>2, <1>4 DEF McpInv, Order, AnswerIsOwn, Connected, Threads, NoCall
<1> QED  BY <1>3, <1>7, <1>8 DEF McpInv

LEMMA ListedKeeps == ASSUME McpInv, NEW s \in All, Listed(s) PROVE McpInv'
<1>1. PICK o : Take("main", o)
  BY DEF Listed
<1>2. "main" \in Threads /\ nextId' = nextId /\ prog = "boot" /\ prog' \in {"boot", "terminated"}
  BY DEF Listed, Threads
<1>3. /\ call' \in [Threads -> Request] /\ out' \in [All -> Seq(Line)]
      /\ call'["main"] = NoCall /\ \A u \in Threads : u # "main" => call'[u] = call[u]
      /\ \A r \in All : Own(r)'
  BY <1>1, <1>2, TakeKeeps DEF McpInv
<1>4. \A t \in Threads : call'[t] = NoCall
  BY <1>2, <1>3 DEF McpInv, Order, Threads
<1>5. child' = child /\ inbox' = inbox /\ noise' = noise
  BY <1>1 DEF Take
<1>6. tools' \in [All -> BOOLEAN] /\ failed' \in [All -> BOOLEAN] /\ at' \in Nat
  <2>1. at \in Nat /\ failed \in [All -> BOOLEAN] /\ tools \in [All -> BOOLEAN]
    BY DEF McpInv, TypeOK
  <2>2. at' \in Nat
    BY <2>1 DEF Listed, NextServer
  <2>3. failed' \in [All -> BOOLEAN]
    BY <2>1 DEF Listed
  <2>4. tools' \in [All -> BOOLEAN]
    BY <2>1 DEF Listed
  <2> QED  BY <2>2, <2>3, <2>4
<1>7. TypeOK'
  BY <1>2, <1>3, <1>4, <1>5, <1>6 DEF McpInv, TypeOK, Listed
<1>8. Order' /\ AnswerIsOwn'
  BY <1>2, <1>4 DEF McpInv, Order, AnswerIsOwn, Listed, Threads, NoCall
<1> QED  BY <1>3, <1>7, <1>8 DEF McpInv

LEMMA CallKeeps == ASSUME McpInv, NEW t \in Callers, NEW s \in All, Call(t, s) PROVE McpInv'
<1>1. t \in Threads /\ "tools/call" \in Methods /\ call[t] = NoCall /\ state[s] = "Ready"
      /\ Send(t, s, "tools/call")
  BY DEF Call, Threads, Methods
<1>2. TypeOK' /\ \A r \in All : Own(r)'
  BY <1>1, SendKeeps DEF McpInv, Call
<1>3. \A u \in Callers : call'[u].method = "tools/call"
  <2>1. call \in [Threads -> Request]  BY DEF McpInv, TypeOK
  <2>2. call' = call \/ call' = [call EXCEPT ![t] = [on |-> s, id |-> nextId[s], n |-> calls + 1, method |-> "tools/call"]]
    BY <1>1, <2>1 DEF Send
  <2> QED  BY <1>1, <2>1, <2>2 DEF McpInv, Order, Threads
<1>4. prog \in {"up", "ending"} /\ (prog' = prog \/ prog' = "killed") /\ child' = child /\ at' = at
  BY <1>1 DEF Call, Send
<1>5. Order' /\ AnswerIsOwn'
  BY <1>3, <1>4 DEF McpInv, Order, AnswerIsOwn, Call
<1> QED  BY <1>2, <1>5 DEF McpInv

\* A call's text: the line's id is the call's, and so is the line.
LEMMA ReturnedKeeps == ASSUME McpInv, NEW t \in Callers, Returned(t) PROVE McpInv'
<1>1. PICK o : Take(t, o)
  BY DEF Returned
<1>2. t \in Threads /\ nextId' = nextId
  BY DEF Returned, Threads, clientVars
<1>3. /\ call' \in [Threads -> Request] /\ out' \in [All -> Seq(Line)]
      /\ call'[t] = NoCall /\ \A u \in Threads : u # t => call'[u] = call[u]
      /\ \A r \in All : Own(r)'
  BY <1>1, <1>2, TakeKeeps DEF McpInv
<1>4. child' = child /\ inbox' = inbox /\ noise' = noise
  BY <1>1 DEF Take
<1>5. call[t] # NoCall /\ call[t].on \in All /\ call[t] \in Request /\ call[t].method = "tools/call"
  BY <1>1, <1>2 DEF Take, McpInv, TypeOK, Order
<1>6. got' \in [n : Nat, of : Nat] /\ AnswerIsOwn'
  <2>1. CASE got' = got
    BY <2>1 DEF McpInv, TypeOK, AnswerIsOwn
  <2>2. CASE /\ Take(t, "ok")
             /\ got' = [n |-> call[t].n, of |-> Head(out[call[t].on]).of]
    <3> DEFINE s == call[t].on
               l == Head(out[s])
    <3>1. out[s] # <<>> /\ Outcome(call[t], l) = "ok" /\ l.kind # "note"
      BY <2>2 DEF Take
    <3>2. out[s] \in Seq(Line)
      BY <1>5, InPipes DEF McpInv
    <3>3. l \in Line /\ l = out[s][1] /\ 1 \in 1 .. Len(out[s])
      BY <3>1, <3>2, Popped
    <3>4. l.id = call[t].id
      BY <1>5, <3>1 DEF Outcome
    <3>5. l.of # 0 => l.of = call[t].n
      <4>1. Own(s)  BY <1>5 DEF McpInv
      <4> QED  BY <1>2, <3>3, <3>4, <4>1 DEF Own
    <3>6. call[t].n \in Nat /\ l.of \in Nat
      BY <1>5, <3>3 DEF Request, Line
    <3> QED  BY <2>2, <3>5, <3>6 DEF AnswerIsOwn
  <2> QED  BY <2>1, <2>2 DEF Returned
<1>7. TypeOK'
  <2>1. \A u \in Threads : call'[u] # NoCall =>
          call'[u].on \in All /\ state'[call'[u].on] \in {"Initializing", "Ready"}
    BY <1>3 DEF McpInv, TypeOK, Returned, clientVars
  <2> QED  BY <1>3, <1>4, <1>6, <2>1 DEF McpInv, TypeOK, Returned, clientVars
<1>8. Order'
  <2>1. prog' = prog /\ at' = at
    BY DEF Returned
  <2>2. \A u \in Callers : call'[u] = NoCall \/ call'[u] = call[u]
    BY <1>3 DEF Threads
  <2>3. NoCall.method = "tools/call"
    BY DEF NoCall
  <2>4. \A u \in Callers : call'[u].method = "tools/call"
    BY <2>2, <2>3 DEF McpInv, Order
  <2> QED  BY <1>4, <2>1, <2>2, <2>4 DEF McpInv, Order
<1> QED  BY <1>3, <1>6, <1>7, <1>8 DEF McpInv

LEMMA SkipKeeps == ASSUME McpInv, NEW t \in Threads, Skip(t) PROVE McpInv'
<1> DEFINE s == call[t].on
<1>1. s \in All /\ out[s] # <<>> /\ out' = [out EXCEPT ![s] = Tail(@)] /\ call' = call /\ inbox' = inbox
      /\ nextId' = nextId
  BY DEF Skip, McpInv, TypeOK, clientVars
<1>2. out[s] \in Seq(Line) /\ out \in [All -> Seq(Line)]
  BY DEF McpInv, TypeOK, Skip
<1>3. Tail(out[s]) \in Seq(Line)
      /\ \A i \in 1 .. Len(Tail(out[s])) : i + 1 \in 1 .. Len(out[s]) /\ Tail(out[s])[i] = out[s][i + 1]
  BY <1>1, <1>2, Popped
<1>4. TypeOK'
  <2>1. out' \in [All -> Seq(Line)]  BY <1>1, <1>2, <1>3
  <2> QED  BY <2>1 DEF McpInv, TypeOK, Skip, clientVars
<1>5. ASSUME NEW r \in All PROVE Own(r)'
  <2>1. \A i \in 1 .. Len(out'[r]) : \E j \in 1 .. Len(out[r]) : out'[r][i] = out[r][j]
    <3>1. CASE r = s
      <4>1. out'[r] = Tail(out[s])  BY <1>1, <1>2, <3>1
      <4> QED  BY <1>3, <3>1, <4>1
    <3>2. CASE r # s
      <4>1. out'[r] = out[r]  BY <1>1, <1>2, <3>2
      <4> QED  BY <4>1
    <3> QED  BY <3>1, <3>2
  <2>2. \A i \in 1 .. Len(inbox'[r]) : \E j \in 1 .. Len(inbox[r]) : inbox'[r][i] = inbox[r][j]
    BY <1>1
  <2> QED  BY <1>1, <2>1, <2>2, OwnKept DEF McpInv
<1>6. Order' /\ AnswerIsOwn'
  BY DEF McpInv, Order, AnswerIsOwn, Skip
<1> QED  BY <1>4, <1>5, <1>6 DEF McpInv

\* A line more in a client's pipe: an answer to a request that was there, or one of nothing.
LEMMA EmitKeeps ==
  ASSUME McpInv, NEW s \in All, NEW l \in Line, Emit(s, l), call' = call, nextId' = nextId,
         \/ l.of = 0
         \/ \E i \in 1 .. Len(inbox[s]) : l.id = inbox[s][i].id /\ l.of = inbox[s][i].n,
         \A r \in All : \A i \in 1 .. Len(inbox'[r]) : \E j \in 1 .. Len(inbox[r]) : inbox'[r][i] = inbox[r][j]
  PROVE  out' \in [All -> Seq(Line)] /\ \A r \in All : Own(r)'
<1>1. out \in [All -> Seq(Line)] /\ out[s] \in Seq(Line) /\ out' = [out EXCEPT ![s] = Append(@, l)]
  BY DEF McpInv, TypeOK, Emit
<1>2. Append(out[s], l) \in Seq(Line)
      /\ \A i \in 1 .. Len(Append(out[s], l)) :
           \/ i \in 1 .. Len(out[s]) /\ Append(out[s], l)[i] = out[s][i]
           \/ Append(out[s], l)[i] = l
  BY <1>1, Pushed
<1>3. out' \in [All -> Seq(Line)]
  BY <1>1, <1>2
<1>4. Own(s)'
  <2>1. out'[s] = Append(out[s], l)  BY <1>1
  <2>2. Own(s)  BY DEF McpInv
  <2>3. l.of # 0 => l.id < nextId[s]
    BY <2>2 DEF Own
  <2>4. \A t \in Threads : call[t].on = s /\ l.of # 0 /\ l.id = call[t].id => l.of = call[t].n
    BY <2>2 DEF Own
  <2>5. \A i \in 1 .. Len(out'[s]) : out'[s][i] = l \/ \E j \in 1 .. Len(out[s]) : out'[s][i] = out[s][j]
    BY <1>2, <2>1
  <2>6. \A i \in 1 .. Len(out'[s]) : out'[s][i].of # 0 => out'[s][i].id < nextId[s]
    <3>1. \A j \in 1 .. Len(out[s]) : out[s][j].of # 0 => out[s][j].id < nextId[s]
      BY <2>2 DEF Own
    <3> QED  BY <2>3, <2>5, <3>1
  <2>7. ASSUME NEW t \in Threads, call[t].on = s
        PROVE  /\ \A i \in 1 .. Len(out'[s]) :
                    out'[s][i].of # 0 /\ out'[s][i].id = call[t].id => out'[s][i].of = call[t].n
               /\ \A i \in 1 .. Len(inbox'[s]) : inbox'[s][i].id = call[t].id => inbox'[s][i].n = call[t].n
    <3>1. \A j \in 1 .. Len(out[s]) : out[s][j].of # 0 /\ out[s][j].id = call[t].id => out[s][j].of = call[t].n
      BY <2>2, <2>7 DEF Own
    <3>2. \A j \in 1 .. Len(inbox[s]) : inbox[s][j].id = call[t].id => inbox[s][j].n = call[t].n
      BY <2>2, <2>7 DEF Own
    <3>3. \A i \in 1 .. Len(inbox'[s]) : \E j \in 1 .. Len(inbox[s]) : inbox'[s][i] = inbox[s][j]
      OBVIOUS
    <3>4. \A i \in 1 .. Len(inbox'[s]) : inbox'[s][i].id = call[t].id => inbox'[s][i].n = call[t].n
      BY <3>2, <3>3
    <3>5. l.of # 0 /\ l.id = call[t].id => l.of = call[t].n
      BY <2>4, <2>7
    <3>6. \A i \in 1 .. Len(out'[s]) :
            out'[s][i].of # 0 /\ out'[s][i].id = call[t].id => out'[s][i].of = call[t].n
      BY <2>5, <3>1, <3>5
    <3> QED  BY <3>4, <3>6
  <2>8. \A i \in 1 .. Len(inbox'[s]) : inbox'[s][i].id < nextId[s]
    BY <2>2 DEF Own
  <2> QED  BY <2>6, <2>7, <2>8 DEF Own
<1>5. ASSUME NEW r \in All, r # s PROVE Own(r)'
  <2>1. out'[r] = out[r]  BY <1>1, <1>5
  <2> QED  BY <2>1, OwnKept DEF McpInv
<1> QED  BY <1>3, <1>4, <1>5

LEMMA AnswerKeeps == ASSUME McpInv, NEW s \in All, Answer(s) PROVE McpInv'
<1> DEFINE r == Head(inbox[s])
<1>1. inbox[s] \in Seq(Request) /\ inbox[s] # <<>> /\ inbox \in [All -> Seq(Request)]
  BY InPipes DEF McpInv, TypeOK, Answer
<1>2. /\ Tail(inbox[s]) \in Seq(Request) /\ r \in Request /\ r = inbox[s][1] /\ 1 \in 1 .. Len(inbox[s])
      /\ \A i \in 1 .. Len(Tail(inbox[s])) : i + 1 \in 1 .. Len(inbox[s]) /\ Tail(inbox[s])[i] = inbox[s][i + 1]
  BY <1>1, Popped
<1>3. inbox' = [inbox EXCEPT ![s] = Tail(@)] /\ call' = call /\ nextId' = nextId
  BY DEF Answer, clientVars
<1>4. PICK k \in {"answer", "error", "odd"} : Emit(s, [kind |-> k, id |-> r.id, of |-> r.n])
  BY DEF Answer
<1> DEFINE l == [kind |-> k, id |-> r.id, of |-> r.n]
<1>5. l \in Line
  BY <1>2 DEF Line, Request
<1>6. ASSUME NEW q \in All
      PROVE  \A i \in 1 .. Len(inbox'[q]) : \E j \in 1 .. Len(inbox[q]) : inbox'[q][i] = inbox[q][j]
  <2>1. CASE q = s
    <3>1. inbox'[q] = Tail(inbox[s])  BY <1>1, <1>3, <2>1
    <3> QED  BY <1>2, <2>1, <3>1
  <2>2. CASE q # s
    <3>1. inbox'[q] = inbox[q]  BY <1>1, <1>3, <2>2
    <3> QED  BY <3>1
  <2> QED  BY <2>1, <2>2
<1>7. \E i \in 1 .. Len(inbox[s]) : l.id = inbox[s][i].id /\ l.of = inbox[s][i].n
  BY <1>2
<1>8. out' \in [All -> Seq(Line)] /\ \A q \in All : Own(q)'
  <2> HIDE DEF l
  <2>1. Emit(s, l)  BY <1>4 DEF l
  <2> QED  BY <1>3, <1>5, <1>6, <1>7, <2>1, EmitKeeps
<1>9. inbox' \in [All -> Seq(Request)]
  BY <1>1, <1>2, <1>3
<1>10. TypeOK'
  BY <1>8, <1>9 DEF McpInv, TypeOK, Answer, clientVars
<1>11. Order' /\ AnswerIsOwn'
  BY DEF McpInv, Order, AnswerIsOwn, Answer
<1> QED  BY <1>8, <1>10, <1>11 DEF McpInv

LEMMA ChatterKeeps == ASSUME McpInv, NEW s \in All, Chatter(s) PROVE McpInv'
<1>1. PICK l \in {[kind |-> k, id |-> 0, of |-> 0] : k \in {"note", "junk"}}
                \union {[kind |-> "ask", id |-> i, of |-> 0] : i \in 1 .. nextId[s]} : Emit(s, l)
  BY DEF Chatter
<1>2. l \in Line /\ l.of = 0
  BY DEF Line
<1>3. call' = call /\ nextId' = nextId /\ inbox' = inbox
  BY DEF Chatter, clientVars
<1>4. out' \in [All -> Seq(Line)] /\ \A q \in All : Own(q)'
  BY <1>1, <1>2, <1>3, EmitKeeps
<1>5. noise' \in Nat
  BY DEF McpInv, TypeOK, Chatter
<1>6. TypeOK'
  BY <1>4, <1>5 DEF McpInv, TypeOK, Chatter, clientVars
<1>7. Order' /\ AnswerIsOwn'
  BY DEF McpInv, Order, AnswerIsOwn, Chatter
<1> QED  BY <1>4, <1>6, <1>7 DEF McpInv

\* The pipes of a server are emptied, and those of the others stay.
LEMMA EmptiedKeeps ==
  ASSUME McpInv, NEW s \in All, call' = call, nextId' = nextId, inbox' = [inbox EXCEPT ![s] = <<>>],
         out' = out \/ out' = [out EXCEPT ![s] = <<>>]
  PROVE  /\ inbox' \in [All -> Seq(Request)] /\ out' \in [All -> Seq(Line)]
         /\ \A r \in All : Own(r)'
<1>1. inbox \in [All -> Seq(Request)] /\ out \in [All -> Seq(Line)] /\ <<>> \in Seq(Request) /\ <<>> \in Seq(Line)
  BY EmptySeq DEF McpInv, TypeOK
<1>2. 1 .. Len(<<>>) = {}
  OBVIOUS
<1>3. ASSUME NEW r \in All PROVE Own(r)'
  <2>1. out'[r] = out[r] \/ out'[r] = <<>>  BY <1>1
  <2>2. inbox'[r] = inbox[r] \/ inbox'[r] = <<>>  BY <1>1
  <2> QED  BY <1>2, <2>1, <2>2, OwnKept DEF McpInv
<1> QED  BY <1>1, <1>3

LEMMA DieKeeps == ASSUME McpInv, NEW s \in All, Die(s) PROVE McpInv'
<1>1. inbox' \in [All -> Seq(Request)] /\ \A r \in All : Own(r)'
  BY EmptiedKeeps DEF Die, clientVars
<1>2. child' \in [All -> {"none", "up", "dead"}]
  BY DEF McpInv, TypeOK, Die
<1>3. TypeOK'
  BY <1>1, <1>2 DEF McpInv, TypeOK, Die, clientVars
<1>4. \A r \in All : child[r] = "none" => child'[r] = "none"
  BY DEF Die, McpInv, TypeOK
<1>5. Order' /\ AnswerIsOwn'
  BY <1>4 DEF McpInv, Order, AnswerIsOwn, Die
<1> QED  BY <1>1, <1>3, <1>5 DEF McpInv

LEMMA DisconnectKeeps == ASSUME McpInv, NEW s \in All, Disconnect(s) PROVE McpInv'
<1>1. /\ inbox' \in [All -> Seq(Request)] /\ out' \in [All -> Seq(Line)]
      /\ \A r \in All : Own(r)'
  BY EmptiedKeeps DEF Disconnect
<1>2. child' \in [All -> {"none", "up", "dead"}] /\ \A r \in All : r # s => child'[r] = child[r]
  BY DEF McpInv, TypeOK, Disconnect
<1>3. child'[s] = "none"
  BY DEF McpInv, TypeOK, Disconnect
<1>4. state' \in [All -> {"Disconnected", "Initializing", "Ready", "Error"}]
      /\ \A r \in All : r # s => state'[r] = state[r]
  BY DEF McpInv, TypeOK, Disconnect
<1>5. at = s /\ at' = at + 1 /\ at \in Nat
  BY DEF Disconnect, NextServer, McpInv, TypeOK
<1>6. \A t \in Threads : call'[t] # NoCall =>
        call'[t].on \in All /\ state'[call'[t].on] \in {"Initializing", "Ready"}
  BY <1>4 DEF Disconnect, Free, McpInv, TypeOK
<1>7. TypeOK'
  BY <1>1, <1>2, <1>4, <1>5, <1>6 DEF McpInv, TypeOK, Disconnect
<1>8. \A r \in All : r < at' => child'[r] = "none"
  <2>1. ASSUME NEW r \in All, r < at' PROVE r = s \/ r < at
    BY <1>5, <2>1 DEF All
  <2>2. \A r \in All : r < at => child[r] = "none"
    BY DEF McpInv, Order, Disconnect
  <2> QED  BY <1>2, <1>3, <2>1, <2>2
<1>9. Order' /\ AnswerIsOwn'
  BY <1>8 DEF McpInv, Order, AnswerIsOwn, Disconnect
<1> QED  BY <1>1, <1>7, <1>9 DEF McpInv

\* The steps that only move the program on.
LEMMA ProgramKeeps == ASSUME McpInv, Booted \/ Exit \/ Ended \/ UNCHANGED mcpVars PROVE McpInv'
<1>1. UNCHANGED <<clientVars, child, inbox, out, call, got, calls, noise>>
  BY DEF Booted, Exit, Ended, mcpVars
<1>2. prog' \in {"boot", "up", "ending", "ended", "terminated", "killed"} /\ at' \in Nat
  BY DEF Booted, Exit, Ended, mcpVars, McpInv, TypeOK
<1>3. TypeOK'
  BY <1>1, <1>2 DEF McpInv, TypeOK, clientVars
<1>4. \A r \in All : Own(r)'
  BY <1>1, OwnUnchanged DEF McpInv, clientVars
<1>5. Order'
  <2>1. CASE Booted  BY <1>1, <2>1 DEF McpInv, Order, Booted
  <2>2. CASE Exit
    <3>1. \A r \in All : ~(r < 1)  BY DEF All
    <3> QED  BY <1>1, <2>2, <3>1 DEF McpInv, Order, Exit
  <2>3. CASE Ended
    <3>1. \A r \in All : r < at  BY <2>3, ServersAssumption DEF Ended, All, McpInv, TypeOK
    <3> QED  BY <1>1, <2>3, <3>1 DEF McpInv, Order, Ended
  <2>4. CASE UNCHANGED mcpVars  BY <2>4 DEF McpInv, Order, mcpVars
  <2> QED  BY <2>1, <2>2, <2>3, <2>4
<1>6. AnswerIsOwn'
  BY <1>1 DEF McpInv, AnswerIsOwn
<1> QED  BY <1>3, <1>4, <1>5, <1>6 DEF McpInv

-----------------------------------------------------------------------------
(* The theorems.                                                           *)

\* The invariant holds in every state the client reaches, whatever servers do.
THEOREM McpInvariant == Spec => []McpInv
<1>1. McpInit => McpInv
  BY McpInitially
<1>2. McpInv /\ [Next]_mcpVars => McpInv'
  <2> SUFFICES ASSUME McpInv, [Next]_mcpVars PROVE McpInv'
    OBVIOUS
  <2>1. CASE MainStep
    <3>1. CASE Booted \/ Ended  BY <3>1, ProgramKeeps
    <3>2. CASE \E s \in All : Spawn(s) \/ Ask(s) \/ Connected(s) \/ Listed(s) \/ Disconnect(s)
      BY <3>2, SpawnKeeps, AskKeeps, ConnectedKeeps, ListedKeeps, DisconnectKeeps
    <3> QED  BY <2>1, <3>1, <3>2 DEF MainStep
  <2>2. CASE \E t \in Callers : Returned(t) \/ \E s \in All : Call(t, s)
    BY <2>2, ReturnedKeeps, CallKeeps
  <2>3. CASE \E t \in Threads : Skip(t)
    BY <2>3, SkipKeeps
  <2>4. CASE \E s \in All : Answer(s) \/ Chatter(s) \/ Die(s)
    BY <2>4, AnswerKeeps, ChatterKeeps, DieKeeps
  <2>5. CASE Exit \/ Halted \/ UNCHANGED mcpVars
    BY <2>5, ProgramKeeps DEF Halted
  <2> QED  BY <2>1, <2>2, <2>3, <2>4, <2>5 DEF Next, McpStep
<1> QED  BY <1>1, <1>2, PTL DEF Spec

\* Each variable has its type, and a call is under way only on a client whose transport is
\* there (McpClient.cpp, McpManager.cpp).
THEOREM McpTypeCorrect == Spec => []TypeOK
<1>1. McpInv => TypeOK
  BY DEF McpInv
<1> QED  BY <1>1, McpInvariant, PTL

\* Whatever the servers emit, and however many threads call, a call returns the text of its
\* own answer or none (McpClient::sendRequest).
THEOREM AnswersAreOwn == Spec => []AnswerIsOwn
<1>1. McpInv => AnswerIsOwn
  BY DEF McpInv
<1> QED  BY <1>1, McpInvariant, PTL

\* The ordinary end leaves no child behind, however many servers there are and whatever
\* became of them (McpManager::shutdownAll).
THEOREM ChildrenAreReaped == Spec => []ChildrenReaped
<1>1. McpInv => ChildrenReaped
  BY DEF McpInv, Order, ChildrenReaped
<1> QED  BY <1>1, McpInvariant, PTL

=============================================================================
