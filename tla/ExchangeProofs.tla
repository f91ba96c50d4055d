--------------------------- MODULE ExchangeProofs ---------------------------
(***************************************************************************)
(* Theorems about Exchange, for every number of calls, sizes of requests,  *)
(* replies and buffers, number of attempts and addresses, and number of    *)
(* times the server stops.                                                 *)
(***************************************************************************)
EXTENDS Exchange, SequenceTheorems, TLAPS

(* What holds of every connection by itself: who has what open, how far    *)
(* the two streams are, and what the server can have answered by then.     *)
ConnectionOK(k) ==
  /\ call[k] \in {"idle", "connect"} =>
       ~serverFd[k] /\ thread[k] = "none" /\ reqSent[k] = 0
  /\ clientFd[k] => call[k] \in {"send", "receive"}
  /\ thread[k] = "none" => reqGot[k] = 0
  /\ thread[k] \in {"none", "read", "dispatch"} =>
       repSent[k] = 0 /\ answer[k] = "none"
  /\ thread[k] = "done" => ~serverFd[k]
  /\ thread[k] \in {"dispatch", "reply"} => reqGot[k] = RequestLen(k)
  /\ call[k] = "send" => reqSent[k] < RequestLen(k)
  /\ call[k] = "receive" => reqSent[k] = RequestLen(k)
  /\ thread[k] = "read" => reqGot[k] < RequestLen(k)
  /\ reqGot[k] <= reqSent[k] /\ reqSent[k] <= RequestLen(k)
  /\ repGot[k] <= repSent[k] /\ repSent[k] <= ReplyLen
  /\ call[k] = "ok" => repSent[k] = ReplyLen /\ answer[k] = "reply"
  /\ answer[k] = "reply" => kind[k] \in Served

(* What relates the calls to one another: they follow one another, and the *)
(* log has the requests that were answered, each once.                     *)
OneByOne ==
  \A j, k \in Calls : j < k /\ call[k] # "idle" => Returned(j)

LogOK ==
  /\ \A k \in Calls : ActedOn(k) <=> answer[k] = "reply"
  /\ \A m, n \in DOMAIN log : log[m] = log[n] => m = n

ExchangeInv ==
  /\ TypeOK
  /\ \A k \in Calls : ConnectionOK(k)
  /\ OneByOne
  /\ LogOK
  /\ LateOnlyIfFailed

-----------------------------------------------------------------------------
LEMMA Lengths ==
  ASSUME kind \in [Calls -> Kind], NEW k \in Calls
  PROVE  /\ RequestLen(k) \in Nat /\ Size[kind[k]] \in Nat
         /\ ReplyLen \in Nat /\ ReplyLen > 0
         /\ Prefix \in Nat /\ Prefix > 0 /\ RequestLen(k) = Prefix + Size[kind[k]]
BY ExchangeAssumption DEF RequestLen, ReplyLen

(* A call that fails was running, and a connection the server closes had   *)
(* been made.                                                              *)
Failing(k) == ClientFails(k) /\ call[k] \in {"connect", "send", "receive"}
Closing(k) == CloseServer(k) /\ (serverFd[k] \/ thread[k] # "none")

ActionOf(k) ==
  \/ Begin(k) \/ Connect(k) \/ ConnectFails(k) \/ SendRequest(k)
  \/ ReceiveReply(k) \/ Failing(k) \/ Accept(k) \/ Closing(k)
  \/ ReadRequest(k) \/ Serve(k) \/ RejectRequest(k) \/ SendReply(k)
  \/ Break(k)

LEMMA Cases ==
  [Next]_vars =>
    UNCHANGED vars \/ StopServer \/ StartServer \/ \E k \in Calls : ActionOf(k)
BY DEF Next, ActionOf, Failing, Closing, ClientStep, ThreadStep, CallFails, Kill,
       AcceptFails, ReadFails, ReplyFails

(* Types. *)

LEMMA TypeStep ==
  ASSUME TypeOK, [Next]_vars
  PROVE  TypeOK'
<1>1. CASE UNCHANGED vars
  BY <1>1 DEF TypeOK, vars, clientVars, serverVars
<1>2. CASE StopServer
  <2>1. stops' \in 0 .. MaxStops
    BY <1>2, ExchangeAssumption DEF TypeOK, StopServer
  <2> QED
    BY <1>2, <2>1 DEF TypeOK, StopServer, clientVars
<1>3. CASE StartServer
  BY <1>3 DEF TypeOK, StartServer, clientVars, serverVars
<1>4. ASSUME NEW k \in Calls, ActionOf(k)
      PROVE  TypeOK'
  <2> USE DEF TypeOK, clientVars, serverVars, NoAddress
  <2>1. CASE Begin(k)
    BY <2>1 DEF Begin
  <2>2. CASE Connect(k)
    BY <2>2, ExchangeAssumption DEF Connect
  <2>3. CASE ConnectFails(k)
    <3>1. address' \in [Calls -> 1 .. Addresses]
      <4>1. Addresses \in Nat /\ 1 \in 1 .. Addresses
        BY ExchangeAssumption
      <4>2. address[k] < Addresses => address[k] + 1 \in 1 .. Addresses
        BY <4>1
      <4> QED
        BY <2>3, <4>1, <4>2 DEF ConnectFails
    <3>2. attempt' \in [Calls -> 0 .. Attempts - 1]
      <4>1. Attempts \in Nat /\ 0 \in 0 .. Attempts - 1
        BY ExchangeAssumption
      <4>2. attempt[k] + 1 < Attempts => attempt[k] + 1 \in 0 .. Attempts - 1
        BY <4>1
      <4> QED
        BY <2>3, <4>1, <4>2 DEF ConnectFails
    <3>3. call' \in [Calls -> {"idle", "connect", "send", "receive", "ok", "failed"}]
      BY <2>3 DEF ConnectFails
    <3> QED
      BY <2>3, <3>1, <3>2, <3>3 DEF ConnectFails
  <2>4. CASE SendRequest(k)
    <3>1. PICK n \in 1 .. Buffer : reqSent' = [reqSent EXCEPT ![k] = @ + n]
      BY <2>4 DEF SendRequest
    <3>2. reqSent[k] + n \in Nat
      BY <3>1, ExchangeAssumption
    <3> QED
      BY <2>4, <3>1, <3>2 DEF SendRequest
  <2>5. CASE ReceiveReply(k)
    <3>1. PICK n \in 1 .. Buffer : repGot' = [repGot EXCEPT ![k] = @ + n]
      BY <2>5 DEF ReceiveReply
    <3>2. repGot[k] + n \in Nat
      BY <3>1, ExchangeAssumption
    <3> QED
      BY <2>5, <3>1, <3>2 DEF ReceiveReply
  <2>6. CASE Failing(k)
    BY <2>6, ExchangeAssumption DEF Failing, ClientFails
  <2>7. CASE Accept(k)
    BY <2>7 DEF Accept
  <2>8. CASE Closing(k)
    BY <2>8 DEF Closing, CloseServer
  <2>9. CASE ReadRequest(k)
    <3>1. PICK n \in 1 .. Buffer : reqGot' = [reqGot EXCEPT ![k] = @ + n]
      BY <2>9 DEF ReadRequest
    <3>2. reqGot[k] + n \in Nat
      BY <3>1, ExchangeAssumption
    <3> QED
      BY <2>9, <3>1, <3>2 DEF ReadRequest
  <2>10. CASE Serve(k)
    <3>1. log' \in Seq(Calls)
      <4>1. log \in Seq(Calls)
        OBVIOUS
      <4>2. Append(log, k) \in Seq(Calls)
        BY <4>1, AppendProperties
      <4>3. log' = log \/ log' = Append(log, k)
        BY <2>10 DEF Serve
      <4> QED
        BY <4>1, <4>2, <4>3
    <3> QED
      BY <2>10, <3>1 DEF Serve
  <2>11. CASE RejectRequest(k)
    BY <2>11 DEF RejectRequest
  <2>12. CASE SendReply(k)
    <3>1. PICK n \in 1 .. Buffer : repSent' = [repSent EXCEPT ![k] = @ + n]
      BY <2>12 DEF SendReply
    <3>2. repSent[k] + n \in Nat
      BY <3>1, ExchangeAssumption
    <3> QED
      BY <2>12, <3>1, <3>2 DEF SendReply
  <2>13. CASE Break(k)
    BY <2>13 DEF Break
  <2> QED
    BY <1>4, <2>1, <2>2, <2>3, <2>4, <2>5, <2>6, <2>7, <2>8, <2>9, <2>10, <2>11,
       <2>12, <2>13 DEF ActionOf
<1> QED
  BY <1>1, <1>2, <1>3, <1>4, Cases

-----------------------------------------------------------------------------
(* Each connection by itself. *)

(* An action of call k concerns no other connection.                       *)
LEMMA Others ==
  ASSUME TypeOK, NEW k \in Calls, ActionOf(k), NEW j \in Calls, j # k
  PROVE  /\ call'[j] = call[j] /\ kind' = kind
         /\ clientFd'[j] = clientFd[j] /\ serverFd'[j] = serverFd[j]
         /\ reqSent'[j] = reqSent[j] /\ reqGot'[j] = reqGot[j]
         /\ repSent'[j] = repSent[j] /\ repGot'[j] = repGot[j]
         /\ thread'[j] = thread[j] /\ answer'[j] = answer[j]
         /\ address'[j] = address[j] /\ attempt'[j] = attempt[j]
<1> USE DEF TypeOK, clientVars, serverVars, NoAddress
<1>1. CASE Begin(k) \/ Connect(k) \/ ConnectFails(k)
  BY <1>1 DEF Begin, Connect, ConnectFails
<1>2. CASE SendRequest(k)
  BY <1>2 DEF SendRequest
<1>3. CASE ReceiveReply(k)
  BY <1>3 DEF ReceiveReply
<1>4. CASE Failing(k) \/ Accept(k) \/ Closing(k) \/ Break(k)
  BY <1>4 DEF Failing, ClientFails, Accept, Closing, CloseServer, Break
<1>5. CASE ReadRequest(k)
  BY <1>5 DEF ReadRequest
<1>6. CASE Serve(k) \/ RejectRequest(k)
  BY <1>6 DEF Serve, RejectRequest
<1>7. CASE SendReply(k)
  BY <1>7 DEF SendReply
<1> QED
  BY <1>1, <1>2, <1>3, <1>4, <1>5, <1>6, <1>7 DEF ActionOf

LEMMA OwnStep ==
  ASSUME TypeOK, NEW k \in Calls, ActionOf(k), ConnectionOK(k)
  PROVE  ConnectionOK(k)'
<1>0. /\ RequestLen(k) \in Nat /\ ReplyLen \in Nat /\ ReplyLen > 0
      /\ Prefix \in Nat /\ Prefix > 0 /\ RequestLen(k) = Prefix + Size[kind[k]]
      /\ Size[kind[k]] \in Nat
  BY Lengths DEF TypeOK
<1>k. kind' = kind /\ RequestLen(k)' = RequestLen(k) /\ ReplyLen' = ReplyLen
  BY DEF ActionOf, Begin, Connect, ConnectFails, SendRequest, ReceiveReply,
         Failing, ClientFails, Accept, Closing, CloseServer, ReadRequest, Serve,
         RejectRequest, SendReply, Break, clientVars, serverVars, RequestLen,
         ReplyLen
<1> DEFINE req == RequestLen(k)
           rep == ReplyLen
<1>r. req' = req /\ rep' = rep /\ req \in Nat /\ rep \in Nat /\ rep > 0
  BY <1>0, <1>k
<1>t. /\ call[k] \in {"idle", "connect", "send", "receive", "ok", "failed"}
      /\ clientFd[k] \in BOOLEAN /\ serverFd[k] \in BOOLEAN
      /\ reqSent[k] \in Nat /\ reqGot[k] \in Nat
      /\ repSent[k] \in Nat /\ repGot[k] \in Nat
      /\ thread[k] \in {"none", "read", "dispatch", "reply", "done"}
      /\ answer[k] \in {"none", "reply", "error"}
  BY DEF TypeOK
<1> USE <1>k, <1>r, <1>t DEF TypeOK, ConnectionOK, clientVars, serverVars, NoAddress
<1>1. CASE Begin(k)
  BY <1>1 DEF Begin
<1>2. CASE Connect(k)
  BY <1>2, <1>0 DEF Connect
<1>3. CASE ConnectFails(k)
  BY <1>3 DEF ConnectFails
<1>4. CASE SendRequest(k)
  <2>1. PICK n \in 1 .. Buffer :
          /\ reqSent[k] + n <= RequestLen(k)
          /\ reqSent' = [reqSent EXCEPT ![k] = @ + n]
          /\ call' = [call EXCEPT ![k] =
                       IF reqSent[k] + n = RequestLen(k) THEN "receive" ELSE @]
    BY <1>4 DEF SendRequest
  <2>2. n \in Nat /\ n > 0
    BY ExchangeAssumption
  <2>3. /\ call[k] = "send" /\ reqSent'[k] = reqSent[k] + n
        /\ call'[k] = IF reqSent[k] + n = RequestLen(k) THEN "receive" ELSE "send"
    BY <1>4, <2>1 DEF SendRequest
  <2>4. UNCHANGED <<clientFd, serverFd, reqGot, repSent, repGot, thread, answer>>
    BY <1>4 DEF SendRequest
  <2>5. reqSent[k] + n <= RequestLen(k) /\ reqGot[k] <= reqSent[k] + n
    BY <2>1, <2>2
  <2> HIDE DEF TypeOK
  <2> QED
    BY <1>0, <2>2, <2>3, <2>4, <2>5
<1>5. CASE ReceiveReply(k)
  BY <1>5 DEF ReceiveReply
<1>6. CASE Failing(k)
  BY <1>6 DEF Failing, ClientFails
<1>7. CASE Accept(k)
  BY <1>7, <1>0 DEF Accept
<1>8. CASE Closing(k)
  BY <1>8 DEF Closing, CloseServer
<1>9. CASE ReadRequest(k)
  <2>1. PICK n \in 1 .. Buffer :
          /\ reqGot[k] + n <= reqSent[k] /\ reqGot[k] + n <= Awaited(k)
          /\ reqGot' = [reqGot EXCEPT ![k] = @ + n]
          /\ thread' = [thread EXCEPT ![k] =
                         IF reqGot[k] + n = RequestLen(k) THEN "dispatch" ELSE @]
    BY <1>9 DEF ReadRequest
  <2>2. n \in Nat /\ n > 0 /\ Awaited(k) <= RequestLen(k)
    BY <1>0, ExchangeAssumption DEF Awaited
  <2>3. /\ thread[k] = "read" /\ reqGot'[k] = reqGot[k] + n
        /\ thread'[k] = IF reqGot[k] + n = RequestLen(k) THEN "dispatch" ELSE "read"
    BY <1>9, <2>1 DEF ReadRequest
  <2>4. UNCHANGED <<call, clientFd, serverFd, reqSent, repSent, repGot, answer>>
    BY <1>9 DEF ReadRequest
  <2>5. reqGot[k] + n <= RequestLen(k)
    BY <2>1, <2>2, <1>0 DEF Awaited
  <2>6. reqGot[k] + n <= reqSent[k]
    BY <2>1
  <2> HIDE DEF TypeOK
  <2> QED
    BY <1>0, <2>2, <2>3, <2>4, <2>5, <2>6
<1>10. CASE Serve(k)
  BY <1>10 DEF Serve
<1>11. CASE RejectRequest(k)
  BY <1>11 DEF RejectRequest
<1>12. CASE SendReply(k)
  BY <1>12 DEF SendReply
<1>13. CASE Break(k)
  BY <1>13 DEF Break
<1> QED
  BY <1>1, <1>2, <1>3, <1>4, <1>5, <1>6, <1>7, <1>8, <1>9, <1>10, <1>11, <1>12,
     <1>13 DEF ActionOf

LEMMA ConnectionStep ==
  ASSUME TypeOK, [Next]_vars, \A k \in Calls : ConnectionOK(k), NEW j \in Calls
  PROVE  ConnectionOK(j)'
<1>1. CASE UNCHANGED vars
  BY <1>1 DEF vars, clientVars, serverVars, ConnectionOK, RequestLen, ReplyLen
<1>2. CASE StopServer
  BY <1>2 DEF StopServer, TypeOK, clientVars, ConnectionOK, RequestLen, ReplyLen
<1>3. CASE StartServer
  BY <1>3 DEF StartServer, clientVars, serverVars, ConnectionOK, RequestLen,
              ReplyLen
<1>4. ASSUME NEW k \in Calls, ActionOf(k)
      PROVE  ConnectionOK(j)'
  <2>1. CASE j = k
    BY <1>4, <2>1, OwnStep
  <2>2. CASE j # k
    BY <1>4, <2>2, Others DEF ConnectionOK, RequestLen, ReplyLen
  <2> QED
    BY <2>1, <2>2
<1> QED
  BY <1>1, <1>2, <1>3, <1>4, Cases

-----------------------------------------------------------------------------
(* The calls together. *)

(* Only Serve appends to the log, and only it answers with a reply; a call *)
(* begins when all before it have returned, and never runs again.          *)
LEMMA Effects ==
  ASSUME TypeOK, \A k \in Calls : ConnectionOK(k), [Next]_vars
  PROVE  /\ \/ log' = log /\ \A j \in Calls : answer'[j] = "reply" <=> answer[j] = "reply"
            \/ \E k \in Calls :
                 /\ thread[k] = "dispatch" /\ answer[k] = "none"
                 /\ log' = Append(log, k)
                 /\ \A j \in Calls : answer'[j] = "reply" <=> j = k \/ answer[j] = "reply"
         /\ \A j \in Calls :
              /\ call[j] = "failed" => call'[j] = "failed"
              /\ Returned(j) => Returned(j)'
              /\ call[j] = "idle" /\ call'[j] # "idle" =>
                   \A i \in Calls : i < j => Returned(i)
<1>1. CASE UNCHANGED vars \/ StopServer \/ StartServer
  BY <1>1 DEF vars, clientVars, serverVars, StopServer, StartServer, Returned
<1>2. ASSUME NEW k \in Calls, ActionOf(k)
      PROVE  /\ \A j \in Calls :
                  /\ call[j] = "failed" => call'[j] = "failed"
                  /\ Returned(j) => Returned(j)'
                  /\ call[j] = "idle" /\ call'[j] # "idle" =>
                       \A i \in Calls : i < j => Returned(i)
  <2> SUFFICES /\ call[k] \in {"ok", "failed"} => call'[k] = call[k]
               /\ call[k] = "idle" /\ call'[k] # "idle" =>
                    \A i \in Calls : i < k => Returned(i)
    BY <1>2, Others DEF Returned
  <2> USE DEF TypeOK, clientVars, serverVars
  <2>1. CASE Begin(k)
    BY <2>1 DEF Begin
  <2>2. CASE Connect(k) \/ ConnectFails(k) \/ SendRequest(k) \/ ReceiveReply(k)
             \/ Failing(k)
    BY <2>2 DEF Connect, ConnectFails, SendRequest, ReceiveReply, Failing
  <2>3. CASE Accept(k) \/ Closing(k) \/ ReadRequest(k) \/ Serve(k)
             \/ RejectRequest(k) \/ SendReply(k) \/ Break(k)
    BY <2>3 DEF Accept, Closing, CloseServer, ReadRequest, Serve, RejectRequest,
                SendReply, Break
  <2> QED
    BY <1>2, <2>1, <2>2, <2>3 DEF ActionOf
<1>3. ASSUME NEW k \in Calls, ActionOf(k)
      PROVE  \/ log' = log /\ \A j \in Calls : answer'[j] = "reply" <=> answer[j] = "reply"
             \/ /\ thread[k] = "dispatch" /\ answer[k] = "none"
                /\ log' = Append(log, k)
                /\ \A j \in Calls : answer'[j] = "reply" <=> j = k \/ answer[j] = "reply"
  <2>1. CASE Serve(k)
    <3>1. answer[k] = "none" /\ thread[k] = "dispatch"
      BY <2>1 DEF Serve, ConnectionOK
    <3>2. CASE log' = Append(log, k) /\ answer' = [answer EXCEPT ![k] = "reply"]
      BY <3>1, <3>2 DEF TypeOK
    <3>3. CASE log' = log /\ answer' = [answer EXCEPT ![k] = "error"]
      BY <3>1, <3>3 DEF TypeOK
    <3> QED
      BY <2>1, <3>2, <3>3 DEF Serve
  <2>2. CASE RejectRequest(k)
    <3>1. answer[k] = "none"
      BY <2>2 DEF RejectRequest, ConnectionOK
    <3> QED
      BY <2>2, <3>1 DEF RejectRequest, TypeOK
  <2>3. CASE Begin(k) \/ Connect(k) \/ ConnectFails(k) \/ SendRequest(k)
             \/ ReceiveReply(k) \/ Failing(k) \/ Accept(k) \/ Closing(k)
             \/ ReadRequest(k) \/ SendReply(k) \/ Break(k)
    BY <2>3 DEF Begin, Connect, ConnectFails, SendRequest, ReceiveReply, Failing,
                ClientFails, Accept, Closing, CloseServer, ReadRequest, SendReply,
                Break, clientVars, serverVars
  <2> QED
    BY <1>3, <2>1, <2>2, <2>3 DEF ActionOf
<1> QED
  BY <1>1, <1>2, <1>3, Cases

LEMMA OneByOneStep ==
  ASSUME TypeOK, \A k \in Calls : ConnectionOK(k), OneByOne, [Next]_vars
  PROVE  OneByOne'
BY Effects DEF OneByOne

(* A call that the server has yet to answer cannot have returned well.     *)
LEMMA LogStep ==
  ASSUME ExchangeInv, [Next]_vars
  PROVE  LogOK' /\ LateOnlyIfFailed'
<1> USE DEF ExchangeInv
<1>1. log \in Seq(Calls) /\ Calls \subseteq Int
  BY DEF TypeOK, Calls
<1>2. CASE log' = log /\ \A j \in Calls : answer'[j] = "reply" <=> answer[j] = "reply"
  <2>1. LogOK'
    BY <1>2 DEF LogOK, ActedOn
  <2>2. \A n \in DOMAIN log : call[log[n]] = "failed" => call'[log[n]] = "failed"
    <3>1. \A n \in DOMAIN log : log[n] \in Calls
      BY <1>1
    <3>2. \A j \in Calls : call[j] = "failed" => call'[j] = "failed"
      BY Effects
    <3> QED
      BY <3>1, <3>2
  <2> QED
    BY <1>2, <2>1, <2>2 DEF LateOnlyIfFailed
<1>3. ASSUME NEW k \in Calls, thread[k] = "dispatch", answer[k] = "none",
             log' = Append(log, k),
             \A j \in Calls : answer'[j] = "reply" <=> j = k \/ answer[j] = "reply"
      PROVE  LogOK' /\ LateOnlyIfFailed'
  <2> DEFINE N == Len(log)
  <2>1. /\ N \in Nat /\ DOMAIN log = 1 .. N /\ DOMAIN log' = 1 .. N + 1
        /\ log'[N + 1] = k /\ \A n \in 1 .. N : log'[n] = log[n] /\ log[n] \in Calls
    BY <1>1, <1>3
  <2>2. \A n \in 1 .. N : log[n] # k
    BY <1>3, <2>1 DEF LogOK, ActedOn
  <2>3. LogOK'
    <3>1. \A j \in Calls : ActedOn(j)' <=> j = k \/ ActedOn(j)
      BY <2>1 DEF ActedOn
    <3>2. \A m, n \in 1 .. N + 1 : log'[m] = log'[n] => m = n
      BY <2>1, <2>2 DEF LogOK
    <3> QED
      BY <1>3, <2>1, <3>1, <3>2 DEF LogOK
  <2>4. \A n \in 1 .. N : k < log[n] => call[k] = "failed"
    <3> SUFFICES ASSUME NEW n \in 1 .. N, k < log[n]
                 PROVE  call[k] = "failed"
      OBVIOUS
    <3>1. log[n] \in Calls /\ answer[log[n]] = "reply"
      BY <2>1 DEF LogOK, ActedOn
    <3>2. call[log[n]] # "idle"
      BY <3>1 DEF ConnectionOK
    <3>3. Returned(k)
      BY <3>1, <3>2 DEF OneByOne
    <3> QED
      BY <1>3, <3>3 DEF Returned, ConnectionOK
  <2>5. \A j \in Calls : call[j] = "failed" => call'[j] = "failed"
    BY Effects
  <2>6. ASSUME NEW m \in 1 .. N + 1, NEW n \in 1 .. N + 1,
               m < n, log'[n] < log'[m]
        PROVE  call'[log'[n]] = "failed"
    <3>1. CASE n = N + 1
      BY <2>1, <2>4, <2>5, <2>6, <3>1
    <3>2. CASE n # N + 1
      <4>1. m \in 1 .. N /\ n \in 1 .. N
        BY <2>1, <2>6, <3>2
      <4>2. call[log[n]] = "failed"
        BY <2>1, <2>6, <4>1 DEF LateOnlyIfFailed
      <4> QED
        BY <2>1, <2>5, <4>1, <4>2
    <3> QED
      BY <3>1, <3>2
  <2> QED
    BY <2>1, <2>3, <2>6 DEF LateOnlyIfFailed
<1> QED
  BY <1>2, <1>3, Effects

-----------------------------------------------------------------------------
(* Theorems. *)

LEMMA ExchangeInvariant == Spec => []ExchangeInv
<1>1. Init => ExchangeInv
  <2> SUFFICES ASSUME Init
               PROVE  ExchangeInv
    OBVIOUS
  <2>1. TypeOK
    <3>1. /\ 1 \in 1 .. Addresses /\ 0 \in 0 .. Attempts - 1
          /\ 0 \in 0 .. MaxStops /\ << >> \in Seq(Calls)
      BY ExchangeAssumption
    <3> QED
      BY <3>1 DEF Init, TypeOK
  <2>2. ASSUME NEW k \in Calls
        PROVE  ConnectionOK(k)
    <3>1. kind \in [Calls -> Kind]
      BY DEF Init
    <3> QED
      BY <3>1, Lengths DEF Init, ConnectionOK
  <2>3. DOMAIN log = {}
    BY DEF Init
  <2> QED
    BY <2>1, <2>2, <2>3
       DEF Init, ExchangeInv, OneByOne, LogOK, LateOnlyIfFailed, ActedOn
<1>2. ExchangeInv /\ [Next]_vars => ExchangeInv'
  BY TypeStep, ConnectionStep, OneByOneStep, LogStep DEF ExchangeInv
<1> QED
  BY <1>1, <1>2, PTL DEF Spec

(* Every variable keeps its type; the number of attempts stays below its   *)
(* limit.                                                                  *)
THEOREM ExchangeTypes == Spec => []TypeOK
BY ExchangeInvariant, PTL DEF ExchangeInv

(* Whatever the sizes of reads and writes, requests are handled and        *)
(* replies taken only when they are whole.                                 *)
THEOREM WholeFrames == Spec => []FramesWhole
<1>1. ExchangeInv => FramesWhole
  <2> SUFFICES ASSUME ExchangeInv, NEW k \in Calls
               PROVE  /\ reqGot[k] <= reqSent[k] /\ repGot[k] <= repSent[k]
                      /\ thread[k] \in {"dispatch", "reply"} =>
                           reqSent[k] = RequestLen(k)
                      /\ call[k] = "ok" => repSent[k] = ReplyLen
    BY DEF FramesWhole
  <2>1. RequestLen(k) \in Nat /\ reqSent[k] \in Nat /\ reqGot[k] \in Nat
    BY Lengths DEF ExchangeInv, TypeOK
  <2> QED
    BY <2>1 DEF ExchangeInv, ConnectionOK
<1> QED
  BY <1>1, ExchangeInvariant, PTL

(* A request is acted on once at most, and before its call returns well.   *)
THEOREM OnceAtMost == Spec => []ActedAtMostOnce
<1>1. ExchangeInv => ActedAtMostOnce
  <2> SUFFICES ASSUME ExchangeInv
               PROVE  ActedAtMostOnce
    OBVIOUS
  <2>1. \A n \in DOMAIN log : log[n] \in Calls
    BY DEF ExchangeInv, TypeOK
  <2>2. \A n \in DOMAIN log : answer[log[n]] = "reply"
    BY <2>1 DEF ExchangeInv, LogOK, ActedOn
  <2>3. \A k \in Calls : answer[k] = "reply" => kind[k] \in Served
    BY DEF ExchangeInv, ConnectionOK
  <2>4. \A k \in Calls : call[k] = "ok" => ActedOn(k)
    BY DEF ExchangeInv, ConnectionOK, LogOK
  <2> QED
    BY <2>1, <2>2, <2>3, <2>4 DEF ExchangeInv, LogOK, ActedAtMostOnce
<1> QED
  BY <1>1, ExchangeInvariant, PTL

(* Requests take effect out of order only when the earlier call failed.    *)
THEOREM LateOnes == Spec => []LateOnlyIfFailed
BY ExchangeInvariant, PTL DEF ExchangeInv

(* No path of either program leaves a socket open.                         *)
THEOREM SocketsClosed == Spec => []NoSocketLeaks
<1>1. ExchangeInv => NoSocketLeaks
  <2> SUFFICES ASSUME ExchangeInv, NEW k \in Calls
               PROVE  /\ Returned(k) => ~clientFd[k]
                      /\ thread[k] = "done" => ~serverFd[k]
                      /\ \A j \in Calls : clientFd[j] /\ clientFd[k] => j = k
    BY DEF NoSocketLeaks
  <2>1. \A i, j \in Calls : i < j \/ j < i \/ i = j
    BY DEF Calls
  <2>2. \A j \in Calls : clientFd[j] => call[j] \in {"send", "receive"}
    BY DEF ExchangeInv, ConnectionOK
  <2>3. \A j \in Calls : clientFd[j] /\ clientFd[k] => j = k
    BY <2>1, <2>2 DEF ExchangeInv, OneByOne, Returned
  <2>4. thread[k] = "done" => ~serverFd[k]
    BY DEF ExchangeInv, ConnectionOK
  <2> QED
    BY <2>2, <2>3, <2>4 DEF Returned
<1> QED
  BY <1>1, ExchangeInvariant, PTL

(* The two ends of a connection never wait for each other: who still has   *)
(* to send has not sent what the other reads, and a buffer has room, so it *)
(* is not full and empty.                                                  *)
THEOREM NoStandOff == Spec => []NeverBothWait
<1>1. ExchangeInv => NeverBothWait
  <2> SUFFICES ASSUME ExchangeInv, NEW k \in Calls, ClientWaits(k), ThreadWaits(k)
               PROVE  FALSE
    BY DEF NeverBothWait
  <2>1. /\ RequestLen(k) \in Nat /\ reqSent[k] \in Nat /\ reqGot[k] \in Nat
        /\ repSent[k] \in Nat /\ repGot[k] \in Nat /\ Buffer \in Nat /\ Buffer > 0
    BY Lengths, ExchangeAssumption DEF ExchangeInv, TypeOK
  <2>2. ConnectionOK(k)
    BY DEF ExchangeInv
  <2>3. CASE call[k] = "send" /\ thread[k] = "read"
    BY <2>1, <2>3 DEF ClientWaits, ThreadWaits
  <2>4. CASE call[k] = "send" /\ thread[k] = "reply"
    BY <2>1, <2>2, <2>4 DEF ConnectionOK
  <2>5. CASE call[k] = "receive" /\ thread[k] = "read"
    BY <2>1, <2>2, <2>5 DEF ConnectionOK, ClientWaits, ThreadWaits
  <2>6. CASE call[k] = "receive" /\ thread[k] = "reply"
    BY <2>1, <2>6 DEF ClientWaits, ThreadWaits
  <2> QED
    BY <2>3, <2>4, <2>5, <2>6 DEF ClientWaits, ThreadWaits
<1> QED
  BY <1>1, ExchangeInvariant, PTL

-----------------------------------------------------------------------------
(* How much a call and a thread have left to do. *)

Tries(k) == (Addresses - address[k]) * Attempts + (Attempts - attempt[k])

ClientLeft(k) ==
  CASE call[k] = "connect" -> Tries(k) + RequestLen(k) + ReplyLen + 1
    [] call[k] = "send" -> (RequestLen(k) - reqSent[k]) + (ReplyLen - repGot[k]) + 1
    [] call[k] = "receive" -> (ReplyLen - repGot[k]) + 1
    [] OTHER -> 0

ThreadLeft(k) ==
  CASE thread[k] = "none" -> RequestLen(k) + ReplyLen + 4
    [] thread[k] = "read" -> (RequestLen(k) - reqGot[k]) + ReplyLen + 3
    [] thread[k] = "dispatch" -> ReplyLen + 2
    [] thread[k] = "reply" -> (ReplyLen - repSent[k]) + 1
    [] OTHER -> 0

LeftVars(k) == <<call[k], kind, address[k], attempt[k], reqSent[k], repGot[k]>>
DueVars(k) == <<thread[k], kind, reqGot[k], repSent[k]>>

LEMMA LeftStays ==
  ASSUME NEW k \in Calls
  PROVE  /\ UNCHANGED LeftVars(k) => ClientLeft(k)' = ClientLeft(k)
         /\ UNCHANGED DueVars(k) => ThreadLeft(k)' = ThreadLeft(k)
BY DEF LeftVars, DueVars, ClientLeft, ThreadLeft, Tries, RequestLen, ReplyLen

LEMMA Ranges ==
  ASSUME ExchangeInv, NEW k \in Calls
  PROVE  /\ RequestLen(k) \in Nat /\ ReplyLen \in Nat /\ ReplyLen > 0
         /\ reqSent[k] \in 0 .. RequestLen(k) /\ reqGot[k] \in 0 .. RequestLen(k)
         /\ repSent[k] \in 0 .. ReplyLen /\ repGot[k] \in 0 .. ReplyLen
         /\ Tries(k) \in Nat /\ Tries(k) > 0
<1>1. /\ RequestLen(k) \in Nat /\ ReplyLen \in Nat /\ ReplyLen > 0
      /\ reqSent[k] \in Nat /\ reqGot[k] \in Nat
      /\ repSent[k] \in Nat /\ repGot[k] \in Nat
  BY Lengths DEF ExchangeInv, TypeOK
<1>2. /\ reqGot[k] <= reqSent[k] /\ reqSent[k] <= RequestLen(k)
      /\ repGot[k] <= repSent[k] /\ repSent[k] <= ReplyLen
  BY DEF ExchangeInv, ConnectionOK
<1>3. /\ Addresses - address[k] \in Nat /\ Attempts \in Nat
      /\ Attempts - attempt[k] \in Nat /\ Attempts - attempt[k] > 0
  <2>1. address[k] \in 1 .. Addresses /\ attempt[k] \in 0 .. Attempts - 1
    BY DEF ExchangeInv, TypeOK
  <2> QED
    BY <2>1, ExchangeAssumption
<1>4. \A a, b, c \in Nat : c > 0 => a * b + c \in Nat /\ a * b + c > 0
  <2>1. \A a, b \in Nat : a * b \in Nat
    OBVIOUS
  <2> QED
    BY <2>1
<1> QED
  BY <1>1, <1>2, <1>3, <1>4 DEF Tries

LEMMA LeftNat ==
  ASSUME ExchangeInv, NEW k \in Calls
  PROVE  /\ ClientLeft(k) \in Nat /\ ThreadLeft(k) \in Nat
         /\ call[k] \in {"connect", "send", "receive"} => ClientLeft(k) > 0
         /\ thread[k] # "done" => ThreadLeft(k) > 0
<1>1. thread[k] \in {"none", "read", "dispatch", "reply", "done"}
  BY DEF ExchangeInv, TypeOK
<1> QED
  BY <1>1, Ranges DEF ClientLeft, ThreadLeft

(* An attempt, or an address, that is used up is not tried again.          *)
LEMMA TriesLess ==
  ASSUME ExchangeInv, NEW k \in Calls, ConnectFails(k), call'[k] = "connect"
  PROVE  Tries(k)' < Tries(k)
<1>1. /\ address[k] \in 1 .. Addresses /\ attempt[k] \in 0 .. Attempts - 1
      /\ Addresses \in Nat /\ Attempts \in Nat
      /\ call[k] = "connect" /\ DOMAIN call = Calls
      /\ DOMAIN address = Calls /\ DOMAIN attempt = Calls
  BY ExchangeAssumption DEF ExchangeInv, TypeOK, ConnectFails
<1> DEFINE a == Addresses - address[k]
           d == Attempts - attempt[k]
<1>2. a \in Nat /\ d \in Nat /\ d > 0 /\ a * Attempts \in Nat
  <2>1. a \in Nat /\ d \in Nat /\ d > 0
    BY <1>1
  <2>2. \A x, y \in Nat : x * y \in Nat
    OBVIOUS
  <2> QED
    BY <1>1, <2>1, <2>2
<1>3. CASE address' = address /\ attempt' = [attempt EXCEPT ![k] = @ + 1]
  <2>1. Tries(k)' = a * Attempts + (Attempts - (attempt[k] + 1))
    BY <1>1, <1>3 DEF Tries
  <2>2. Attempts - (attempt[k] + 1) = d - 1
    BY <1>1
  <2> HIDE DEF a, d
  <2>3. a * Attempts + (d - 1) < a * Attempts + d
    BY <1>2
  <2> QED
    BY <2>1, <2>2, <2>3 DEF Tries, a, d
<1>4. CASE /\ address' = [address EXCEPT ![k] = @ + 1]
           /\ attempt' = [attempt EXCEPT ![k] = 0]
           /\ address[k] < Addresses
  <2>1. Tries(k)' = (Addresses - (address[k] + 1)) * Attempts + Attempts
    BY <1>1, <1>4 DEF Tries
  <2>2. Addresses - (address[k] + 1) = a - 1 /\ a - 1 \in Nat
    BY <1>1, <1>4
  <2>3. \A x, y \in Nat : x * y + y = (x + 1) * y
    OBVIOUS
  <2>4. (a - 1) * Attempts + Attempts = (a - 1 + 1) * Attempts
    BY <1>1, <2>2, <2>3
  <2>5. a - 1 + 1 = a
    BY <1>2
  <2>6. Tries(k)' = a * Attempts
    BY <2>1, <2>2, <2>4, <2>5
  <2> HIDE DEF a, d
  <2>7. a * Attempts < a * Attempts + d
    BY <1>2
  <2> QED
    BY <2>6, <2>7 DEF Tries, a, d
<1> QED
  <2>1. call' # [call EXCEPT ![k] = "failed"]
    BY <1>1
  <2> QED
    BY <1>3, <1>4, <2>1 DEF ConnectFails

LEMMA ClientLowers ==
  ASSUME ExchangeInv, NEW k \in Calls, ClientStep(k) \/ Failing(k)
  PROVE  /\ ClientLeft(k)' < ClientLeft(k) /\ ClientLeft(k)' <= ClientLeft(k)
         /\ ThreadLeft(k)' = ThreadLeft(k)
<1>0. /\ RequestLen(k) \in Nat /\ ReplyLen \in Nat /\ ReplyLen > 0
      /\ reqSent[k] \in 0 .. RequestLen(k) /\ repGot[k] \in 0 .. ReplyLen
      /\ Tries(k) \in Nat /\ Tries(k) > 0
  BY Ranges
<1>1. \/ Connect(k) \/ ConnectFails(k) \/ SendRequest(k) \/ ReceiveReply(k)
      \/ Failing(k)
  BY DEF ClientStep, CallFails, Failing
<1>2. ThreadLeft(k)' = ThreadLeft(k)
  BY <1>1, LeftStays DEF Connect, ConnectFails, SendRequest, ReceiveReply,
     Failing, ClientFails, clientVars, serverVars, DueVars
<1>3. kind' = kind /\ RequestLen(k)' = RequestLen(k) /\ ReplyLen' = ReplyLen
  BY <1>1 DEF Connect, ConnectFails, SendRequest, ReceiveReply, Failing,
     ClientFails, clientVars, serverVars, RequestLen, ReplyLen
<1>4. /\ DOMAIN call = Calls /\ DOMAIN reqSent = Calls /\ DOMAIN repGot = Calls
      /\ Buffer \in Nat
  BY ExchangeAssumption DEF ExchangeInv, TypeOK
<1>5. CASE Connect(k)
  <2>1. /\ call[k] = "connect" /\ call'[k] = "send"
        /\ reqSent' = reqSent /\ repGot' = repGot
    BY <1>4, <1>5 DEF Connect
  <2> QED
    BY <1>0, <1>2, <1>3, <2>1 DEF ClientLeft
<1>6. CASE ConnectFails(k)
  <2>1. call[k] = "connect" /\ call'[k] \in {"connect", "failed"}
    BY <1>4, <1>6 DEF ConnectFails
  <2>2. CASE call'[k] = "failed"
    BY <1>0, <1>2, <2>1, <2>2 DEF ClientLeft
  <2>3. CASE call'[k] = "connect"
    <3>1. Tries(k)' < Tries(k)
      BY <1>6, <2>3, TriesLess
    <3>2. Tries(k)' \in Int
      <4>1. \A x, y \in Int : x * y \in Int
        OBVIOUS
      <4>2. address'[k] \in Int /\ attempt'[k] \in Int
        BY <1>6, ExchangeAssumption DEF ConnectFails, ExchangeInv, TypeOK, NoAddress
      <4>3. Addresses - address'[k] \in Int /\ Attempts \in Int
        BY <4>2, ExchangeAssumption
      <4>4. (Addresses - address'[k]) * Attempts \in Int
        BY <4>1, <4>3
      <4> QED
        BY <4>2, <4>3, <4>4 DEF Tries
    <3> QED
      BY <1>0, <1>2, <1>3, <2>1, <2>3, <3>1, <3>2 DEF ClientLeft
  <2> QED
    BY <2>1, <2>2, <2>3
<1>7. CASE SendRequest(k)
  <2>1. PICK n \in 1 .. Buffer :
          /\ reqSent[k] + n <= RequestLen(k)
          /\ reqSent'[k] = reqSent[k] + n
          /\ call'[k] = IF reqSent[k] + n = RequestLen(k) THEN "receive" ELSE "send"
    BY <1>4, <1>7 DEF SendRequest
  <2>2. call[k] = "send" /\ repGot' = repGot /\ n \in Nat /\ n > 0
    BY <1>4, <1>7 DEF SendRequest
  <2> QED
    BY <1>0, <1>2, <1>3, <2>1, <2>2 DEF ClientLeft
<1>8. CASE ReceiveReply(k)
  <2>1. PICK n \in 1 .. Buffer :
          /\ repGot[k] + n <= repSent[k]
          /\ repGot'[k] = repGot[k] + n
          /\ call'[k] \in {"receive", "ok", "failed"}
    BY <1>4, <1>8 DEF ReceiveReply
  <2>2. call[k] = "receive" /\ n \in Nat /\ n > 0 /\ repSent[k] \in 0 .. ReplyLen
    BY <1>4, <1>8, Ranges DEF ReceiveReply
  <2> QED
    BY <1>0, <1>2, <1>3, <2>1, <2>2 DEF ClientLeft
<1>9. CASE Failing(k)
  <2>1. call'[k] = "failed" /\ call[k] \in {"connect", "send", "receive"}
    BY <1>4, <1>9 DEF Failing, ClientFails
  <2> QED
    BY <1>2, <2>1, LeftNat DEF ClientLeft
<1> QED
  BY <1>1, <1>5, <1>6, <1>7, <1>8, <1>9

LEMMA ThreadLowers ==
  ASSUME ExchangeInv, NEW k \in Calls, ThreadStep(k)
  PROVE  /\ ThreadLeft(k)' < ThreadLeft(k) /\ ThreadLeft(k)' <= ThreadLeft(k)
         /\ ClientLeft(k)' = ClientLeft(k)
<1>0. /\ RequestLen(k) \in Nat /\ ReplyLen \in Nat /\ ReplyLen > 0
      /\ reqGot[k] \in 0 .. RequestLen(k) /\ repSent[k] \in 0 .. ReplyLen
  BY Ranges
<1>1. \/ Accept(k) \/ ReadRequest(k) \/ Serve(k) \/ RejectRequest(k)
      \/ SendReply(k)
      \/ CloseServer(k) /\ thread[k] # "done"
  BY DEF ThreadStep, AcceptFails, ReadFails, ReplyFails
<1>2. ClientLeft(k)' = ClientLeft(k)
  BY <1>1, LeftStays DEF Accept, ReadRequest, Serve, RejectRequest, SendReply,
     CloseServer, clientVars, LeftVars
<1>3. kind' = kind /\ RequestLen(k)' = RequestLen(k) /\ ReplyLen' = ReplyLen
  BY <1>1 DEF Accept, ReadRequest, Serve, RejectRequest, SendReply, CloseServer,
     clientVars, RequestLen, ReplyLen
<1>4. /\ DOMAIN thread = Calls /\ DOMAIN reqGot = Calls /\ DOMAIN repSent = Calls
      /\ Buffer \in Nat
  BY ExchangeAssumption DEF ExchangeInv, TypeOK
<1>5. CASE Accept(k)
  <2>1. thread[k] = "none" /\ thread'[k] = "read" /\ reqGot' = reqGot
    BY <1>4, <1>5 DEF Accept
  <2> QED
    BY <1>0, <1>2, <1>3, <2>1 DEF ThreadLeft
<1>6. CASE ReadRequest(k)
  <2>1. PICK n \in 1 .. Buffer :
          /\ reqGot[k] + n <= reqSent[k]
          /\ reqGot'[k] = reqGot[k] + n
          /\ thread'[k] = IF reqGot[k] + n = RequestLen(k) THEN "dispatch" ELSE "read"
    BY <1>4, <1>6 DEF ReadRequest
  <2>2. /\ thread[k] = "read" /\ n \in Nat /\ n > 0
        /\ reqSent[k] \in 0 .. RequestLen(k)
    BY <1>4, <1>6, Ranges DEF ReadRequest
  <2> QED
    BY <1>0, <1>2, <1>3, <2>1, <2>2 DEF ThreadLeft
<1>7. CASE Serve(k) \/ RejectRequest(k)
  <2>1. thread[k] = "dispatch" /\ thread'[k] = "reply" /\ repSent' = repSent
    BY <1>4, <1>7 DEF Serve, RejectRequest
  <2> QED
    BY <1>0, <1>2, <1>3, <2>1 DEF ThreadLeft
<1>8. CASE SendReply(k)
  <2>1. PICK n \in 1 .. Buffer :
          /\ repSent[k] + n <= ReplyLen
          /\ repSent'[k] = repSent[k] + n
          /\ thread'[k] \in {"reply", "done"}
    BY <1>4, <1>8 DEF SendReply
  <2>2. thread[k] = "reply" /\ n \in Nat /\ n > 0
    BY <1>4, <1>8 DEF SendReply
  <2> QED
    BY <1>0, <1>2, <1>3, <2>1, <2>2 DEF ThreadLeft
<1>9. CASE CloseServer(k) /\ thread[k] # "done"
  <2>1. thread'[k] = "done"
    BY <1>4, <1>9 DEF CloseServer
  <2> QED
    BY <1>2, <1>9, <2>1, LeftNat DEF ThreadLeft
<1> QED
  BY <1>1, <1>5, <1>6, <1>7, <1>8, <1>9

StepOf(k) == Begin(k) \/ ClientStep(k) \/ ThreadStep(k) \/ Kill(k) \/ Break(k)

LEMMA StepCases ==
  ASSUME NEW k \in Calls, StepOf(k)
  PROVE  ActionOf(k)
BY DEF StepOf, ActionOf, Failing, Closing, ClientStep, ThreadStep, CallFails, Kill,
       AcceptFails, ReadFails, ReplyFails

(* What a step does to the work that is left at a connection.              *)
RunsDown(k) ==
  /\ ClientLeft(k) \in Nat /\ ThreadLeft(k) \in Nat
  /\ ClientStep(k) => ClientLeft(k)' < ClientLeft(k)
  /\ ThreadStep(k) => ThreadLeft(k)' < ThreadLeft(k)
  /\ Begin(k) \/ ClientLeft(k)' <= ClientLeft(k)
  /\ ThreadLeft(k)' <= ThreadLeft(k)

(* Every step of a call lowers a number that only its start raises, and    *)
(* every step of a thread one that nothing raises, whatever breaks, stops  *)
(* or is interleaved: a call retries, sends and receives finitely often,   *)
(* and can end otherwise than returned only by waiting.                    *)
THEOREM WorkRunsDown == Spec => [][\A k \in Calls : RunsDown(k)]_vars
<1>1. ASSUME ExchangeInv, [Next]_vars
      PROVE  [\A k \in Calls : RunsDown(k)]_vars
  <2>1. CASE UNCHANGED vars
    BY <2>1
  <2>2. ASSUME Next, NEW k \in Calls
        PROVE  RunsDown(k)
    <3>1. ClientLeft(k) \in Nat /\ ThreadLeft(k) \in Nat
      BY <1>1, LeftNat
    <3>2. ClientStep(k) => ClientLeft(k)' < ClientLeft(k)
      BY <1>1, ClientLowers
    <3>3. ThreadStep(k) => ThreadLeft(k)' < ThreadLeft(k)
      BY <1>1, ThreadLowers
    <3>4. /\ UNCHANGED LeftVars(k) => ClientLeft(k)' <= ClientLeft(k)
          /\ UNCHANGED DueVars(k) => ThreadLeft(k)' <= ThreadLeft(k)
      BY <3>1, LeftStays
    <3>5. /\ Begin(k) \/ ClientLeft(k)' <= ClientLeft(k)
          /\ ThreadLeft(k)' <= ThreadLeft(k)
      <4>1. CASE StartServer
        BY <4>1, <3>4 DEF StartServer, clientVars, serverVars, LeftVars, DueVars
      <4>2. CASE StopServer
        <5>1. UNCHANGED LeftVars(k)
          BY <4>2 DEF StopServer, clientVars, LeftVars
        <5>2. \/ UNCHANGED DueVars(k)
              \/ ThreadLeft(k)' = 0
          BY <4>2 DEF StopServer, clientVars, DueVars, ThreadLeft
        <5> QED
          BY <3>1, <3>4, <5>1, <5>2
      <4>3. ASSUME NEW j \in Calls, j # k, StepOf(j)
            PROVE  UNCHANGED LeftVars(k) /\ UNCHANGED DueVars(k)
        BY <1>1, <4>3, StepCases, Others DEF ExchangeInv, LeftVars, DueVars
      <4>4. CASE Begin(k)
        BY <4>4, <3>4 DEF Begin, serverVars, DueVars
      <4>5. CASE Break(k)
        BY <4>5, <3>4 DEF Break, clientVars, serverVars, LeftVars, DueVars
      <4>6. CASE ClientStep(k) \/ Failing(k)
        BY <1>1, <3>1, <4>6, ClientLowers
      <4>7. CASE ThreadStep(k)
        BY <1>1, <3>1, <4>7, ThreadLowers
      <4>8. Kill(k) => Failing(k)
        BY DEF Kill, Failing
      <4>9. ASSUME NEW j \in Calls, StepOf(j)
            PROVE  /\ Begin(k) \/ ClientLeft(k)' <= ClientLeft(k)
                   /\ ThreadLeft(k)' <= ThreadLeft(k)
        BY <3>4, <4>3, <4>4, <4>5, <4>6, <4>7, <4>8, <4>9 DEF StepOf
      <4> QED
        BY <2>2, <4>1, <4>2, <4>9 DEF Next, StepOf
    <3> QED
      BY <3>1, <3>2, <3>3, <3>5 DEF RunsDown
  <2> QED
    BY <1>1, <2>1, <2>2
<1> QED
  BY <1>1, ExchangeInvariant, PTL DEF Spec

-----------------------------------------------------------------------------
(* What Rpc sees of a call. *)

Status ==
  [k \in Calls |->
     IF call[k] \in {"connect", "send", "receive"} THEN "pending" ELSE call[k]]

LEMMA PromiseOf ==
  /\ Promise!vars = <<Status, log>>
  /\ \A k \in Calls : Promise!ActedOn(k) <=> ActedOn(k)
BY DEF Promise!vars, Promise!ActedOn, ActedOn, Status

(* A step at one call changes the status of at most that one.              *)
LEMMA StatusStep ==
  ASSUME TypeOK, NEW k \in Calls, call' = [call EXCEPT ![k] = call'[k]]
  PROVE  Status' = [Status EXCEPT
           ![k] = IF call'[k] \in {"connect", "send", "receive"} THEN "pending"
                  ELSE call'[k]]
BY DEF Status, TypeOK

LEMMA CallSteps ==
  ASSUME ExchangeInv, ExchangeInv', NEW k \in Calls, ActionOf(k), ~Serve(k)
  PROVE  [Promise!Next]_(Promise!vars)
<1> DEFINE Running == {"connect", "send", "receive"}
<1>1. log' = log
  BY DEF ActionOf, Begin, Connect, ConnectFails, SendRequest, ReceiveReply,
         Failing, ClientFails, Accept, Closing, CloseServer, ReadRequest,
         RejectRequest, SendReply, Break, clientVars, serverVars
<1>2. \/ call' = call
      \/ Begin(k) /\ call' = [call EXCEPT ![k] = "connect"]
      \/ call[k] \in Running /\ call'[k] \in Running \cup {"ok", "failed"}
         /\ call' = [call EXCEPT ![k] = call'[k]]
  <2> USE DEF ExchangeInv, TypeOK, clientVars, serverVars
  <2>1. CASE Begin(k) \/ Connect(k) \/ ConnectFails(k)
    BY <2>1 DEF Begin, Connect, ConnectFails
  <2>2. CASE SendRequest(k) \/ Failing(k)
    BY <2>2 DEF SendRequest, Failing, ClientFails
  <2>3. CASE ReceiveReply(k)
    BY <2>3 DEF ReceiveReply
  <2>4. CASE Accept(k) \/ Closing(k) \/ ReadRequest(k) \/ RejectRequest(k)
             \/ SendReply(k) \/ Break(k)
    BY <2>4 DEF Accept, Closing, CloseServer, ReadRequest, RejectRequest,
                SendReply, Break
  <2> QED
    BY <2>1, <2>2, <2>3, <2>4 DEF ActionOf
<1>3. CASE call' = call
  BY <1>1, <1>3, PromiseOf DEF Status, Promise!vars
<1>4. CASE Begin(k) /\ call' = [call EXCEPT ![k] = "connect"]
  <2>1. Status' = [Status EXCEPT ![k] = "pending"] /\ Status[k] = "idle"
    BY <1>4, StatusStep DEF ExchangeInv, TypeOK, Begin, Status
  <2>2. \A j \in Calls : j < k => Status[j] \in {"ok", "failed"}
    BY <1>4 DEF Begin, Returned, Status
  <2>3. Promise!Call(k)
    BY <1>1, <2>1, <2>2 DEF Promise!Call, Status
  <2> QED
    BY <2>3 DEF Promise!Next
<1>5. CASE call[k] \in Running /\ call'[k] \in Running
           /\ call' = [call EXCEPT ![k] = call'[k]]
  <2>1. Status' = Status
    BY <1>5 DEF ExchangeInv, TypeOK, Status
  <2> QED
    BY <1>1, <2>1 DEF Promise!vars, Status
<1>6. CASE call[k] \in Running /\ call'[k] \in {"ok", "failed"}
           /\ call' = [call EXCEPT ![k] = call'[k]]
  <2>1. Status[k] = "pending" /\ Status' = [Status EXCEPT ![k] = call'[k]]
    BY <1>6, StatusStep DEF ExchangeInv, Status
  <2>2. CASE call'[k] = "failed"
    <3>1. Promise!Fail(k)
      BY <1>1, <2>1, <2>2 DEF Promise!Fail, Status
    <3> QED
      BY <3>1 DEF Promise!Next
  <2>3. CASE call'[k] = "ok"
    <3>1. ActedOn(k)'
      BY <2>3 DEF ExchangeInv, ConnectionOK, LogOK
    <3>2. Promise!ActedOn(k)
      BY <1>1, <3>1, PromiseOf DEF ActedOn
    <3>3. Promise!Succeed(k)
      BY <1>1, <2>1, <2>3, <3>2 DEF Promise!Succeed, Status
    <3> QED
      BY <3>3 DEF Promise!Next
  <2> QED
    BY <1>6, <2>2, <2>3
<1> QED
  BY <1>2, <1>3, <1>4, <1>5, <1>6

LEMMA ServeActs ==
  ASSUME ExchangeInv, NEW k \in Calls, Serve(k)
  PROVE  [Promise!Next]_(Promise!vars)
<1>1. call' = call /\ Status' = Status
  BY DEF Serve, clientVars, Status
<1>2. CASE log' = log
  BY <1>1, <1>2 DEF Promise!vars, Status
<1>3. CASE log' = Append(log, k)
  <2>1. Status[k] \in {"pending", "failed"}
    BY DEF ExchangeInv, TypeOK, ConnectionOK, Serve, Status
  <2>2. ~ActedOn(k)
    BY DEF ExchangeInv, ConnectionOK, LogOK, Serve
  <2>3. Promise!Act(k)
    BY <1>1, <1>3, <2>1, <2>2, PromiseOf DEF Promise!Act, Status
  <2> QED
    BY <2>3 DEF Promise!Next
<1> QED
  BY <1>2, <1>3 DEF Serve

(* The calls of a client implement Rpc: frames, retries and failures on    *)
(* either side are hidden, a request that is served is acted on in one     *)
(* step, and a call returns well or fails in one.                          *)
THEOREM ExchangeRefinement == Spec => ImplementsRpc
<1>1. Init => Promise!Init
  BY DEF Init, Promise!Init
<1>2. ExchangeInv /\ ExchangeInv' /\ [Next]_vars => [Promise!Next]_(Promise!vars)
  <2> SUFFICES ASSUME ExchangeInv, ExchangeInv', [Next]_vars
               PROVE  [Promise!Next]_(Promise!vars)
    OBVIOUS
  <2>1. CASE UNCHANGED vars \/ StopServer \/ StartServer
    BY <2>1 DEF vars, clientVars, serverVars, StopServer, StartServer,
                Promise!vars
  <2>2. ASSUME NEW k \in Calls, ActionOf(k)
        PROVE  [Promise!Next]_(Promise!vars)
    BY <2>2, CallSteps, ServeActs
  <2> QED
    BY <2>1, <2>2, Cases
<1> QED
  BY <1>1, <1>2, ExchangeInvariant, PTL DEF Spec, ImplementsRpc, Promise!Spec

=============================================================================
