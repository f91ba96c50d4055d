------------------------------ MODULE Exchange ------------------------------
(***************************************************************************)
(* The calls of a client to the central server: connecting with retries,   *)
(* frames with a length in front over TCP in pieces of any size            *)
(* (common/net.c), server_register_files() and server_find_files() with    *)
(* their checks (client/server_api.c), and the acceptor and a thread per   *)
(* connection at the server (server/query_handler.c).                      *)
(*                                                                         *)
(* Call k uses connection k.  Bytes are counted, not copied: a stream is   *)
(* the number of bytes sent and the number received.                       *)
(***************************************************************************)
EXTENDS Integers, Sequences

CONSTANTS
  MaxCalls,
  Kind,         \* kinds of requests
  Served,       \* those the server serves: REGISTER_REQ and FIND_REQ
  Size,         \* [Kind -> Nat]: bytes of a request after its length
  Capacity,     \* sizeof(request_frame_t)
  ReplySize,    \* bytes of a reply after its length
  Prefix,       \* bytes of the length
  Buffer,       \* bytes that a connection holds in each direction
  Attempts,     \* NET_CONNECT_ATTEMPTS
  Addresses,    \* the numeric address, then those getaddrinfo() returns
  MaxStops      \* times the server stops

Calls == 1 .. MaxCalls

ASSUME ExchangeAssumption ==
  /\ MaxCalls \in Nat /\ MaxStops \in Nat
  /\ Served \subseteq Kind
  /\ Size \in [Kind -> Nat] /\ Capacity \in Nat /\ ReplySize \in Nat
  /\ \A kind \in Served : Size[kind] <= Capacity
  /\ Prefix \in Nat \ {0} /\ Buffer \in Nat \ {0}
  /\ Attempts \in Nat \ {0} /\ Addresses \in Nat \ {0}

VARIABLES
  call,      \* where the console is in call k
  kind,      \* the kind of its request
  address,   \* the address it connects to
  attempt,   \* and how often it has tried that one
  clientFd,  \* whether the client's socket is open
  serverFd,  \* whether the server's is; from connect() on
  broken,    \* the connections that were reset
  reqSent, reqGot,   \* bytes of the request
  repSent, repGot,   \* bytes of the reply
  thread,    \* the server's thread of connection k
  answer,    \* what it answers
  up,        \* whether the server runs
  stops,
  log        \* the requests the server has acted on, in order

clientVars == <<call, kind, address, attempt, clientFd, reqSent, repGot>>
serverVars == <<serverFd, reqGot, repSent, thread, answer, log>>
vars == <<clientVars, serverVars, broken, up, stops>>

Returned(k) == call[k] \in {"ok", "failed"}

Init ==
  /\ call = [k \in Calls |-> "idle"]
  /\ kind \in [Calls -> Kind]
  /\ address = [k \in Calls |-> 1]
  /\ attempt = [k \in Calls |-> 0]
  /\ clientFd = [k \in Calls |-> FALSE]
  /\ serverFd = [k \in Calls |-> FALSE]
  /\ broken = {}
  /\ reqSent = [k \in Calls |-> 0]
  /\ reqGot = [k \in Calls |-> 0]
  /\ repSent = [k \in Calls |-> 0]
  /\ repGot = [k \in Calls |-> 0]
  /\ thread = [k \in Calls |-> "none"]
  /\ answer = [k \in Calls |-> "none"]
  /\ up = TRUE
  /\ stops = 0
  /\ log = << >>

RequestLen(k) == Prefix + Size[kind[k]]
ReplyLen == Prefix + ReplySize

-----------------------------------------------------------------------------
(* The client. *)

Begin(k) ==
  /\ call[k] = "idle"
  /\ \A j \in Calls : j < k => Returned(j)
  /\ call' = [call EXCEPT ![k] = "connect"]
  /\ UNCHANGED <<kind, address, attempt, clientFd, reqSent, repGot, serverVars,
                 broken, up, stops>>

(* The locals of net_connect() end with it.                                *)
NoAddress(k) ==
  /\ address' = [address EXCEPT ![k] = 1]
  /\ attempt' = [attempt EXCEPT ![k] = 0]

(* The kernel of the server takes the connection into its backlog.         *)
Connect(k) ==
  /\ call[k] = "connect"
  /\ up
  /\ call' = [call EXCEPT ![k] = "send"]
  /\ clientFd' = [clientFd EXCEPT ![k] = TRUE]
  /\ serverFd' = [serverFd EXCEPT ![k] = TRUE]
  /\ NoAddress(k)
  /\ UNCHANGED <<kind, reqSent, repGot, reqGot, repSent, thread, answer, log,
                 broken, up, stops>>

(* Mutant: one attempt too many.                                           *)
ConnectFailsLate(k) ==
  /\ call[k] = "connect"
  /\ attempt[k] + 1 <= Attempts
  /\ attempt' = [attempt EXCEPT ![k] = @ + 1]
  /\ UNCHANGED <<call, address, kind, clientFd, reqSent, repGot, serverVars,
                 broken, up, stops>>

(* connect() fails, and its socket is closed: after an error that may pass *)
(* the address is tried again, then (or after any other error) the next,   *)
(* and in the end net_connect() fails.                                     *)
ConnectFails(k) ==
  /\ call[k] = "connect"
  /\ \/ /\ attempt[k] + 1 < Attempts
        /\ attempt' = [attempt EXCEPT ![k] = @ + 1]
        /\ UNCHANGED <<call, address>>
     \/ /\ address[k] < Addresses
        /\ address' = [address EXCEPT ![k] = @ + 1]
        /\ attempt' = [attempt EXCEPT ![k] = 0]
        /\ UNCHANGED call
     \/ /\ call' = [call EXCEPT ![k] = "failed"]
        /\ NoAddress(k)
  /\ UNCHANGED <<kind, clientFd, reqSent, repGot, serverVars, broken, up,
                 stops>>

(* Mutant: the call returns without waiting for the reply.                 *)
SendOnly(k) ==
  /\ call[k] = "send"
  /\ k \notin broken
  /\ \E n \in 1 .. Buffer :
       /\ reqSent[k] + n <= RequestLen(k)
       /\ reqSent[k] + n - reqGot[k] <= Buffer
       /\ reqSent' = [reqSent EXCEPT ![k] = @ + n]
       /\ call' = [call EXCEPT ![k] =
                     IF reqSent[k] + n = RequestLen(k) THEN "ok" ELSE @]
  /\ UNCHANGED <<kind, address, attempt, clientFd, repGot, serverVars, broken,
                 up, stops>>

(* Mutant: one send() is taken for the whole request.                      *)
SendOnce(k) ==
  /\ call[k] = "send"
  /\ k \notin broken
  /\ \E n \in 1 .. Buffer :
       /\ reqSent[k] + n <= RequestLen(k)
       /\ reqSent[k] + n - reqGot[k] <= Buffer
       /\ reqSent' = [reqSent EXCEPT ![k] = @ + n]
  /\ call' = [call EXCEPT ![k] = "receive"]
  /\ UNCHANGED <<kind, address, attempt, clientFd, repGot, serverVars, broken,
                 up, stops>>

(* net_send_all() of the request: send() takes what fits the buffer.       *)
SendRequest(k) ==
  /\ call[k] = "send"
  /\ k \notin broken
  /\ \E n \in 1 .. Buffer :
       /\ reqSent[k] + n <= RequestLen(k)
       /\ reqSent[k] + n - reqGot[k] <= Buffer
       /\ reqSent' = [reqSent EXCEPT ![k] = @ + n]
       /\ call' = [call EXCEPT ![k] =
                     IF reqSent[k] + n = RequestLen(k) THEN "receive" ELSE @]
  /\ UNCHANGED <<kind, address, attempt, clientFd, repGot, serverVars, broken,
                 up, stops>>

(* Mutant: the opcode of the reply is not looked at.                       *)
ReceiveAny(k) ==
  /\ call[k] = "receive"
  /\ k \notin broken
  /\ \E n \in 1 .. Buffer :
       /\ repGot[k] + n <= repSent[k]
       /\ repGot' = [repGot EXCEPT ![k] = @ + n]
       /\ IF repGot[k] + n < ReplyLen
          THEN UNCHANGED <<call, clientFd>>
          ELSE /\ call' = [call EXCEPT ![k] = "ok"]
               /\ clientFd' = [clientFd EXCEPT ![k] = FALSE]
  /\ UNCHANGED <<kind, address, attempt, reqSent, serverVars, broken, up,
                 stops>>

(* net_recv_all() of the reply: recv() returns any part of what is there.  *)
(* The whole frame is then looked at, and the socket closed.               *)
ReceiveReply(k) ==
  /\ call[k] = "receive"
  /\ k \notin broken
  /\ \E n \in 1 .. Buffer :
       /\ repGot[k] + n <= repSent[k]
       /\ repGot' = [repGot EXCEPT ![k] = @ + n]
       /\ IF repGot[k] + n < ReplyLen
          THEN UNCHANGED <<call, clientFd>>
          ELSE /\ call' = [call EXCEPT ![k] =
                             IF answer[k] = "reply" THEN "ok" ELSE "failed"]
               /\ clientFd' = [clientFd EXCEPT ![k] = FALSE]
  /\ UNCHANGED <<kind, address, attempt, reqSent, serverVars, broken, up,
                 stops>>

(* Mutant: an error path without net_close().                              *)
ClientFailsOpen(k) ==
  /\ call' = [call EXCEPT ![k] = "failed"]
  /\ NoAddress(k)
  /\ UNCHANGED <<kind, clientFd, reqSent, repGot, serverVars, broken, up,
                 stops>>

ClientFails(k) ==
  /\ call' = [call EXCEPT ![k] = "failed"]
  /\ clientFd' = [clientFd EXCEPT ![k] = FALSE]
  /\ NoAddress(k)
  /\ UNCHANGED <<kind, reqSent, repGot, serverVars, broken, up, stops>>

(* Mutant: recv() returning 0 is not taken for the end of the stream.      *)
CallFailsUnlessEof(k) ==
  /\ \/ call[k] \in {"send", "receive"} /\ k \in broken
     \/ call[k] = "send" /\ ~serverFd[k]
  /\ ClientFails(k)

(* send() or recv() fails, or the stream ends before the reply does.       *)
CallFails(k) ==
  /\ \/ call[k] \in {"send", "receive"} /\ k \in broken
     \/ call[k] = "send" /\ ~serverFd[k]
     \/ call[k] = "receive" /\ ~serverFd[k] /\ repGot[k] = repSent[k]
  /\ ClientFails(k)

(* The client is killed in a call: what it has sent still arrives.         *)
Kill(k) ==
  /\ call[k] \in {"connect", "send", "receive"}
  /\ ClientFails(k)

-----------------------------------------------------------------------------
(* The server. *)

(* accept() and a thread, that reads first.                                *)
Accept(k) ==
  /\ up
  /\ serverFd[k] /\ thread[k] = "none"
  /\ thread' = [thread EXCEPT ![k] = "read"]
  /\ UNCHANGED <<clientVars, serverFd, reqGot, repSent, answer, log, broken,
                 up, stops>>

(* net_close(), of a connection whose thread ends here.                    *)
CloseServer(k) ==
  /\ thread' = [thread EXCEPT ![k] = "done"]
  /\ serverFd' = [serverFd EXCEPT ![k] = FALSE]
  /\ UNCHANGED <<clientVars, reqGot, repSent, answer, log, broken, up, stops>>

(* No memory or no thread for it.                                          *)
AcceptFails(k) ==
  /\ up
  /\ serverFd[k] /\ thread[k] = "none"
  /\ CloseServer(k)

(* The part of the request that net_recv_msg() waits for: its length, then *)
(* as much as that says.                                                   *)
Awaited(k) == IF reqGot[k] < Prefix THEN Prefix ELSE RequestLen(k)

TooLong(k) == reqGot[k] = Prefix /\ Size[kind[k]] > Capacity

(* Mutant: one recv() is taken for the rest of the request.                *)
ReadOnce(k) ==
  /\ thread[k] = "read"
  /\ k \notin broken
  /\ ~TooLong(k)
  /\ \E n \in 1 .. Buffer :
       /\ reqGot[k] + n <= reqSent[k]
       /\ reqGot[k] + n <= Awaited(k)
       /\ reqGot' = [reqGot EXCEPT ![k] = @ + n]
       /\ thread' = [thread EXCEPT ![k] =
                       IF reqGot[k] + n > Prefix THEN "dispatch" ELSE @]
  /\ UNCHANGED <<clientVars, serverFd, repSent, answer, log, broken, up,
                 stops>>

(* net_recv_all() of either part.                                          *)
ReadRequest(k) ==
  /\ thread[k] = "read"
  /\ k \notin broken
  /\ ~TooLong(k)
  /\ \E n \in 1 .. Buffer :
       /\ reqGot[k] + n <= reqSent[k]
       /\ reqGot[k] + n <= Awaited(k)
       /\ reqGot' = [reqGot EXCEPT ![k] = @ + n]
       /\ thread' = [thread EXCEPT ![k] =
                       IF reqGot[k] + n = RequestLen(k) THEN "dispatch" ELSE @]
  /\ UNCHANGED <<clientVars, serverFd, repSent, answer, log, broken, up,
                 stops>>

(* Mutant: the same at the server.                                         *)
ReadFailsUnlessEof(k) ==
  /\ thread[k] = "read"
  /\ k \in broken \/ TooLong(k)
  /\ CloseServer(k)

(* The request is too long, the stream ends inside it, or it is reset.  No *)
(* reply is sent.                                                          *)
ReadFails(k) ==
  /\ thread[k] = "read"
  /\ \/ k \in broken
     \/ TooLong(k)
     \/ ~clientFd[k] /\ reqGot[k] = reqSent[k]
  /\ CloseServer(k)

(* Mutant: a client that could not be stored is told that it was.          *)
ServeAnyway(k) ==
  /\ thread[k] = "dispatch"
  /\ kind[k] \in Served
  /\ thread' = [thread EXCEPT ![k] = "reply"]
  /\ answer' = [answer EXCEPT ![k] = "reply"]
  /\ log' \in {log, Append(log, k)}
  /\ UNCHANGED <<clientVars, serverFd, reqGot, repSent, broken, up, stops>>

(* handle_register() or handle_find() on a request that is served.  It may *)
(* still be refused (too many files, a full registry, an empty term).      *)
Serve(k) ==
  /\ thread[k] = "dispatch"
  /\ kind[k] \in Served
  /\ thread' = [thread EXCEPT ![k] = "reply"]
  /\ \/ /\ log' = Append(log, k)
        /\ answer' = [answer EXCEPT ![k] = "reply"]
     \/ /\ answer' = [answer EXCEPT ![k] = "error"]
        /\ UNCHANGED log
  /\ UNCHANGED <<clientVars, serverFd, reqGot, repSent, broken, up, stops>>

(* Another version, opcode or payload length is answered with an error.    *)
RejectRequest(k) ==
  /\ thread[k] = "dispatch"
  /\ kind[k] \notin Served
  /\ thread' = [thread EXCEPT ![k] = "reply"]
  /\ answer' = [answer EXCEPT ![k] = "error"]
  /\ UNCHANGED <<clientVars, serverFd, reqGot, repSent, log, broken, up,
                 stops>>

SendReply(k) ==
  /\ thread[k] = "reply"
  /\ k \notin broken
  /\ \E n \in 1 .. Buffer :
       /\ repSent[k] + n <= ReplyLen
       /\ repSent[k] + n - repGot[k] <= Buffer
       /\ repSent' = [repSent EXCEPT ![k] = @ + n]
       /\ IF repSent[k] + n < ReplyLen
          THEN UNCHANGED <<thread, serverFd>>
          ELSE /\ thread' = [thread EXCEPT ![k] = "done"]
               /\ serverFd' = [serverFd EXCEPT ![k] = FALSE]
  /\ UNCHANGED <<clientVars, reqGot, answer, log, broken, up, stops>>

ReplyFails(k) ==
  /\ thread[k] = "reply"
  /\ k \in broken \/ ~clientFd[k]
  /\ CloseServer(k)

-----------------------------------------------------------------------------
(* The network and the server's process. *)

(* A connection is reset; what is on its way is lost.                      *)
Break(k) ==
  /\ clientFd[k] \/ serverFd[k]
  /\ k \notin broken
  /\ broken' = broken \cup {k}
  /\ UNCHANGED <<clientVars, serverVars, up, stops>>

(* The process is killed, or accept() fails with anything but EINTR, which *)
(* ends query_server_run() and with it main() and all threads.             *)
StopServer ==
  /\ up
  /\ stops < MaxStops
  /\ up' = FALSE
  /\ stops' = stops + 1
  /\ thread' = [k \in Calls |-> IF serverFd[k] THEN "done" ELSE thread[k]]
  /\ serverFd' = [k \in Calls |-> FALSE]
  /\ UNCHANGED <<clientVars, reqGot, repSent, answer, log, broken>>

StartServer ==
  /\ ~up
  /\ up' = TRUE
  /\ UNCHANGED <<clientVars, serverVars, broken, stops>>

ClientStep(k) ==
  Connect(k) \/ ConnectFails(k) \/ SendRequest(k) \/ ReceiveReply(k) \/ CallFails(k)

ThreadStep(k) ==
  \/ Accept(k) \/ AcceptFails(k)
  \/ ReadRequest(k) \/ ReadFails(k)
  \/ Serve(k) \/ RejectRequest(k)
  \/ SendReply(k) \/ ReplyFails(k)

Next ==
  \/ \E k \in Calls : \/ Begin(k) \/ ClientStep(k) \/ ThreadStep(k)
                      \/ Kill(k) \/ Break(k)
  \/ StopServer \/ StartServer

Spec == Init /\ [][Next]_vars

(* The console and the threads run, and what was sent arrives or the       *)
(* connection breaks.  Nothing is assumed about users, or about a server   *)
(* that stopped.                                                           *)
FairSpec ==
  /\ Spec
  /\ \A k \in Calls : WF_vars(ClientStep(k)) /\ WF_vars(ThreadStep(k))

-----------------------------------------------------------------------------
(* Properties. *)

TypeOK ==
  /\ call \in [Calls -> {"idle", "connect", "send", "receive", "ok", "failed"}]
  /\ kind \in [Calls -> Kind]
  /\ address \in [Calls -> 1 .. Addresses]
  /\ attempt \in [Calls -> 0 .. Attempts - 1]
  /\ clientFd \in [Calls -> BOOLEAN] /\ serverFd \in [Calls -> BOOLEAN]
  /\ broken \subseteq Calls
  /\ reqSent \in [Calls -> Nat] /\ reqGot \in [Calls -> Nat]
  /\ repSent \in [Calls -> Nat] /\ repGot \in [Calls -> Nat]
  /\ thread \in [Calls -> {"none", "read", "dispatch", "reply", "done"}]
  /\ answer \in [Calls -> {"none", "reply", "error"}]
  /\ up \in BOOLEAN
  /\ stops \in 0 .. MaxStops
  /\ log \in Seq(Calls)

(* Reads and writes of any size never get out of step: nothing is received *)
(* that was not sent, a request is handled only once all of it was sent,   *)
(* and the client takes a reply only when the server has sent all of it.   *)
FramesWhole ==
  \A k \in Calls :
    /\ reqGot[k] <= reqSent[k] /\ repGot[k] <= repSent[k]
    /\ thread[k] \in {"dispatch", "reply"} => reqSent[k] = RequestLen(k)
    /\ call[k] = "ok" => repSent[k] = ReplyLen

ActedOn(k) == \E n \in DOMAIN log : log[n] = k

(* However often connecting was tried, and whatever broke, the server acts *)
(* on a request once at most, only on those it serves, and always before   *)
(* the call returns well.                                                  *)
ActedAtMostOnce ==
  /\ \A m, n \in DOMAIN log : log[m] = log[n] => m = n
  /\ \A n \in DOMAIN log : kind[log[n]] \in Served
  /\ \A k \in Calls : call[k] = "ok" => ActedOn(k)

(* A request takes effect after a later one of the same client only if its *)
(* own call had failed: its thread outlived the connection.                *)
LateOnlyIfFailed ==
  \A m, n \in DOMAIN log : m < n /\ log[n] < log[m] => call[log[n]] = "failed"

(* No path leaves a socket open: a call that returned has none, a thread   *)
(* that ended has none, and a client has one at a time.                    *)
NoSocketLeaks ==
  \A k \in Calls :
    /\ Returned(k) => ~clientFd[k]
    /\ thread[k] = "done" => ~serverFd[k]
    /\ \A j \in Calls : clientFd[j] /\ clientFd[k] => j = k

(* Blocked in send() or recv(): the buffer is full or empty, and the other *)
(* side has neither closed nor reset the connection.                       *)
ClientWaits(k) ==
  /\ serverFd[k] /\ k \notin broken
  /\ \/ call[k] = "send" /\ reqSent[k] - reqGot[k] = Buffer
     \/ call[k] = "receive" /\ repGot[k] = repSent[k]

ThreadWaits(k) ==
  /\ clientFd[k] /\ k \notin broken
  /\ \/ thread[k] = "read" /\ ~TooLong(k) /\ reqGot[k] = reqSent[k]
     \/ thread[k] = "reply" /\ repSent[k] - repGot[k] = Buffer

(* No socket has a timeout, but the two ends of a connection never wait    *)
(* for each other: never do both send, never do both receive.              *)
NeverBothWait == \A k \in Calls : ~(ClientWaits(k) /\ ThreadWaits(k))

(* A call promises what Rpc says.                                          *)
Promise == INSTANCE Rpc WITH
  status <- [k \in Calls |->
               IF call[k] \in {"connect", "send", "receive"} THEN "pending"
               ELSE call[k]]
ImplementsRpc == Promise!Spec

(* Every call returns and every connection that was accepted is closed.    *)
CallsReturn == \A k \in Calls : call[k] = "connect" ~> Returned(k)
ThreadsEnd == \A k \in Calls : thread[k] = "read" ~> thread[k] = "done"
=============================================================================
