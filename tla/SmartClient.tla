----------------------------- MODULE SmartClient -----------------------------
(***************************************************************************)
(* Calls of the smart protocol over a medium whose connection may be reset *)
(* at any moment (breezy/bzr/smart/client.py, with medium.py, message.py   *)
(* and protocol.py).                                                       *)
(*                                                                         *)
(* A call sends its request in protocol 3, or in 2 to an old server, reads *)
(* the response, and sends the request once more if the connection is      *)
(* reset: while sending, as an incomplete request is not carried out,      *)
(* unless its body stream was read from, and while reading if the request  *)
(* is of a kind that may be carried out twice.  Any other error ends the   *)
(* call.  A server that has a request when the connection is reset may     *)
(* still carry it out, at any later time.                                  *)
(***************************************************************************)
EXTENDS Naturals

CONSTANTS
  MaxCalls  \* bound on the calls a client makes, one after the other

ASSUME CallAssumption == MaxCalls \in Nat

Call == 1..MaxCalls

\* The kinds of requests (request_handlers, info).
Kind == {"read", "idem", "semi", "semivfs", "stream", "mutate"}

VARIABLES
  server,    \* the newest protocol the server understands, 0 for none of ours
  version,   \* medium._protocol_version, 0 if not known
  current,   \* medium._current_request: the call whose request it is, 0 for None
  call,      \* the number of the last call
  kind,      \* the kind of each call's request; a stream request has a body stream
  started,   \* its body stream has been read from
  trying,    \* the protocol of this attempt
  attempt,   \* "first", "resend" after a reset in _send, "retry" after one in _call
  pc,        \* what the client is doing
  wire,      \* what is on the connection: "-", "args" (of a request whose stream is not
             \* complete), "request", "answer", "error", "unknown" (UnknownSmartMethod)
             \* or "marker"
  left,      \* the calls whose requests a server still has from connections that are gone
  executed,  \* how often each call was carried out
  result     \* how each call ended, "-" if it has not

vars == <<server, version, current, call, kind, started, trying, attempt, pc, wire, left, executed, result>>

\* Protocols that can be tried after v.
Older(v) == IF v = 3 THEN 2 ELSE 0

\* The call ends.
Return(how) ==
  /\ pc' = "idle"
  /\ result' = [result EXCEPT ![call] = how]

\* The server has a request to carry out: it does not wait for the body stream.
Arrived == wire \in {"args", "request"}

\* The connection is closed, or not used any more; the server may have a request
\* from it.
Disconnect ==
  /\ wire' = "-"
  /\ \/ left' = left
     \/ Arrived /\ server >= trying /\ left' = [left EXCEPT ![call] = TRUE]

\* The call ends with an error that nobody handles: the medium is not reset.
Fail ==
  /\ Return("failed")
  /\ Disconnect
  /\ UNCHANGED <<server, version, current, call, kind, started, trying, attempt, executed>>

-----------------------------------------------------------------------------
\* call_and_read_response begins; get_request fails if the medium still has a
\* request.
Begin ==
  /\ pc = "idle"
  /\ call + 1 \in Call
  /\ call' = call + 1
  /\ \E k \in Kind : kind' = [kind EXCEPT ![call'] = k]
  /\ started' = FALSE
  /\ trying' = IF version = 0 THEN 3 ELSE version
  /\ attempt' = "first"
  /\ IF current = 0
     THEN current' = call' /\ pc' = "send" /\ UNCHANGED result
     ELSE /\ result' = [result EXCEPT ![call'] = "too many requests"]
          /\ UNCHANGED <<current, pc>>
  /\ UNCHANGED <<server, version, wire, left, executed>>

\* Arguments and bytes are sent at once, by one system call, before a body stream
\* is read from.
Send ==
  /\ pc = "send"
  /\ trying = 3 \/ kind[call] # "stream"
  /\ IF kind[call] = "stream"
     THEN wire' = "args" /\ started' = TRUE /\ pc' = "stream"
     ELSE wire' = "request" /\ pc' = "read" /\ UNCHANGED started
  /\ UNCHANGED <<server, version, current, call, kind, trying, attempt, left, executed, result>>

\* No connection can be made: ConnectionError; or sending fails otherwise.
SendFails ==
  /\ pc = "send"
  /\ trying = 3 \/ kind[call] # "stream"
  /\ Fail

\* The body stream, and with it the request, is complete.
SendStream ==
  /\ pc = "stream"
  /\ wire' = IF wire = "args" THEN "request" ELSE wire
  /\ pc' = "read"
  /\ UNCHANGED <<server, version, current, call, kind, started, trying, attempt, left, executed, result>>

\* Iterating the body stream fails: the request is finished with an error status,
\* the answer is not waited for.  Or sending a part of it fails.
StreamFails ==
  /\ pc = "stream"
  /\ Fail

\* Protocol 2 has no body streams: UnknownSmartMethod, and nothing is sent.
NoStreams ==
  /\ pc = "send"
  /\ trying = 2 /\ kind[call] = "stream"
  /\ current' = 0
  /\ Return("unknown")
  /\ UNCHANGED <<server, version, call, kind, started, trying, attempt, wire, left, executed>>

\* ConnectionResetError in _send: the request may be sent again.
MayResend == attempt = "first" /\ ~started

\* The connection is reset while the request is being sent; arguments that are
\* not complete are not acted on.  The medium is reset after the first attempt only.
SendReset ==
  /\ pc \in {"send", "stream"}
  /\ trying = 3 \/ kind[call] # "stream"
  /\ IF MayResend
     THEN attempt' = "resend" /\ pc' = "send" /\ UNCHANGED <<current, result>>
     ELSE /\ Return("reset")
          /\ current' = IF attempt = "first" THEN 0 ELSE current
          /\ UNCHANGED attempt
  /\ Disconnect
  /\ UNCHANGED <<server, version, call, kind, started, trying, executed>>

\* Mutant: requests on files count as the others that are not strictly idempotent.
SafeWithVfs == kind[call] \in {"read", "idem", "semi", "semivfs"}

\* _is_safe_to_send_twice.
SafeToSendTwice == kind[call] \in {"read", "idem", "semi"}

\* Mutant: the request is sent again as often as it takes.
RetryForever == SafeToSendTwice

\* _call sends a request again once.
MayRetry == attempt # "retry" /\ SafeToSendTwice

\* Mutant: the medium is not reset.
KeepRequest == current

\* medium.reset, unless the request was a second one already.
AfterReset == IF attempt = "retry" THEN current ELSE 0

\* The connection is reset while the response is awaited.
ReadReset ==
  /\ pc = "read"
  /\ Disconnect
  /\ IF MayRetry
     THEN attempt' = "retry" /\ pc' = "send" /\ UNCHANGED <<current, result>>
     ELSE Return("reset") /\ current' = AfterReset /\ UNCHANGED attempt
  /\ UNCHANGED <<server, version, call, kind, started, trying, executed>>

\* Reading fails otherwise.
ReadFails ==
  /\ pc = "read"
  /\ Fail

\* Mutant: the protocol is known as soon as there is a response.
AnyAnswer == wire \in {"answer", "error", "unknown", "marker"}

\* A response in the protocol of the request.
Understood == wire \in {"answer", "error", "unknown"}

\* The response is read: the protocol is known from now on, unless the method is
\* not.  An error has no body; a body is read later, and keeps the request current.
ReadResponse ==
  /\ pc = "read"
  /\ Understood
  /\ version' = IF wire = "unknown" THEN version ELSE trying
  /\ wire' = "-"
  /\ \/ /\ wire = "answer"
        /\ pc' = "body"
        /\ UNCHANGED <<current, result>>
     \/ /\ Return(wire)
        /\ current' = 0
  /\ UNCHANGED <<server, call, kind, started, trying, attempt, left, executed>>

\* UnexpectedProtocolVersionMarker: reconnect and try the next protocol.  When the
\* protocol was known, or there is no other, the call fails.
ReadMarker ==
  /\ pc = "read"
  /\ wire = "marker"
  /\ wire' = "-"
  /\ IF version = 0 /\ Older(trying) # 0
     THEN /\ trying' = Older(trying)
          /\ attempt' = "first"
          /\ pc' = "send"
          /\ UNCHANGED <<current, result>>
     ELSE /\ Return("not a server")
          /\ current' = 0
          /\ UNCHANGED <<trying, attempt>>
  /\ UNCHANGED <<server, version, call, kind, started, left, executed>>

\* read_body_bytes, or cancel_read_body.
ReadBody ==
  /\ pc = "body"
  /\ current' = 0
  /\ Return("answer")
  /\ UNCHANGED <<server, version, call, kind, started, trying, attempt, wire, left, executed>>

\* The connection is reset in the middle of the body, or reading it fails
\* otherwise: the medium is not reset.
BodyReset ==
  /\ pc = "body"
  /\ Return("lost body")
  /\ UNCHANGED <<server, version, current, call, kind, started, trying, attempt, wire, left, executed>>

-----------------------------------------------------------------------------
\* The server carries out a request of a protocol it understands, once it has the
\* arguments, and answers.
Serve ==
  /\ Arrived
  /\ IF server >= trying
     THEN \/ /\ executed' = [executed EXCEPT ![call] = @ + 1]
             /\ wire' \in {"answer", "error"}
          \/ wire' = "unknown" /\ UNCHANGED executed
     ELSE wire' = "marker" /\ UNCHANGED executed
  /\ UNCHANGED <<server, version, current, call, kind, started, trying, attempt, pc, left, result>>

\* A request of a connection that is gone is carried out, maybe long after.
ServeLate(c) ==
  /\ left[c]
  /\ left' = [left EXCEPT ![c] = FALSE]
  /\ executed' = [executed EXCEPT ![c] = @ + 1]
  /\ UNCHANGED <<server, version, current, call, kind, started, trying, attempt, pc, wire, result>>

Init ==
  /\ server \in {0, 2, 3}
  /\ version = 0
  /\ current = 0
  /\ call = 0
  /\ kind = [c \in Call |-> "-"]
  /\ started = FALSE
  /\ trying = 3
  /\ attempt = "first"
  /\ pc = "idle"
  /\ wire = "-"
  /\ left = [c \in Call |-> FALSE]
  /\ executed = [c \in Call |-> 0]
  /\ result = [c \in Call |-> "-"]

Client ==
  \/ Begin \/ Send \/ SendFails \/ SendStream \/ StreamFails \/ NoStreams \/ SendReset
  \/ ReadReset \/ ReadFails \/ ReadResponse \/ ReadMarker \/ ReadBody \/ BodyReset

Next == Client \/ Serve \/ \E c \in Call : ServeLate(c)

\* The client runs on, and a server that has a request answers.
Spec == Init /\ [][Next]_vars /\ WF_vars(Client) /\ WF_vars(Serve)

-----------------------------------------------------------------------------
\* Properties.

\* Every variable has its type; no call is carried out more than twice.
TypeOK ==
  /\ server \in {0, 2, 3}
  /\ version \in {0, 2, 3}
  /\ current \in Call \cup {0}
  /\ call \in Call \cup {0}
  /\ kind \in [Call -> Kind \cup {"-"}]
  /\ started \in BOOLEAN
  /\ trying \in {2, 3}
  /\ attempt \in {"first", "resend", "retry"}
  /\ pc \in {"idle", "send", "stream", "read", "body"}
  /\ wire \in {"-", "args", "request", "answer", "error", "unknown", "marker"}
  /\ left \in [Call -> BOOLEAN]
  /\ executed \in [Call -> 0..2]
  /\ result \in [Call -> {"-", "answer", "error", "reset", "lost body", "failed", "unknown",
                         "not a server", "too many requests"}]

\* A request that changes the state on every repetition is carried out once at
\* most, however often the connection is reset and however late a server gets
\* to it; and a body stream that was read from is not sent again ("We can't
\* restart a body_stream that has been partially consumed",
\* _is_safe_to_send_twice, _call, _send, SmartClientRequestProtocolOne).
AtMostOnce ==
  /\ \A c \in Call :
       kind[c] \in {"semivfs", "stream", "mutate"} => executed[c] + (IF left[c] THEN 1 ELSE 0) <= 1
  /\ pc = "send" /\ started => trying = 2

\* When the client thinks it knows the protocol, the server understands it,
\* also after resets during the negotiation (_call_determining_protocol_version).
ProtocolAgreed == version # 0 => server >= version /\ (server = 3 => version = 3)

\* The medium can be used for the next call, whatever the answer was and after a
\* reset that the call got over or not: a request of an earlier call is in its
\* way only if that call ended with an error that nobody handles, with a second
\* reset or in the middle of a response body, and then for good
\* (SmartClientStreamMediumRequest.__init__, SmartClientStreamMedium.reset).
MediumIsFree ==
  pc = "idle" /\ current # 0 =>
    \/ result[current] \in {"failed", "lost body"}
    \/ result[current] = "reset" /\ (current = call => attempt # "first")

\* Every call ends, with an answer or an exception: "there is no reason to loop
\* endlessly" (_send).
CallEnds == (pc # "idle") ~> (pc = "idle")
=============================================================================
