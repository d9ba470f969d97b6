-------------------------- MODULE SmartClientProofs --------------------------
(***************************************************************************)
(* Proofs about SmartClient for any number of calls.                       *)
(***************************************************************************)
EXTENDS SmartClient, TLAPS

\* How often the request of c was carried out or still can be.
Sent(c) == executed[c] + (IF left[c] THEN 1 ELSE 0)

\* What may not be carried out twice.
Once == {"semivfs", "stream", "mutate"}

\* How often the request of the call is sent completely, at most.
Sends == IF attempt = "retry" THEN 2 ELSE 1

\* Where the client is, and what that says about the other variables.
Control ==
  /\ call + 1 \in Nat
  /\ current <= call
  /\ pc # "idle" => current = call /\ call \in Call /\ kind[call] \in Kind
  /\ pc \in {"idle", "send", "body"} => wire = "-"
  /\ pc = "stream" => wire \notin {"-", "request"}
  /\ pc = "read" => wire \notin {"-", "args"}
  /\ pc = "stream" => started /\ trying = 3 /\ kind[call] = "stream"
  /\ started => kind[call] = "stream"
  /\ pc = "send" /\ started => trying = 2
  /\ pc # "idle" /\ kind[call] \in Once => attempt # "retry"

\* What the client and the server know of each other.
Agreement ==
  /\ version # 0 => server >= version
  /\ server = 3 => trying = 3 /\ version \in {0, 3}
  /\ wire \in {"answer", "error", "unknown"} => server >= trying
  /\ wire = "marker" => server < trying

\* No request is sent more often than it may be.
Bounded ==
  \A c \in Call : /\ Sent(c) <= 2
                  /\ kind[c] \in Once => Sent(c) <= 1
                  /\ c > call => Sent(c) = 0

\* The requests that may be carried out are counted.
Counted ==
  /\ Bounded
  /\ pc # "idle" => Sent(call) <= Sends
  /\ pc = "send" \/ Arrived => Sent(call) < Sends
  /\ pc # "idle" /\ server < trying => Sent(call) = 0

\* The inductive invariant.
Sound == TypeOK /\ Control /\ Agreement /\ Counted /\ MediumIsFree

-----------------------------------------------------------------------------
\* The types of what is counted.
LEMMA SentType ==
  ASSUME TypeOK, NEW c \in Call
  PROVE  Sent(c) \in Nat /\ executed[c] \in 0..2 /\ executed[c] <= Sent(c)
<1>1. executed[c] \in 0..2 /\ left[c] \in BOOLEAN
  BY DEF TypeOK
<1> QED
  BY <1>1 DEF Sent

\* Calls are numbered from 1.
LEMMA CallType == Call \subseteq Nat /\ 0 \notin Call /\ MaxCalls \in Nat
  BY CallAssumption DEF Call

\* The numbers of calls are numbers.
LEMMA Numbers ==
  ASSUME TypeOK
  PROVE  /\ current \in Nat /\ call \in Nat
         /\ server \in {0, 2, 3} /\ trying \in {2, 3}
<1>1. /\ current \in Call \cup {0} /\ call \in Call \cup {0}
      /\ server \in {0, 2, 3} /\ trying \in {2, 3}
  BY DEF TypeOK
<1> QED
  BY <1>1, CallType

\* The invariant holds initially.
LEMMA InitSound == Init => Sound
<1> SUFFICES ASSUME Init PROVE Sound
  OBVIOUS
<1>1. TypeOK
  <2>1. left \in [Call -> BOOLEAN] /\ executed \in [Call -> 0..2]
    BY DEF Init
  <2>2. kind \in [Call -> Kind \cup {"-"}]
    BY DEF Init
  <2> QED
    BY <2>1, <2>2 DEF Init, TypeOK
<1>2. \A c \in Call : Sent(c) = 0
  BY DEF Init, Sent
<1>3. Control /\ Agreement /\ MediumIsFree
  BY DEF Init, Control, Agreement, MediumIsFree
<1>4. Counted
  BY <1>2 DEF Init, Counted, Bounded, Arrived
<1> QED
  BY <1>1, <1>3, <1>4 DEF Sound

\* A step that carries nothing out and leaves nothing behind keeps the counts.
LEMMA SentSame ==
  ASSUME UNCHANGED <<left, executed>>
  PROVE  \A c \in Call : Sent(c)' = Sent(c)
  BY DEF Sent

\* A new call starts from a medium that is free, or is refused (get_request).
LEMMA BeginSound == ASSUME Sound, Begin PROVE Sound'
<1>0. TypeOK /\ Control /\ Agreement /\ Counted /\ MediumIsFree
  BY DEF Sound
<1>1. call \in Nat /\ call' = call + 1 /\ call' \in Call /\ call' # call
  <2>1. call \in Call \cup {0}
    BY <1>0 DEF TypeOK
  <2>2. call' = call + 1 /\ call + 1 \in Call
    BY DEF Begin
  <2> QED
    BY <2>1, <2>2, CallType
<1>2. /\ pc = "idle" /\ wire = "-" /\ wire' = "-" /\ attempt' = "first" /\ started' = FALSE
      /\ UNCHANGED <<server, version, left, executed>>
      /\ trying' = IF version = 0 THEN 3 ELSE version
  BY <1>0 DEF Begin, Control
<1>3. \/ current = 0 /\ current' = call' /\ pc' = "send" /\ result' = result
      \/ /\ current # 0 /\ current' = current /\ pc' = "idle"
         /\ result' = [result EXCEPT ![call'] = "too many requests"]
  BY <1>2 DEF Begin
<1>4. PICK k \in Kind : kind' = [kind EXCEPT ![call'] = k]
  BY DEF Begin
<1>5. kind'[call'] \in Kind /\ \A c \in Call : c # call' => kind'[c] = kind[c]
  BY <1>0, <1>1, <1>4 DEF TypeOK
<1>6. TypeOK'
  <2>1. kind' \in [Call -> Kind \cup {"-"}]
    BY <1>0, <1>1, <1>4 DEF TypeOK
  <2> QED
    BY <1>0, <1>1, <1>2, <1>3, <2>1 DEF TypeOK
<1>7. Control'
  <2>1. current' <= call' /\ call' + 1 \in Nat
    <3>1. current \in Nat /\ current <= call
      BY <1>0, Numbers DEF Control
    <3>2. current' \in {current, call'}
      BY <1>3
    <3> QED
      BY <1>1, <3>1, <3>2
  <2> QED
    BY <1>1, <1>2, <1>3, <1>5, <2>1 DEF Control
<1>8. Agreement'
  BY <1>0, <1>2 DEF Agreement, TypeOK
<1>9. Counted'
  <2>1. \A c \in Call : Sent(c)' = Sent(c) /\ Sent(c) \in Nat
    BY <1>0, <1>2, SentSame, SentType
  <2>2. Sent(call') = 0
    BY <1>0, <1>1 DEF Counted, Bounded
  <2>3. \A c \in Call : c > call' => c > call
    BY <1>1, CallType
  <2> QED
    BY <1>0, <1>1, <1>2, <1>5, <2>1, <2>2, <2>3 DEF Counted, Bounded, Sends, Arrived
<1>10. MediumIsFree'
  <2>1. current' # call' => result'[current'] = result[current']
    BY <1>0, <1>3 DEF TypeOK
  <2>2. current # call'
    BY <1>0, <1>1, Numbers DEF Control
  <2> QED
    BY <1>0, <1>2, <1>3, <2>1, <2>2 DEF MediumIsFree
<1> QED
  BY <1>6, <1>7, <1>8, <1>9, <1>10 DEF Sound

\* While a call is under way it is the one that has the medium.
LEMMA UnderWay ==
  ASSUME Sound, pc # "idle"
  PROVE  /\ TypeOK /\ call \in Call /\ current = call /\ kind[call] \in Kind
         /\ Sent(call) \in Nat
  BY SentType DEF Sound, Control

\* A step of the client that leaves the server alone: what was sent is counted as before.
LEMMA CountedSame ==
  ASSUME Sound, pc # "idle", UNCHANGED <<server, call, kind, left, executed>>,
         pc' # "idle" => Sent(call) <= Sends',
         pc' = "send" \/ Arrived' => Sent(call) < Sends',
         pc' # "idle" /\ server < trying' => Sent(call) = 0
  PROVE  Counted'
<1>1. \A c \in Call : Sent(c)' = Sent(c)
  BY SentSame
<1>2. Sent(call)' = Sent(call)
  BY <1>1, UnderWay
<1> QED
  BY <1>1, <1>2 DEF Sound, Counted, Bounded

\* Step by step: sending.
LEMMA SendSound == ASSUME Sound, Send PROVE Sound'
<1>1. /\ pc = "send" /\ (trying = 3 \/ kind[call] # "stream")
      /\ UNCHANGED <<server, version, current, call, kind, trying, attempt, left, executed, result>>
      /\ \/ kind[call] = "stream" /\ started' = TRUE /\ pc' = "stream" /\ wire' = "args"
         \/ kind[call] # "stream" /\ wire' = "request" /\ pc' = "read" /\ started' = started
  BY DEF Send
<1>2. TypeOK'
  BY <1>1 DEF Sound, TypeOK
<1>3. Control'
  BY <1>1 DEF Sound, Control
<1>4. Agreement'
  BY <1>1 DEF Sound, Agreement, Control
<1>5. Counted'
  BY <1>1, CountedSame DEF Sound, Counted, Bounded, Sends, Arrived
<1> QED
  BY <1>1, <1>2, <1>3, <1>4, <1>5 DEF Sound, MediumIsFree

\* The rest of a body stream is sent.
LEMMA SendStreamSound == ASSUME Sound, SendStream PROVE Sound'
<1>1. /\ pc = "stream" /\ pc' = "read"
      /\ (wire = "args" /\ wire' = "request") \/ (wire # "args" /\ wire' = wire)
      /\ UNCHANGED <<server, version, current, call, kind, started, trying, attempt, left, executed, result>>
  BY DEF SendStream
<1>2. TypeOK'
  <2>1. wire' \in {"-", "args", "request", "answer", "error", "unknown", "marker"}
    BY <1>1 DEF Sound, TypeOK
  <2>2. server' \in {0, 2, 3} /\ version' \in {0, 2, 3} /\ trying' \in {2, 3}
    BY <1>1 DEF Sound, TypeOK
  <2> QED
    BY <1>1, <2>1, <2>2 DEF Sound, TypeOK
<1>3. Control'
  BY <1>1 DEF Sound, Control
<1>4. Agreement'
  BY <1>1 DEF Sound, Agreement, Control
<1>5. Counted'
  BY <1>1, CountedSame DEF Sound, Counted, Bounded, Sends, Arrived
<1> QED
  BY <1>1, <1>2, <1>3, <1>4, <1>5 DEF Sound, MediumIsFree

\* The end of a call keeps the types.
LEMMA ReturnTypes ==
  ASSUME TypeOK, NEW how \in {"answer", "error", "reset", "lost body", "failed", "unknown",
                       "not a server"},
         Return(how)
  PROVE  /\ pc' = "idle"
         /\ call \in Call => result'[call] = how
         /\ result' \in [Call -> {"-", "answer", "error", "reset", "lost body", "failed", "unknown",
                                  "not a server", "too many requests"}]
  BY DEF TypeOK, Return

\* A body stream cannot be sent in protocol 2.
LEMMA NoStreamsSound == ASSUME Sound, NoStreams PROVE Sound'
<1>1. /\ pc = "send" /\ current' = 0
      /\ UNCHANGED <<server, version, call, kind, started, trying, attempt, wire, left, executed>>
  BY DEF NoStreams
<1>2. TypeOK' /\ pc' = "idle"
  BY <1>1, ReturnTypes, ZenonT(60) DEF Sound, TypeOK, NoStreams
<1>3. Control'
  BY <1>1, <1>2, Numbers DEF Sound, Control
<1>4. Agreement'
  BY <1>1 DEF Sound, Agreement
<1>5. wire = "-"
  BY <1>1 DEF Sound, Control
<1>6. Counted'
  BY <1>1, <1>2, <1>5, CountedSame DEF Arrived
<1> QED
  BY <1>1, <1>2, <1>3, <1>4, <1>6 DEF Sound, MediumIsFree

\* A request that is left behind when the connection is given up was not carried
\* out before, so it is counted as often as it was sent at most (reset).
LEMMA DisconnectCounted ==
  ASSUME Sound, pc # "idle", Disconnect, UNCHANGED <<server, call, kind, executed>>
  PROVE  /\ left' \in [Call -> BOOLEAN]
         /\ Sent(call)' \in Nat /\ Sent(call)' <= Sends
         /\ wire = "-" => Sent(call)' = Sent(call)
         /\ server < trying => Sent(call)' = 0
         /\ Bounded'
<1>1. call \in Call /\ current = call /\ TypeOK
  BY UnderWay
<1>2. /\ \/ left' = left
         \/ Arrived /\ server >= trying /\ left' = [left EXCEPT ![call] = TRUE]
      /\ UNCHANGED <<server, call, kind, executed>>
  BY DEF Disconnect
<1>3. left' \in [Call -> BOOLEAN]
  BY <1>1, <1>2 DEF TypeOK
<1>4. /\ \A c \in Call : c # call => Sent(c)' = Sent(c)
      /\ Sent(call)' <= Sends
      /\ wire = "-" => Sent(call)' = Sent(call)
      /\ server < trying => Sent(call)' = 0
  <2>1. CASE left' = left
    <3>1. Sent(call)' = Sent(call) /\ \A c \in Call : Sent(c)' = Sent(c)
      BY <1>1, <1>2, <2>1, SentSame
    <3> QED
      BY <3>1 DEF Sound, Counted, Bounded
  <2>2. CASE Arrived /\ server >= trying /\ left' = [left EXCEPT ![call] = TRUE]
    <3>1. left'[call] = TRUE /\ \A c \in Call : c # call => left'[c] = left[c]
      BY <1>1, <2>2 DEF TypeOK
    <3>2. executed[call] \in Nat /\ executed[call] <= Sent(call) /\ Sent(call) \in Nat
      BY <1>1, SentType
    <3>3. Sent(call)' = executed[call] + 1
      BY <1>2, <3>1 DEF Sent
    <3>4. Sent(call) < Sends /\ Sends \in {1, 2}
      BY <2>2 DEF Sound, Counted, Bounded, Sends
    <3>5. Sent(call)' <= Sends
      BY <3>2, <3>3, <3>4
    <3>6. \A c \in Call : c # call => Sent(c)' = Sent(c)
      BY <1>2, <3>1 DEF Sent
    <3>7. ~(server < trying) /\ wire # "-"
      BY <1>1, <2>2, Numbers DEF Arrived
    <3> QED
      BY <3>5, <3>6, <3>7
  <2> QED
    BY <1>2, <2>1, <2>2
<1>5. Sent(call)' \in Nat
  <2>1. executed[call] \in 0..2 /\ left'[call] \in BOOLEAN
    BY <1>1, <1>3 DEF TypeOK
  <2> QED
    BY <1>2, <2>1 DEF Sent
<1>6. Sent(call)' <= 2 /\ (kind[call] \in Once => Sent(call)' <= 1)
  <2>1. Sends \in {1, 2} /\ (kind[call] \in Once => Sends = 1)
    BY DEF Sound, Control, Sends
  <2> QED
    BY <1>4, <1>5, <2>1
<1>7. \A c \in Call : c > call => c # call
  BY <1>1, CallType
<1> QED
  BY <1>1, <1>2, <1>3, <1>4, <1>5, <1>6, <1>7 DEF Sound, Counted, Bounded

\* A call that ends when its connection is given up is counted, whatever the
\* server still has.
LEMMA EndCounted ==
  ASSUME Sound, pc # "idle", Disconnect, UNCHANGED <<server, call, kind, executed>>, pc' = "idle"
  PROVE  Counted'
<1>1. ~Arrived' /\ call' = call /\ kind' = kind
  BY DEF Disconnect, Arrived
<1>2. Bounded'
  BY DisconnectCounted
<1> QED
  BY <1>1, <1>2 DEF Counted

\* A reset while sending: what was read from is not sent again (_send).
LEMMA SendResetSound == ASSUME Sound, SendReset PROVE Sound'
<1>1. /\ pc \in {"send", "stream"} /\ wire' = "-" /\ Disconnect
      /\ UNCHANGED <<server, version, call, kind, started, trying, executed>>
  BY DEF SendReset, Disconnect
<1>2. call \in Call /\ current = call /\ TypeOK /\ left' \in [Call -> BOOLEAN]
  BY <1>1, UnderWay, DisconnectCounted
<1>3. CASE MayResend
  <2>1. /\ attempt = "first" /\ attempt' = "resend" /\ ~started
        /\ pc' = "send" /\ UNCHANGED <<current, result>>
    BY <1>3 DEF SendReset, MayResend
  <2>2. TypeOK'
    BY <1>1, <1>2, <2>1 DEF TypeOK
  <2>3. Control'
    BY <1>1, <2>1 DEF Sound, Control
  <2>4. Agreement'
    BY <1>1 DEF Sound, Agreement
  <2>5. pc = "send" /\ wire = "-"
    <3>1. ~(pc = "stream")
      BY <1>1, <2>1 DEF Sound, Control
    <3> QED
      BY <1>1, <3>1 DEF Sound, Control
  <2>6. Counted'
    <3>1. left' = left
      BY <1>1, <2>5 DEF Disconnect, Arrived
    <3> QED
      BY <1>1, <2>1, <2>5, <3>1, CountedSame DEF Sound, Counted, Bounded, Sends, Arrived
  <2> QED
    BY <2>1, <2>2, <2>3, <2>4, <2>6 DEF Sound, MediumIsFree
<1>4. CASE ~MayResend
  <2>1. Return("reset") /\ current' = (IF attempt = "first" THEN 0 ELSE current) /\ attempt' = attempt
    BY <1>4 DEF SendReset
  <2>2. TypeOK' /\ pc' = "idle" /\ result'[call] = "reset"
    BY <1>1, <1>2, <2>1, ReturnTypes DEF TypeOK
  <2>3. Control'
    BY <1>1, <1>2, <2>1, <2>2, Numbers DEF Sound, Control
  <2>4. Agreement'
    BY <1>1 DEF Sound, Agreement
  <2>5. Counted'
    BY <1>1, <2>2, EndCounted
  <2>6. MediumIsFree'
    BY <1>1, <1>2, <2>1, <2>2 DEF MediumIsFree
  <2> QED
    BY <2>2, <2>3, <2>4, <2>5, <2>6 DEF Sound
<1> QED
  BY <1>3, <1>4

\* Any other error ends the call, and its request stays the current one
\* (SmartTCPClientMedium._ensure_connection, call_with_body_stream).
LEMMA FailSound ==
  ASSUME Sound, SendFails \/ StreamFails \/ ReadFails
  PROVE  Sound'
<1>1. /\ pc # "idle" /\ Return("failed") /\ Disconnect /\ wire' = "-"
      /\ UNCHANGED <<server, version, current, call, kind, started, trying, attempt, executed>>
  BY DEF SendFails, StreamFails, ReadFails, Fail, Disconnect
<1>2. call \in Call /\ current = call /\ TypeOK /\ left' \in [Call -> BOOLEAN]
  BY <1>1, UnderWay, DisconnectCounted
<1>3. TypeOK' /\ pc' = "idle" /\ result'[call] = "failed"
  <2>1. /\ pc' = "idle" /\ result'[call] = "failed"
        /\ result' \in [Call -> {"-", "answer", "error", "reset", "lost body", "failed", "unknown",
                                 "not a server", "too many requests"}]
    BY <1>1, <1>2, ReturnTypes
  <2>2. server' \in {0, 2, 3} /\ version' \in {0, 2, 3} /\ trying' \in {2, 3}
    BY <1>1, <1>2 DEF TypeOK
  <2> QED
    BY <1>1, <1>2, <2>1, <2>2 DEF TypeOK
<1>4. Control'
  BY <1>1, <1>2, <1>3, Numbers DEF Sound, Control
<1>5. Agreement'
  BY <1>1 DEF Sound, Agreement
<1>6. Counted'
  BY <1>1, <1>3, EndCounted
<1>7. MediumIsFree'
  BY <1>1, <1>2, <1>3 DEF MediumIsFree
<1> QED
  BY <1>3, <1>4, <1>5, <1>6, <1>7 DEF Sound

\* A reset while the response is awaited: the server may keep the request, which
\* is then counted among those left (_call).
LEMMA ReadResetSound == ASSUME Sound, ReadReset PROVE Sound'
<1>1. /\ pc = "read" /\ wire' = "-" /\ Disconnect
      /\ UNCHANGED <<server, version, call, kind, started, trying, executed>>
  BY DEF ReadReset, Disconnect
<1>2. call \in Call /\ current = call /\ TypeOK /\ left' \in [Call -> BOOLEAN]
  BY <1>1, UnderWay, DisconnectCounted
<1>3. CASE MayRetry
  <2>1. /\ attempt # "retry" /\ kind[call] \in {"read", "idem", "semi"}
        /\ attempt' = "retry" /\ pc' = "send" /\ UNCHANGED <<current, result>>
    BY <1>3 DEF ReadReset, MayRetry, SafeToSendTwice
  <2>2. TypeOK'
    BY <1>1, <1>2, <2>1 DEF TypeOK
  <2>3. Control'
    BY <1>1, <2>1 DEF Sound, Control, Once
  <2>4. Agreement'
    BY <1>1 DEF Sound, Agreement
  <2>5. Sent(call)' \in Nat /\ Sent(call)' <= 1 /\ Sends' = 2
    BY <1>1, <2>1, DisconnectCounted DEF Sends
  <2>6. Counted'
    <3>1. Bounded' /\ (server < trying => Sent(call)' = 0)
      BY <1>1, DisconnectCounted
    <3>2. Sent(call)' < Sends' /\ Sent(call)' <= Sends'
      BY <2>5
    <3> QED
      BY <1>1, <3>1, <3>2 DEF Counted
  <2> QED
    BY <2>1, <2>2, <2>3, <2>4, <2>6 DEF Sound, MediumIsFree
<1>4. CASE ~MayRetry
  <2>1. Return("reset") /\ current' = AfterReset /\ attempt' = attempt
    BY <1>4 DEF ReadReset
  <2>2. TypeOK' /\ pc' = "idle" /\ result'[call] = "reset"
    BY <1>1, <1>2, <2>1, ReturnTypes DEF TypeOK, AfterReset
  <2>3. Control'
    BY <1>1, <1>2, <2>1, <2>2, Numbers DEF Sound, Control, AfterReset
  <2>4. Agreement'
    BY <1>1 DEF Sound, Agreement
  <2>5. Counted'
    BY <1>1, <2>2, EndCounted
  <2>6. MediumIsFree'
    BY <1>1, <1>2, <2>1, <2>2 DEF MediumIsFree, AfterReset
  <2> QED
    BY <2>2, <2>3, <2>4, <2>5, <2>6 DEF Sound
<1> QED
  BY <1>3, <1>4

\* Reading.
LEMMA ReadResponseSound == ASSUME Sound, ReadResponse PROVE Sound'
<1>1. /\ pc = "read" /\ wire \in {"answer", "error", "unknown"} /\ wire' = "-"
      /\ version' = (IF wire = "unknown" THEN version ELSE trying)
      /\ UNCHANGED <<server, call, kind, started, trying, attempt, left, executed>>
      /\ \/ wire = "answer" /\ pc' = "body" /\ UNCHANGED <<current, result>>
         \/ Return(wire) /\ current' = 0
  BY DEF ReadResponse, Understood
<1>2. call \in Call /\ current = call /\ TypeOK
  BY <1>1, UnderWay
<1>3. TypeOK' /\ ((pc' = "body" /\ current' = current) \/ (pc' = "idle" /\ current' = 0))
  <2>0. /\ version' \in {0, 2, 3} /\ wire' = "-"
        /\ UNCHANGED <<server, call, kind, started, trying, attempt, left, executed>>
    BY <1>1, <1>2 DEF TypeOK
  <2>1. CASE pc' = "body" /\ UNCHANGED <<current, result>>
    <3>1. server' \in {0, 2, 3} /\ version' \in {0, 2, 3} /\ trying' \in {2, 3}
      BY <1>2, <2>0 DEF TypeOK
    <3>2. TypeOK'
      BY <1>2, <2>0, <2>1, <3>1 DEF TypeOK
    <3> QED
      BY <2>1, <3>2
  <2>2. CASE Return(wire) /\ current' = 0
    <3>1. pc' = "idle" /\ result' \in [Call -> {"-", "answer", "error", "reset", "lost body", "failed", "unknown",
                                             "not a server", "too many requests"}]
      BY <1>1, <1>2, <2>2, ReturnTypes
    <3> QED
      BY <1>2, <2>0, <2>2, <3>1 DEF TypeOK
  <2> QED
    BY <1>1, <2>1, <2>2
<1>4. Control'
  BY <1>1, <1>2, <1>3, Numbers DEF Sound, Control
<1>5. Agreement'
  BY <1>1, <1>2 DEF Sound, Agreement, TypeOK
<1>6. Counted'
  BY <1>1, <1>3, CountedSame DEF Sound, Counted, Bounded, Sends, Arrived
<1> QED
  BY <1>3, <1>4, <1>5, <1>6 DEF Sound, MediumIsFree

\* The next protocol is tried by a client that has had nothing carried out yet
\* (_call_determining_protocol_version).
LEMMA ReadMarkerSound == ASSUME Sound, ReadMarker PROVE Sound'
<1>1. /\ pc = "read" /\ wire = "marker" /\ wire' = "-"
      /\ UNCHANGED <<server, version, call, kind, started, left, executed>>
  BY DEF ReadMarker
<1>2. call \in Call /\ current = call /\ TypeOK /\ server < trying
  BY <1>1, UnderWay DEF Sound, Agreement
<1>3. Sent(call) = 0
  BY <1>1, <1>2 DEF Sound, Counted, Bounded
<1>4. CASE version = 0 /\ Older(trying) # 0
  <2>1. /\ trying = 3 /\ trying' = 2 /\ attempt' = "first" /\ pc' = "send"
        /\ UNCHANGED <<current, result>>
    BY <1>4 DEF ReadMarker, Older
  <2>2. TypeOK'
    BY <1>1, <1>2, <2>1 DEF TypeOK
  <2>3. Control'
    BY <1>1, <2>1 DEF Sound, Control
  <2>4. Agreement'
    BY <1>1, <1>2, <1>4, <2>1, Numbers DEF Sound, Agreement
  <2>5. Counted'
    BY <1>1, <1>3, <2>1, CountedSame DEF Sends, Arrived
  <2> QED
    BY <2>1, <2>2, <2>3, <2>4, <2>5 DEF Sound, MediumIsFree
<1>5. CASE ~(version = 0 /\ Older(trying) # 0)
  <2>1. Return("not a server") /\ current' = 0 /\ UNCHANGED <<trying, attempt>>
    BY <1>5 DEF ReadMarker
  <2>2. TypeOK' /\ pc' = "idle"
    BY <1>1, <1>2, <2>1, ReturnTypes DEF TypeOK
  <2>3. Control'
    <3>1. current' <= call
      <4>1. current' = 0
        BY <2>1
      <4>2. call \in Nat
        BY <1>2, Numbers
      <4> QED
        BY <4>1, <4>2
    <3> QED
      BY <1>1, <2>2, <3>1 DEF Sound, Control
  <2>4. Agreement'
    BY <1>1, <2>1 DEF Sound, Agreement
  <2>5. Counted'
    BY <1>1, <2>2, CountedSame DEF Arrived
  <2> QED
    BY <2>1, <2>2, <2>3, <2>4, <2>5 DEF Sound, MediumIsFree
<1> QED
  BY <1>4, <1>5

\* The body is read, or lost.
LEMMA BodySound == ASSUME Sound, ReadBody \/ BodyReset PROVE Sound'
<1>1. /\ pc = "body" /\ \E how \in {"answer", "lost body"} : Return(how)
      /\ UNCHANGED <<server, version, call, kind, started, trying, attempt, wire, left, executed>>
      /\ current' = 0 \/ (current' = current /\ Return("lost body"))
  BY DEF ReadBody, BodyReset
<1>2. call \in Call /\ current = call /\ TypeOK /\ wire = "-"
  BY <1>1, UnderWay DEF Sound, Control
<1>3. /\ TypeOK' /\ pc' = "idle"
      /\ current' # 0 => result'[call] = "lost body"
  <2>1. /\ pc' = "idle"
        /\ result' \in [Call -> {"-", "answer", "error", "reset", "lost body", "failed", "unknown",
                                 "not a server", "too many requests"}]
    BY <1>1, <1>2, ReturnTypes
  <2>2. current' # 0 => result'[call] = "lost body"
    BY <1>1, <1>2, ReturnTypes
  <2>3. current' \in Call \cup {0}
    BY <1>1, <1>2
  <2> QED
    BY <1>1, <1>2, <2>1, <2>2, <2>3 DEF TypeOK
<1>4. Control'
  <2>1. current' <= call
    <3>1. current' = 0 \/ current' = call
      BY <1>1, <1>2
    <3>2. call \in Nat
      BY <1>2, Numbers
    <3> QED
      BY <3>1, <3>2
  <2> QED
    BY <1>1, <1>2, <1>3, <2>1 DEF Sound, Control
<1>5. Agreement'
  BY <1>1 DEF Sound, Agreement
<1>6. Counted'
  BY <1>1, <1>2, <1>3, CountedSame DEF Arrived
<1>7. MediumIsFree'
  BY <1>1, <1>2, <1>3 DEF MediumIsFree
<1> QED
  BY <1>3, <1>4, <1>5, <1>6, <1>7 DEF Sound

\* The server carries a request out, as often as it was sent at most.
LEMMA ServeSound == ASSUME Sound, Serve PROVE Sound'
<1>1. /\ Arrived /\ wire' \notin {"-", "args", "request"}
      /\ wire' \in {"answer", "error", "unknown", "marker"}
      /\ wire' \in {"answer", "error", "unknown"} <=> server >= trying
      /\ executed' = executed \/ (server >= trying /\ executed' = [executed EXCEPT ![call] = @ + 1])
      /\ UNCHANGED <<server, version, current, call, kind, started, trying, attempt, pc, left, result>>
  BY DEF Serve
<1>2. pc \in {"stream", "read"} /\ call \in Call /\ current = call /\ TypeOK
  <2>1. pc \in {"stream", "read"}
    BY <1>1 DEF Sound, Control, TypeOK, Arrived
  <2> QED
    BY <2>1, UnderWay
<1>3. /\ \A c \in Call : c # call => Sent(c)' = Sent(c)
      /\ Sent(call)' = Sent(call) \/ (server >= trying /\ Sent(call)' = Sent(call) + 1)
      /\ executed' \in [Call -> 0..2]
  <2>1. CASE executed' = executed
    BY <1>1, <1>2, <2>1 DEF Sent, TypeOK
  <2>2. CASE server >= trying /\ executed' = [executed EXCEPT ![call] = executed[call] + 1]
    <3>1. executed'[call] = executed[call] + 1 /\ \A c \in Call : c # call => executed'[c] = executed[c]
      BY <1>2, <2>2 DEF TypeOK
    <3>2. executed[call] \in Nat
      BY <1>2, SentType
    <3>3. Sent(call)' = Sent(call) + 1
      BY <1>1, <3>1, <3>2 DEF Sent
    <3>4. \A c \in Call : c # call => Sent(c)' = Sent(c)
      BY <1>1, <3>1 DEF Sent
    <3>5. executed[call] + 1 \in 0..2
      <4>1. executed[call] <= Sent(call) /\ Sent(call) \in Nat /\ Sent(call) < Sends /\ Sends \in {1, 2}
        BY <1>1, <1>2, SentType DEF Sound, Counted, Bounded, Sends
      <4> QED
        BY <3>2, <4>1
    <3> QED
      BY <1>2, <2>2, <3>3, <3>4, <3>5 DEF TypeOK
  <2> QED
    BY <1>1, <2>1, <2>2
<1>4. Sent(call)' <= Sends' /\ (server < trying => Sent(call)' = 0)
  <2>1. Sent(call) \in Nat /\ Sent(call) < Sends /\ Sends \in {1, 2} /\ Sends' = Sends
    BY <1>1, <1>2, SentType DEF Sound, Counted, Bounded, Sends
  <2>2. server < trying => Sent(call) = 0 /\ ~(server >= trying)
    BY <1>2, Numbers DEF Sound, Counted, Bounded
  <2> QED
    BY <1>3, <2>1, <2>2
<1>5. Counted'
  <2>1. Sent(call)' <= 2 /\ (kind[call] \in Once => Sent(call)' <= 1)
    <3>1. Sends' <= 2 /\ (kind[call] \in Once => Sends' = 1)
      BY <1>1, <1>2 DEF Sound, Control, Sends
    <3>2. Sent(call) \in Nat /\ Sends' \in {1, 2}
      BY <1>2, SentType DEF Sends
    <3> QED
      BY <1>3, <1>4, <3>1, <3>2
  <2>2. \A c \in Call : c > call => c # call
    BY <1>2, CallType
  <2> QED
    BY <1>1, <1>2, <1>3, <1>4, <2>1, <2>2 DEF Sound, Counted, Bounded, Arrived
<1>6. TypeOK'
  BY <1>1, <1>2, <1>3 DEF TypeOK
<1>7. Control'
  BY <1>1, <1>2 DEF Sound, Control
<1>8. Agreement'
  BY <1>1, <1>2, Numbers DEF Sound, Agreement
<1> QED
  BY <1>1, <1>5, <1>6, <1>7, <1>8 DEF Sound, MediumIsFree

\* A request that was left behind is carried out; it was counted before.
LEMMA ServeLateSound == ASSUME Sound, NEW c \in Call, ServeLate(c) PROVE Sound'
<1>1. /\ left[c] /\ left' = [left EXCEPT ![c] = FALSE]
      /\ executed' = [executed EXCEPT ![c] = executed[c] + 1]
      /\ UNCHANGED <<server, version, current, call, kind, started, trying, attempt, pc, wire, result>>
      /\ TypeOK
  BY DEF ServeLate, Sound
<1>2. executed[c] \in 0..2 /\ Sent(c) = executed[c] + 1
  BY <1>1, SentType DEF Sent
<1>3. executed'[c] = executed[c] + 1 /\ left'[c] = FALSE
  BY <1>1 DEF TypeOK
<1>4. Sent(c)' = Sent(c)
  BY <1>2, <1>3 DEF Sent
<1>5. \A d \in Call : Sent(d)' = Sent(d)
  <2>1. \A d \in Call : d # c => executed'[d] = executed[d] /\ left'[d] = left[d]
    BY <1>1 DEF TypeOK
  <2> QED
    BY <1>4, <2>1 DEF Sent
<1>6. TypeOK'
  <2>1. executed[c] + 1 \in 0..2
    BY <1>2 DEF Sound, Counted, Bounded
  <2>2. executed' \in [Call -> 0..2] /\ left' \in [Call -> BOOLEAN]
    BY <1>1, <2>1 DEF TypeOK
  <2>3. UNCHANGED <<server, version, current, call, kind, started, trying, attempt, pc, wire, result>>
    BY <1>1
  <2>4. TypeOK
    BY <1>1
  <2>5. server' \in {0, 2, 3} /\ version' \in {0, 2, 3} /\ trying' \in {2, 3}
    BY <2>3, <2>4 DEF TypeOK
  <2> QED
    BY <2>2, <2>3, <2>4, <2>5 DEF TypeOK
<1>7. Counted'
  <2>1. pc # "idle" => Sent(call)' = Sent(call)
    BY <1>1, <1>5 DEF Sound, Control
  <2>2. Arrived => pc # "idle"
    BY DEF Sound, Control, Arrived
  <2> QED
    BY <1>1, <1>5, <2>1, <2>2 DEF Sound, Counted, Bounded, Sends, Arrived
<1> QED
  BY <1>1, <1>6, <1>7 DEF Sound, Control, Agreement, MediumIsFree

-----------------------------------------------------------------------------
\* Theorems.

\* Every step keeps the invariant.
LEMMA NextSound == Sound /\ [Next]_vars => Sound'
<1> SUFFICES ASSUME Sound, [Next]_vars PROVE Sound'
  OBVIOUS
<1>1. CASE UNCHANGED vars
  <2>1. TypeOK'
    <3>1. server' \in {0, 2, 3} /\ version' \in {0, 2, 3} /\ trying' \in {2, 3}
      BY <1>1 DEF vars, Sound, TypeOK
    <3> QED
      BY <1>1, <3>1 DEF vars, Sound, TypeOK
  <2>2. Control' /\ Agreement' /\ MediumIsFree'
    BY <1>1 DEF vars, Sound, Control, Agreement, MediumIsFree
  <2>3. Counted'
    BY <1>1 DEF vars, Sound, Counted, Bounded, Sent, Sends, Arrived
  <2> QED
    BY <2>1, <2>2, <2>3 DEF Sound
<1>2. CASE Client
  BY <1>2, BeginSound, SendSound, SendStreamSound, NoStreamsSound, SendResetSound, FailSound,
     ReadResetSound, ReadResponseSound, ReadMarkerSound, BodySound DEF Client
<1>3. CASE Serve
  BY <1>3, ServeSound
<1>4. CASE \E c \in Call : ServeLate(c)
  BY <1>4, ServeLateSound
<1> QED
  BY <1>1, <1>2, <1>3, <1>4 DEF Next

\* The invariant holds in every behaviour.
LEMMA AlwaysSound == Spec => []Sound
  BY InitSound, NextSound, PTL DEF Spec

\* Every variable keeps its type; no request is carried out more than twice
\* (_call, _send).
THEOREM TypeCorrect == Spec => []TypeOK
<1>1. Sound => TypeOK
  BY DEF Sound
<1> QED
  BY <1>1, AlwaysSound, PTL

\* For any number of calls and resets, and requests carried out at any later
\* time, what must not be repeated is not (_is_safe_to_send_twice, _call, _send).
THEOREM NothingIsRepeated == Spec => []AtMostOnce
<1>1. Sound => AtMostOnce
  BY DEF Sound, Counted, Bounded, Control, Sent, Once, AtMostOnce
<1> QED
  BY <1>1, AlwaysSound, PTL

\* The client never takes a protocol for agreed that the server does not
\* understand, nor an older one than it could (_call_determining_protocol_version).
THEOREM ProtocolIsAgreed == Spec => []ProtocolAgreed
<1>1. Sound => ProtocolAgreed
  BY DEF Sound, Agreement, ProtocolAgreed
<1> QED
  BY <1>1, AlwaysSound, PTL

\* A request of an earlier call blocks the medium only if that call ended with an
\* error that nobody handles (a connection that cannot be made, a body stream that
\* fails), with a second reset or in its body (SmartClientStreamMedium.reset).
THEOREM MediumIsGivenBack == Spec => []MediumIsFree
<1>1. Sound => MediumIsFree
  BY DEF Sound
<1> QED
  BY <1>1, AlwaysSound, PTL
=============================================================================
