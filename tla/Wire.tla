-------------------------------- MODULE Wire --------------------------------
(***************************************************************************)
(* One connection between a client and the daemon: messages in frames of a *)
(* length prefix and a body over a byte stream that hands over any number  *)
(* of bytes at a time (la-ipc/codec.rs, connection.rs), and the handshake  *)
(* every connection begins with (la-ipc/handshake.rs).  In the daemon the  *)
(* reader's answers and the writer task's notifications share one sink     *)
(* (la-daemon/dispatcher.rs, serve_connection).                            *)
(*                                                                         *)
(* A byte is <<message, position in its frame>>; the prefix bytes of a     *)
(* frame carry the length of its body.                                     *)
(***************************************************************************)
EXTENDS Naturals, Sequences, FiniteSets

CONSTANTS
  Offered,       \* the protocol versions a client may know
  Preferred,     \* the server's versions, a sequence, the most preferred first
  PrefixBytes,   \* LENGTH_PREFIX_BYTES
  MaxMessage,    \* MAX_MESSAGE_BYTES
  MaxRequests, MaxNotes   \* bounds: requests after the handshake, notifications

ASSUME WireAssumption ==
  /\ PrefixBytes \in Nat \ {0} /\ MaxMessage \in Nat \ {0}
  /\ "error" \notin Offered /\ Len(Preferred) \in Nat /\ DOMAIN Preferred = 1..Len(Preferred)

VARIABLES
  offer,      \* protocol_versions of the client
  cli,        \* "start", "await", "ready", "refused", "unexpected", "gone"
  srv,        \* "await", "reply", "serving", "closed"
  agreed,     \* what the answer to initialize said: a version, or "none"
  sink,       \* who holds the lock of the daemon's send half
  answering,  \* the request the daemon's reader answers, or <<>>
  out,        \* by sender: bytes in its write buffer
  arrived,    \* by sender: bytes in its peer's read buffer
  encoded,    \* history, by sender: its messages
  decoded,    \* history, by sender: the messages its peer has received
  cut         \* history: the connection broke

wireVars == <<offer, cli, srv, agreed, sink, answering, out, arrived, encoded, decoded, cut>>
Ends == {"client", "server"}

WireInit ==
  /\ offer \in SUBSET Offered /\ cli = "start" /\ srv = "await" /\ agreed = "none"
  /\ sink = "none" /\ answering = <<>> /\ cut = FALSE
  /\ out = [e \in Ends |-> <<>>] /\ arrived = out /\ encoded = out /\ decoded = out

-----------------------------------------------------------------------------
(* Frames *)

Message(kind, what, size) == [kind |-> kind, what |-> what, size |-> size]

Frame(m) == [i \in 1 .. PrefixBytes + m.size |-> <<m, i>>]

\* The codec's encoder, into the write buffer; its send returns when all is flushed.
Encode(e, m) ==
  /\ ~cut /\ out[e] = <<>> /\ out' = [out EXCEPT ![e] = Frame(m)]
  /\ encoded' = [encoded EXCEPT ![e] = Append(@, m)]

\* Some of the buffer goes out and arrives.
Flush(e, k) ==
  /\ ~cut /\ k <= Len(out[e])
  /\ arrived' = [arrived EXCEPT ![e] = @ \o SubSeq(out[e], 1, k)]
  /\ out' = [out EXCEPT ![e] = SubSeq(@, k + 1, Len(@))]
  /\ UNCHANGED <<offer, cli, srv, agreed, sink, answering, encoded, decoded, cut>>

\* The buffer begins with the whole of a frame that is not too long.
Complete(b) ==
  Len(b) >= PrefixBytes /\ b[1][1].size <= MaxMessage /\ Len(b) >= PrefixBytes + b[1][1].size

\* The body of the first frame is a message, if it is the body of one.
FrameLength(b) == LET n == PrefixBytes + b[1][1].size IN IF n < Len(b) THEN n ELSE Len(b)
Decoded(b) == IF SubSeq(b, 1, FrameLength(b)) = Frame(b[1][1]) THEN b[1][1]
              ELSE Message("garbage", "none", 0)

\* The peer of e takes the next message m.
Decode(e, m) ==
  /\ Complete(arrived[e]) /\ m = Decoded(arrived[e])
  /\ arrived' = [arrived EXCEPT ![e] = SubSeq(@, FrameLength(arrived[e]) + 1, Len(@))]
  /\ decoded' = [decoded EXCEPT ![e] = Append(@, m)]

\* The peer of e hears no more: e has closed, or the connection broke.
Eof(e) ==
  /\ out[e] = <<>> /\ ~Complete(arrived[e])
  /\ cut \/ (e = "server" /\ srv = "closed") \/ (e = "client" /\ cli \in {"refused", "unexpected", "gone"})

-----------------------------------------------------------------------------
(* The client *)

\* client_handshake, or a program that starts with something else.
ClientHello ==
  /\ cli = "start" /\ cli' = "await"
  /\ \E what \in {"initialize", "other"} : Encode("client", Message("request", what, 1))
  /\ UNCHANGED <<offer, srv, agreed, sink, answering, arrived, decoded, cut>>

\* Exactly one message is awaited, and it must be the response.
ClientHandshake ==
  /\ cli = "await"
  /\ LET m == Decoded(arrived["server"]) IN
       /\ Decode("server", m)
       /\ cli' = CASE m.kind = "response" /\ m.what = "error" -> "refused"
                   [] m.kind = "response" /\ m.what \in offer \ {"error"} -> "ready"
                   [] OTHER -> "unexpected"
       /\ agreed' = IF cli' = "ready" THEN m.what ELSE agreed
  /\ UNCHANGED <<offer, srv, sink, answering, out, encoded, cut>>

\* A request that cannot be encoded ends the client's connection.
ClientRequest ==
  /\ cli = "ready" /\ Len(encoded["client"]) <= MaxRequests /\ out["client"] = <<>> /\ ~cut
  /\ \/ \E n \in 1 .. MaxMessage : Encode("client", Message("request", "other", n)) /\ UNCHANGED cli
     \/ cli' = "gone" /\ UNCHANGED <<out, encoded>>
  /\ UNCHANGED <<offer, srv, agreed, sink, answering, arrived, decoded, cut>>

ClientReceive ==
  /\ cli = "ready" /\ LET m == Decoded(arrived["server"]) IN Decode("server", m)
  /\ UNCHANGED <<offer, cli, srv, agreed, sink, answering, out, encoded, cut>>

ClientEof ==
  /\ cli \in {"await", "ready"} /\ Eof("server")
  /\ cli' = IF cli = "await" THEN "unexpected" ELSE "gone"
  /\ UNCHANGED <<offer, srv, agreed, sink, answering, out, arrived, encoded, decoded, cut>>

-----------------------------------------------------------------------------
(* The daemon *)

\* The first version of the server's list that the client knows as well.
Common == {i \in DOMAIN Preferred : Preferred[i] \in offer}
Picked == Preferred[CHOOSE i \in Common : \A j \in Common : i <= j]

\* Mutant: without a common version the daemon waits on.
MutServerHandshake ==
  /\ srv = "await"
  /\ LET m == Decoded(arrived["client"]) IN
       /\ Decode("client", m)
       /\ IF m.what = "initialize" /\ Common # {}
          THEN Encode("server", Message("response", Picked, 1)) /\ srv' = "reply"
          ELSE UNCHANGED <<out, encoded, srv>>
  /\ UNCHANGED <<offer, cli, agreed, sink, answering, cut>>

\* server_handshake: the answer or the refusal is encoded before anything else is.
ServerHandshake ==
  /\ srv = "await"
  /\ LET m == Decoded(arrived["client"]) IN
       /\ Decode("client", m)
       /\ Encode("server", Message("response",
            IF m.what = "initialize" /\ Common # {} THEN Picked ELSE "error", 1))
  /\ srv' = "reply"
  /\ UNCHANGED <<offer, cli, agreed, sink, answering, cut>>

\* The answer is flushed: serve_connection splits the connection and starts the writer,
\* or drops it.
HandshakeDone ==
  /\ srv = "reply" /\ out["server"] = <<>>
  /\ srv' = IF encoded["server"][1].what = "error" THEN "closed" ELSE "serving"
  /\ UNCHANGED <<offer, cli, agreed, sink, answering, out, arrived, encoded, decoded, cut>>

\* The reader takes one request at a time.
ServerReceive ==
  /\ srv = "serving" /\ answering = <<>> /\ sink # "reader"
  /\ LET m == Decoded(arrived["client"]) IN Decode("client", m) /\ answering' = <<m>>
  /\ UNCHANGED <<offer, cli, srv, agreed, sink, out, encoded, cut>>

\* Its response; one that is too large is not encoded, and ends the connection.
Respond ==
  /\ srv = "serving" /\ answering # <<>> /\ answering' = <<>>
  /\ \/ /\ sink = "none" /\ sink' = "reader"
        /\ \E n \in 1 .. MaxMessage : Encode("server", Message("response", "other", n))
        /\ UNCHANGED srv
     \/ srv' = "closed" /\ UNCHANGED <<sink, out, encoded>>
  /\ UNCHANGED <<offer, cli, agreed, arrived, decoded, cut>>

Notified == {i \in DOMAIN encoded["server"] : encoded["server"][i].kind = "note"}

\* Mutant: the writer starts with the connection.
MutNotify ==
  /\ srv # "closed" /\ sink = "none" /\ Cardinality(Notified) < MaxNotes
  /\ Encode("server", Message("note", "none", 1)) /\ sink' = "writer"
  /\ UNCHANGED <<offer, cli, srv, agreed, answering, arrived, decoded, cut>>

\* The writer's notifications fit in a frame.
Notify ==
  /\ srv = "serving" /\ sink = "none" /\ Cardinality(Notified) < MaxNotes
  /\ Encode("server", Message("note", "none", 1)) /\ sink' = "writer"
  /\ UNCHANGED <<offer, cli, srv, agreed, answering, arrived, decoded, cut>>

\* A send has flushed its frame and drops the lock.
SendDone ==
  /\ sink # "none" /\ out["server"] = <<>> /\ sink' = "none"
  /\ UNCHANGED <<offer, cli, srv, agreed, answering, out, arrived, encoded, decoded, cut>>

ServerEof ==
  /\ srv \in {"await", "serving"} /\ answering = <<>> /\ sink # "reader" /\ (cut \/ Eof("client"))
  /\ srv' = "closed"
  /\ UNCHANGED <<offer, cli, agreed, sink, answering, out, arrived, encoded, decoded, cut>>

\* The connection breaks; what has not left a write buffer is lost.
Break ==
  /\ ~cut /\ cut' = TRUE /\ out' = [e \in Ends |-> <<>>]
  /\ UNCHANGED <<offer, cli, srv, agreed, sink, answering, arrived, encoded, decoded>>

-----------------------------------------------------------------------------
Flushes == \E e \in Ends : \E k \in 1 .. Len(out[e]) : Flush(e, k)
ClientMoves == ClientHandshake \/ ClientReceive \/ ClientEof
ServerMoves ==
  ServerHandshake \/ HandshakeDone \/ ServerReceive \/ Respond \/ SendDone \/ ServerEof

WireNext == Flushes \/ ClientHello \/ ClientRequest \/ ClientMoves \/ ServerMoves \/ Notify \/ Break

WireSpec == WireInit /\ [][WireNext]_wireVars

\* The kernel moves bytes, and both processes run.
WireFairness ==
  WF_wireVars(Flushes) /\ WF_wireVars(ClientMoves) /\ WF_wireVars(ServerMoves)

-----------------------------------------------------------------------------
(* Properties *)

\* However the stream is cut up, each side decodes the messages the other encoded, whole
\* and in order: answers and notifications do not run into each other.
FramesAreWhole ==
  \A e \in Ends : Len(decoded[e]) <= Len(encoded[e]) /\ decoded[e] = SubSeq(encoded[e], 1, Len(decoded[e]))

\* The handshake ends as it should unless the connection broke: with the server's choice
\* of the common versions, or with a refusal if there is none (or the client began with
\* another request); the client never meets another message in its place.
HandshakeIsExact ==
  LET greeted == encoded["client"] # <<>> /\ encoded["client"][1].what = "initialize" IN
  /\ cli = "ready" => greeted /\ agreed = Picked
  /\ cli = "refused" => ~greeted \/ Common = {}
  /\ cli = "unexpected" => cut

\* Messages and handshake survive any cutting up of the stream.
ConnectionIsExact == FramesAreWhole /\ HandshakeIsExact

\* A client that said hello is not left waiting.
HelloIsAnswered == cli = "await" ~> cli # "await"

=============================================================================
