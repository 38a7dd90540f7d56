--------------------------- MODULE IpcTransport ----------------------------
(***************************************************************************)
(* The framed byte stream between the HTTP server's IPC thread and the     *)
(* helper (src/ipc/transport.rs) with the two loops that use it: the       *)
(* client (src/http_server/client.rs) sends a request and waits for its    *)
(* reply, the helper (src/privileged_helper/helper_service.rs) answers one *)
(* request after the other.  A frame is a length and the bytes of a value; *)
(* the kernel takes and gives any number of them at a time, a deadline may *)
(* pass at any moment, and either side ends its connection at any error.   *)
(* What a request is answered with is an input: one reply for each request *)
(* of the behaviour.                                                       *)
(***************************************************************************)
EXTENDS IpcSchema

CONSTANTS Exchanges,     \* the sequences of <<request, reply>> of a behaviour
          MaxRequest,    \* MAX_REQUEST
          MaxResponse,   \* MAX_RESPONSE
          Capacity,      \* bytes the socket holds in each direction
          ShortSizes,    \* sizes of a transfer that is shorter than it could be
          MaxShort       \* how many of them a behaviour may have

VARIABLES exchanges, \* the requests the client will make and their replies
          turn,      \* the exchange the client is at
          state,     \* of each side: "ready", "send", "receive" or "down"
          out,       \* by direction: bytes of the frame not yet written
          pipe,      \* by direction: bytes in the socket
          part,      \* by direction: what the reader reads, "header" or "body"
          want,      \* by direction: bytes still to be read of it
          got,       \* by direction: bytes read of it
          heard,     \* by direction: the values decoded so far
          cause,     \* of each side: why it went down
          short      \* short transfers so far

vars == <<exchanges, turn, state, out, pipe, part, want, got, heard, cause, short>>

Sides == {"client", "helper"}
Other(side) == IF side = "client" THEN "helper" ELSE "client"

\* The direction a side writes in, and the one it reads from.
Outgoing(side) == IF side = "client" THEN "request" ELSE "response"
Incoming(side) == Outgoing(Other(side))
TypeOf(d) == IF d = "request" THEN MonitorRequest ELSE WireResponse
LimitOf(d) == IF d = "request" THEN MaxRequest ELSE MaxResponse

Frame(bytes) == NumberBytes(Len(bytes), 4) \o bytes

TooLarge == <<1, << <<77>> >> >>   \* the error text is immaterial

\* A reply over the limit is replaced by an error reply.
ReplyFrame_Whole(reply) == Frame(Write(WireResponse, reply))
ReplyFrame(reply) ==
  LET bytes == Write(WireResponse, reply)
  IN Frame(IF Fits(bytes, MaxResponse) THEN bytes ELSE Write(WireResponse, TooLarge))

Down(side, why) ==
  /\ state' = [state EXCEPT ![side] = "down"]
  /\ cause' = [cause EXCEPT ![side] = why]
  /\ out' = [out EXCEPT ![Outgoing(side)] = <<>>]

Init ==
  /\ exchanges \in Exchanges
  /\ turn = 1
  /\ state = [client |-> "ready", helper |-> "receive"]
  /\ out = [request |-> <<>>, response |-> <<>>]
  /\ pipe = out
  /\ part = [request |-> "header", response |-> "header"]
  /\ want = [request |-> 4, response |-> 4]
  /\ got = out
  /\ heard = out
  /\ cause = [client |-> "none", helper |-> "none"]
  /\ short = 0

(* The client takes the next request; one that does not fit is an error    *)
(* before anything is written.                                             *)
Call ==
  /\ state["client"] = "ready"
  /\ turn <= Len(exchanges)
  /\ LET bytes == Write(MonitorRequest, exchanges[turn][1])
     IN IF Fits(bytes, MaxRequest)
        THEN /\ out' = [out EXCEPT !["request"] = Frame(bytes)]
             /\ state' = [state EXCEPT !["client"] = "send"]
             /\ UNCHANGED cause
        ELSE Down("client", "limit")
  /\ UNCHANGED <<exchanges, turn, pipe, part, want, got, heard, short>>

\* How many of at most n bytes a call moves.
Moves(n) == ({n} \ {0}) \cup {k \in ShortSizes : k < n /\ short < MaxShort}

(* write_until: part of the frame goes to the socket; after its last byte  *)
(* the side waits for the other's next frame.                              *)
WriteSome(side) ==
  LET d == Outgoing(side)
      room == Capacity - Len(pipe[d])
      most == IF Len(out[d]) < room THEN Len(out[d]) ELSE room
  IN /\ state[side] = "send"
     /\ state[Other(side)] # "down"
     /\ \E n \in Moves(most) :
          /\ pipe' = [pipe EXCEPT ![d] = @ \o SubSeq(out[d], 1, n)]
          /\ out' = [out EXCEPT ![d] = SubSeq(@, n + 1, Len(@))]
          /\ state' = IF n = Len(out[d]) THEN [state EXCEPT ![side] = "receive"]
                      ELSE state
          /\ short' = IF n < most THEN short + 1 ELSE short
     /\ UNCHANGED <<exchanges, turn, part, want, got, heard, cause>>

\* The reader of d starts over with the header of the next frame.
NextHeader(d) ==
  /\ part' = [part EXCEPT ![d] = "header"]
  /\ want' = [want EXCEPT ![d] = 4]
  /\ got' = [got EXCEPT ![d] = <<>>]

(* The header is whole: a length of zero or over the limit is an error.    *)
HeaderRead(side, bytes) ==
  LET d == Incoming(side)
      size == NumberAt(bytes, 1, 4)
  IN /\ IF size > 0 /\ size <= LimitOf(d)
        THEN /\ part' = [part EXCEPT ![d] = "body"]
             /\ want' = [want EXCEPT ![d] = size]
             /\ got' = [got EXCEPT ![d] = <<>>]
             /\ UNCHANGED <<state, cause, out>>
        ELSE Down(side, "frame") /\ UNCHANGED <<part, want, got>>
     /\ UNCHANGED <<heard, turn>>

(* The body is whole: the value is decoded.  The helper dispatches the     *)
(* request and starts to send its reply; the client hands the reply over.  *)
BodyRead(side, bytes) ==
  LET d == Incoming(side)
      value == Decode(TypeOf(d), bytes)
  IN IF ~value.ok THEN Down(side, "decode") /\ UNCHANGED <<part, want, got, heard, turn>>
     ELSE /\ heard' = [heard EXCEPT ![d] = Append(@, value.v)]
          /\ NextHeader(d)
          /\ IF side = "helper"
             THEN /\ out' = [out EXCEPT !["response"] =
                               ReplyFrame(exchanges[Len(heard[d]) + 1][2])]
                  /\ state' = [state EXCEPT !["helper"] = "send"]
                  /\ UNCHANGED turn
             ELSE /\ state' = [state EXCEPT !["client"] = "ready"]
                  /\ turn' = turn + 1
                  /\ UNCHANGED out
          /\ UNCHANGED cause

(* read_until: bytes come from the socket until the part is whole.         *)
ReadSome(side) ==
  LET d == Incoming(side)
      most == IF Len(pipe[d]) < want[d] THEN Len(pipe[d]) ELSE want[d]
  IN /\ state[side] = "receive"
     /\ \E n \in Moves(most) :
          LET bytes == got[d] \o SubSeq(pipe[d], 1, n)
          IN /\ pipe' = [pipe EXCEPT ![d] = SubSeq(@, n + 1, Len(@))]
             /\ short' = IF n < most THEN short + 1 ELSE short
             /\ CASE n < want[d] ->
                       /\ got' = [got EXCEPT ![d] = bytes]
                       /\ want' = [want EXCEPT ![d] = @ - n]
                       /\ UNCHANGED <<state, cause, out, part, heard, turn>>
                  [] n = want[d] /\ part[d] = "header" -> HeaderRead(side, bytes)
                  [] n = want[d] /\ part[d] = "body" -> BodyRead(side, bytes)
     /\ UNCHANGED exchanges

(* The deadline of a frame passes.  The helper polls without a deadline    *)
(* until the first byte of a request is there.                             *)
Idle(side) ==
  side = "helper" /\ state[side] = "receive" /\ pipe["request"] = <<>>
  /\ got["request"] = <<>> /\ part["request"] = "header"

TimesOut(side) ==
  /\ state[side] \in {"send", "receive"}
  /\ ~Idle(side)
  /\ Down(side, "timeout")
  /\ UNCHANGED <<exchanges, turn, pipe, part, want, got, heard, short>>

(* The other side is gone: a write fails, a read of an empty socket ends.  *)
Disconnected(side) ==
  /\ state[Other(side)] = "down"
  /\ state[side] = "send" \/ (state[side] = "receive" /\ pipe[Incoming(side)] = <<>>)
  /\ Down(side, "peer")
  /\ UNCHANGED <<exchanges, turn, pipe, part, want, got, heard, short>>

\* The behaviour's exchanges are over: the client keeps the connection open.
Finished == turn > Len(exchanges) /\ state["client"] = "ready"
Rest == (Finished \/ \A s \in Sides : state[s] = "down") /\ UNCHANGED vars

Next ==
  \/ Call
  \/ \E side \in Sides : \/ WriteSome(side)
                         \/ ReadSome(side)
                         \/ TimesOut(side)
                         \/ Disconnected(side)
  \/ Rest

Spec == Init /\ [][Next]_vars

-----------------------------------------------------------------------------
(* What the reader of a direction should see as its i-th value. *)
Sent(d, i) ==
  IF d = "request" THEN exchanges[i][1]
  ELSE LET reply == exchanges[i][2]
       IN IF Fits(Write(WireResponse, reply), MaxResponse) THEN reply ELSE TooLarge

(* However the bytes of the frames are cut up by the kernel, the helper    *)
(* decodes exactly the requests that were made, and the client exactly the *)
(* replies to them, in order and each with every field in its place.       *)
InSync ==
  \A d \in {"request", "response"} :
    \A i \in DOMAIN heard[d] : i <= Len(exchanges) /\ heard[d][i] = Sent(d, i)

(* The connection, which all viewers of the server share, is only lost to  *)
(* a deadline or to the other side's end: no request is too long for its   *)
(* frame, no reply ends it by its size, and what one side wrote the other  *)
(* accepts.                                                                *)
OnlyFaultsEnd == \A side \in Sides : cause[side] \in {"none", "timeout", "peer"}
=============================================================================
