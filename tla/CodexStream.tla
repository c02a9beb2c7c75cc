----------------------------- MODULE CodexStream -----------------------------
(***************************************************************************)
(* One call of the Codex model (integrations/openai_codex.py): the answer  *)
(* is streamed to the consumer while it arrives, and a request that fails  *)
(* is sent again as long as the consumer has been given nothing.           *)
(***************************************************************************)
EXTENDS Naturals, Sequences

CONSTANTS
  Parts,      \* text parts of an answer
  Pieces,     \* deltas of a part the server streams
  MaxRetries

CodexAssumption == Parts \in Nat /\ Pieces \in Nat \ {0} /\ MaxRetries \in Nat

NoEvent == [type |-> "none"]
Piece == (1..Parts) \X (1..Pieces)

(* Events of the stream: a piece of text, the whole text of a part, a tool *)
(* call, the two ends, and what the client does not understand.            *)
Event ==
  [type : {"delta"}, piece : Piece] \union [type : {"done"}, part : 1..Parts]
    \union [type : {"tool", "completed", "failed", "other"}]

VARIABLES
  attempt,        \* requests sent before this one
  phase,          \* sending, reading, backoff; returned, raised, cancelled
  block,          \* the event whose lines have arrived without a blank line
  yielded_delta,  \* the consumer has been given text
  yielded_effect, \* the consumer has been given text or a tool call
  given,          \* the chunks yielded, each with its attempt
  server          \* external: how far the answer of this request has come

codexVars == <<attempt, phase, block, yielded_delta, yielded_effect, given, server>>

NewAnswer == [part |-> 1, streamed |-> 0, tool |-> FALSE, over |-> "no", said |-> {}]

----------------------------------------------------------------------------
(* What the server may send next: the deltas of a part, or none of them,   *)
(* then its whole text; a tool call between parts; one end, after which    *)
(* nothing comes.                                                          *)
Says(s) ==
  IF s.over # "no" THEN {} ELSE
  {e \in Event :
     \/ e.type \in {"other", "failed"}
     \/ e.type = "delta" /\ s.part <= Parts /\ s.streamed < Pieces /\ e.piece = <<s.part, s.streamed + 1>>
     \/ e.type = "done" /\ s.part <= Parts /\ s.streamed \in {0, Pieces} /\ e.part = s.part
     \/ e.type = "tool" /\ ~s.tool /\ s.streamed = 0
     \/ e.type = "completed" /\ s.part > Parts}

Said(s, e) ==
  CASE e.type = "delta" -> [s EXCEPT !.streamed = @ + 1, !.said = @ \union {e.piece}]
    [] e.type = "done" -> [s EXCEPT !.part = @ + 1, !.streamed = 0]
    [] e.type = "tool" -> [s EXCEPT !.tool = TRUE]
    [] e.type \in {"completed", "failed"} -> [s EXCEPT !.over = e.type]
    [] OTHER -> s

(* _codex_event_text: a delta, or the text of a part if the consumer has   *)
(* been given no text at all.                                              *)
Text(e) ==
  CASE e.type = "delta" -> <<e.piece>>
    [] e.type = "done" /\ ~yielded_delta -> [k \in 1..Pieces |-> <<e.part, k>>]
    [] OTHER -> <<>>

Chunk(e) ==
  CASE Text(e) # <<>> -> [kind |-> "text", text |-> Text(e), attempt |-> attempt]
    [] e.type = "tool" -> [kind |-> "tool", text |-> <<>>, attempt |-> attempt]
    [] e.type = "completed" -> [kind |-> "last", text |-> <<>>, attempt |-> attempt]
    [] OTHER -> NoEvent

Raises(e) == e.type = "failed"

(* The except clause, for an error that may go away or one that will not.  *)
Except(retryable) ==
  /\ phase' = IF yielded_effect \/ attempt >= MaxRetries \/ ~retryable THEN "raised" ELSE "backoff"
  /\ UNCHANGED <<attempt, yielded_delta, yielded_effect, given>>

(* flush_event, and where the call goes on when it does not raise.         *)
FlushTextOnly(e, next) ==
  IF Raises(e) THEN Except(FALSE)
  ELSE
    /\ phase' = next
    /\ IF Chunk(e) = NoEvent
       THEN UNCHANGED <<yielded_delta, yielded_effect, given>>
       ELSE
         /\ given' = Append(given, Chunk(e))
         /\ yielded_delta' = (yielded_delta \/ Chunk(e).kind = "text")
         /\ yielded_effect' = (yielded_effect \/ Chunk(e).kind = "text")
    /\ UNCHANGED attempt
Flush(e, next) ==
  IF Raises(e) THEN Except(FALSE)
  ELSE
    /\ phase' = next
    /\ IF Chunk(e) = NoEvent
       THEN UNCHANGED <<yielded_delta, yielded_effect, given>>
       ELSE
         /\ given' = Append(given, Chunk(e))
         /\ yielded_delta' = (yielded_delta \/ Chunk(e).kind = "text")
         /\ yielded_effect' = (yielded_effect \/ Chunk(e).kind \in {"text", "tool"})
    /\ UNCHANGED attempt

----------------------------------------------------------------------------
CodexInit ==
  /\ attempt = 0 /\ phase = "sending" /\ block = NoEvent
  /\ yielded_delta = FALSE /\ yielded_effect = FALSE /\ given = <<>>
  /\ server = NewAnswer

(* The request: accepted, refused for now (429, 5xx) or no connection,     *)
(* refused for good.                                                       *)
Connect ==
  /\ phase = "sending"
  /\ \/ phase' = "reading" /\ UNCHANGED <<attempt, yielded_delta, yielded_effect, given>>
     \/ \E retryable \in BOOLEAN : Except(retryable)
  /\ UNCHANGED <<block, server>>

Receive ==
  /\ phase = "reading" /\ block = NoEvent
  /\ \E e \in Says(server) : block' = e /\ server' = Said(server, e)
  /\ UNCHANGED <<attempt, phase, yielded_delta, yielded_effect, given>>

BlankLine ==
  /\ phase = "reading" /\ block # NoEvent
  /\ Flush(block, "reading")
  /\ block' = NoEvent
  /\ UNCHANGED server

(* The body ends, perhaps without a blank line after its last event.       *)
EndOfBody ==
  /\ phase = "reading"
  /\ Flush(block, "returned")
  /\ block' = NoEvent
  /\ UNCHANGED server

(* The connection breaks or nothing comes for too long: an event without   *)
(* its blank line is gone.                                                 *)
Break ==
  /\ phase = "reading"
  /\ Except(TRUE)
  /\ block' = NoEvent
  /\ UNCHANGED server

SendAgainUncounted ==
  /\ phase = "backoff"
  /\ phase' = "sending" /\ attempt' = attempt
  /\ server' = NewAnswer
  /\ UNCHANGED <<block, yielded_delta, yielded_effect, given>>
SendAgain ==
  /\ phase = "backoff"
  /\ phase' = "sending" /\ attempt' = attempt + 1
  /\ server' = NewAnswer
  /\ UNCHANGED <<block, yielded_delta, yielded_effect, given>>

(* _stream. *)
Stream == Connect \/ Receive \/ BlankLine \/ EndOfBody \/ Break \/ SendAgain

(* _astream: the same steps, with an await between any two, where the run  *)
(* may be cancelled; a cancellation is no error the except clause sees.    *)
AStream ==
  \/ Stream
  \/ /\ phase \in {"sending", "reading", "backoff"}
     /\ phase' = "cancelled"
     /\ UNCHANGED <<attempt, block, yielded_delta, yielded_effect, given, server>>

CodexNext == AStream

CodexSpec == CodexInit /\ [][CodexNext]_codexVars

----------------------------------------------------------------------------
Effects == {i \in 1..Len(given) : given[i].kind # "last"}
Shown == UNION {{<<i, j>> : j \in 1..Len(given[i].text)} : i \in 1..Len(given)}
At(x) == given[x[1]].text[x[2]]
Before(x, y) == x[1] < y[1] \/ (x[1] = y[1] /\ x[2] < y[2])

(* Type correctness: a call never sends more than its retries allow.       *)
CodexTypeOK ==
  /\ attempt \in 0..MaxRetries
  /\ phase \in {"sending", "reading", "backoff", "returned", "raised", "cancelled"}
  /\ block \in Event \union {NoEvent}
  /\ \A i \in 1..Len(given) : given[i].kind \in {"text", "tool", "last"} /\ given[i].attempt \in 0..attempt
  /\ server.part \in 1..(Parts + 1) /\ server.streamed \in 0..Pieces /\ server.said \subseteq Piece

(* The text and the tool calls the consumer has been given are of one      *)
(* answer: a request is never repeated after an effect of it was given.    *)
OneAnswer == \A i, j \in Effects : given[i].attempt = given[j].attempt

(* No text is shown twice or out of its order, although every part comes   *)
(* once in pieces and once as a whole.                                     *)
TextOnce == \A x, y \in Shown : Before(x, y) => Before(At(x), At(y))

(* A call that returns has given all the text that was streamed to it, the *)
(* last event included whose blank line never came.                        *)
NothingSkipped == phase = "returned" => server.said \subseteq {At(x) : x \in Shown}

(* A call does not return from an answer that the server ended as failed.  *)
FailureIsTold == phase = "returned" => server.over # "failed"

(* What the code promises of the chunks of one call.                       *)
AnswerIsWhole == CodexTypeOK /\ OneAnswer /\ TextOnce /\ NothingSkipped /\ FailureIsTold

(* A call ends, whatever the network does.                                 *)
CallEnds == <>(phase \in {"returned", "raised", "cancelled"})
=============================================================================
