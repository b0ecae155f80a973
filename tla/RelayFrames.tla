---------------------------- MODULE RelayFrames ----------------------------
(***************************************************************************)
(* The relay passes the event frames of a Responses stream on to Codex as  *)
(* they come, whatever chunks they come in, but holds back a frame that    *)
(* may be a failure until it knows which one: the advice to retry is then  *)
(* replaced or removed (src/src/relay/mod.rs, FrameRewriter).              *)
(*                                                                         *)
(* A frame is a sequence of pieces: the two halves of its event line, the  *)
(* type, the error code and the retry advice in its data, other data, and  *)
(* the blank line.  A chunk ends after any piece.  Whether a streak still  *)
(* has budget for advice is decided by module Relay, and is open here.     *)
(***************************************************************************)
EXTENDS Naturals, Sequences, SequencesExt

CONSTANTS
  Frames,      \* upstream's frames: [kind, code, pieces]
  MaxFrames,   \* frames of a stream (bound)
  MaxPending,  \* MAX_PENDING_FRAME_BYTES, in pieces
  MaxHeld,     \* MAX_HELD_FAILURE_BYTES, in pieces
  NoFrame

Kinds == {"output", "completed", "failed", "error", "incomplete"}
Failures == {"failed", "error", "incomplete"}
Codes == {"overloaded", "login", "other", "too_large"}
Unknown == "unknown"

ASSUME FramesAssumption ==
  /\ MaxPending \in Nat /\ MaxHeld \in Nat
  /\ \A f \in Frames : /\ f.kind \in Kinds /\ f.code \in Codes \cup {Unknown}
                       /\ Last(f.pieces) = "end"
\* Upstream tells an ordinary frame's type before the relay has to give up on
\* holding it.
ASSUME TypeInTimeAssumption ==
  \A f \in Frames : f.kind \notin {"failed", "error", "incomplete"} =>
    \E i \in 1..MaxHeld : i <= Len(f.pieces) /\ f.pieces[i] \in {"type", "name2"}

VARIABLES
  upstream,   \* the frame under way, the next piece of it, and frames begun
  pending,    \* pieces of it not drained yet
  forwarded,  \* how many of those Codex has
  scan,       \* PartialTypeScanner: type, code and advice seen in this frame
  named,      \* pending_kind, from its event line
  cut,        \* failure_frame_truncated: held too long, its pieces are gone
  request,    \* the response: output begun, a stop reported, stops, completions
              \* counted and seen, and whether the stream is over
  out,        \* history: what Codex has of this frame
  got         \* history: the last frame Codex has whole

framesVars == <<upstream, pending, forwarded, scan, named, cut, request, out, got>>

Pieces == {"name1", "name2", "type", "code", "advice", "ours", "bulk", "end"}
NoScan == [hint |-> Unknown, code |-> Unknown, advice |-> FALSE]
Nothing == [frame |-> NoFrame, pieces |-> <<>>, code |-> Unknown, advised |-> FALSE]

FramesTypeOK ==
  /\ upstream.frame \in Frames \cup {NoFrame} /\ upstream.begun \in 0..MaxFrames
  /\ pending \in Seq(Pieces) /\ out \in Seq(Pieces) /\ forwarded \in 0..Len(pending)
  /\ scan.hint \in Kinds \cup {Unknown} /\ scan.code \in Codes \cup {Unknown}
  /\ named \in Kinds \cup {Unknown} /\ cut \in BOOLEAN
  /\ request.over \in BOOLEAN /\ request.stopped \in BOOLEAN

FramesInit ==
  /\ upstream = [frame |-> NoFrame, at |-> 0, begun |-> 0]
  /\ pending = <<>> /\ forwarded = 0
  /\ scan = NoScan /\ named = Unknown /\ cut = FALSE
  /\ request = [output |-> FALSE, stopped |-> FALSE, unadvised |-> FALSE,
                counted |-> FALSE, completed |-> FALSE, over |-> FALSE]
  /\ out = <<>> /\ got = Nothing

---------------------------------------------------------------------------
Known(kind, otherwise) == IF kind # Unknown THEN kind ELSE otherwise

\* Mutated form: the first half of the event line is enough.
EventNameEarly(f, pieces) ==
  CASE Contains(pieces, "name2") -> f.kind [] pieces = <<"name1">> -> "output"
    [] OTHER -> Unknown
\* scan_sse_event_name: only a complete line tells the kind.
EventName(f, pieces) == IF Contains(pieces, "name2") THEN f.kind ELSE Unknown

\* PartialTypeScanner::feed, of one more piece.
Fed(f, piece) ==
  CASE piece = "type"   -> [scan EXCEPT !.hint = f.kind]
    [] piece = "code"   -> [scan EXCEPT !.code = f.code]
    [] piece = "advice" -> [scan EXCEPT !.advice = TRUE]
    [] OTHER            -> scan

\* The frame that stands in for one that could not be held: its code and its
\* advice, as far as the scanner saw them.
Replaced(s) == <<"name1", "name2", "type", "code">>
                 \o (IF s.advice THEN <<"advice">> ELSE <<>>) \o <<"end">>

IsName(piece) == piece \in {"name1", "name2"}
NotAdvice(piece) == piece # "advice"
\* with_retry_advice and without_retry_advice: the event line stays as it was.
WithRetryAdvice(pieces) == SelectSeq(pieces, IsName) \o <<"type", "code", "ours", "end">>
WithoutRetryAdvice(pieces) == SelectSeq(pieces, NotAdvice)

Rest(pieces, n) == IF n < Len(pieces) THEN SubSeq(pieces, n + 1, Len(pieces)) ELSE <<>>

\* RequestOutcome::terminal of a streamed failure: one stop for a response.
Classified(code) == code \in {"overloaded", "login"}
Stopping(code, advised) ==
  IF ~request.stopped /\ ~advised /\ Classified(code)
  THEN [request EXCEPT !.stopped = TRUE, !.unadvised = TRUE]
  ELSE [request EXCEPT !.unadvised = @ \/ ~advised]

\* FrameRewriter::frame: what goes to Codex for a whole frame of this kind.
Framed(kind, code, pieces, advised) ==
  IF kind \in Failures /\ kind = "failed" /\ code = "overloaded"
  THEN IF advised THEN WithRetryAdvice(pieces) ELSE WithoutRetryAdvice(pieces)
  ELSE pieces
Outcome(kind, code, advised) ==
  IF kind \in Failures THEN Stopping(code, advised)
  ELSE [request EXCEPT !.output = TRUE, !.counted = @ \/ kind = "completed"]

Emitted(f, kind, code, pieces) ==
  \E advised \in (IF kind = "failed" /\ code = "overloaded" THEN BOOLEAN ELSE {FALSE}) :
    /\ got' = [frame |-> f, code |-> f.code, advised |-> advised,
               pieces |-> out \o Rest(Framed(kind, code, pieces, advised), forwarded)]
    /\ request' = [Outcome(kind, code, advised) EXCEPT !.completed = @ \/ f.kind = "completed"]

\* scan_event_type, then the event line, then the hint.
KindOfFrame(f, s, frame) == Known(IF Contains(frame, "type") THEN f.kind ELSE Unknown,
                                  Known(EventName(f, frame), s.hint))

\* push, at the blank line.
FrameEnds(f) ==
  LET frame == Append(pending, "end")
      tooLarge == cut \/ (Len(frame) > MaxHeld
                            /\ Known(scan.hint, named) \in Failures \cup {Unknown})
      kind == IF tooLarge THEN "failed" ELSE KindOfFrame(f, scan, frame)
      code == IF tooLarge THEN Known(scan.code, "too_large") ELSE scan.code
  IN  /\ Emitted(f, kind, code, IF tooLarge THEN Replaced(scan) ELSE frame)
      /\ upstream' = [upstream EXCEPT !.frame = NoFrame, !.at = 0]
      /\ pending' = <<>> /\ forwarded' = 0 /\ out' = <<>>
      /\ scan' = NoScan /\ named' = Unknown /\ cut' = FALSE

Next1(f) == upstream' = [upstream EXCEPT !.frame = f, !.at = @ + 1,
                                         !.begun = IF upstream.at = 0 THEN @ + 1 ELSE @]

\* One more piece within the chunk that is being read.
Arrive(f) ==
  /\ ~request.over
  /\ upstream.frame = NoFrame => upstream.begun < MaxFrames
  /\ upstream.frame # NoFrame => f = upstream.frame
  /\ LET piece == f.pieces[upstream.at + 1]
     IN  IF piece = "end" THEN FrameEnds(f)
         ELSE /\ Next1(f)
              /\ pending' = Append(pending, piece)
              /\ scan' = Fed(f, piece)
              /\ UNCHANGED <<forwarded, named, cut, request, out, got>>

\* push, after the last whole frame: pieces of an ordinary frame go on at
\* once, those of a possible failure wait.
ChunkEnds ==
  /\ ~request.over /\ pending # <<>>
  /\ LET name == Known(named, EventName(upstream.frame, pending))
         kind == Known(scan.hint, name)
         ordinary == ~cut /\ kind \notin Failures \cup {Unknown}
         flush == IF Len(pending) > MaxPending THEN Len(pending) - MaxPending ELSE 0
     IN  /\ named' = name
         /\ \/ /\ ordinary
               /\ out' = out \o Rest(pending, forwarded)
               /\ pending' = SubSeq(pending, flush + 1, Len(pending))
               /\ forwarded' = Len(pending) - flush
               /\ UNCHANGED cut
            \/ /\ ~ordinary /\ Len(pending) > MaxHeld
               /\ pending' = <<>> /\ forwarded' = 0 /\ cut' = TRUE
               /\ UNCHANGED out
            \/ /\ ~ordinary /\ Len(pending) <= MaxHeld
               /\ UNCHANGED <<pending, forwarded, cut, out>>
  /\ UNCHANGED <<upstream, scan, request, got>>

\* finish_eof: a failure that was held too long still gets its frame, other
\* pieces go on as they are.
Eof ==
  /\ ~request.over
  /\ IF cut
     THEN /\ \E advised \in (IF scan.code = "overloaded" THEN BOOLEAN ELSE {FALSE}) :
               LET code == Known(scan.code, "too_large")
               IN  /\ got' = [frame |-> upstream.frame, code |-> scan.code, advised |-> advised,
                              pieces |-> Framed("failed", code, Replaced(scan), advised)]
                   /\ request' = [Outcome("failed", code, advised) EXCEPT !.over = TRUE]
          /\ UNCHANGED out
     ELSE /\ out' = out \o Rest(pending, forwarded)
          /\ request' = [request EXCEPT !.over = TRUE]
          /\ UNCHANGED got
  /\ pending' = <<>> /\ forwarded' = 0
  /\ UNCHANGED <<upstream, scan, named, cut>>

\* finish_truncated: a read error ends the stream, and what is pending is gone.
ReadError ==
  /\ ~request.over
  /\ request' = [request EXCEPT !.over = TRUE]
  /\ pending' = <<>> /\ forwarded' = 0
  /\ UNCHANGED <<upstream, scan, named, cut, out, got>>

FramesNext == ChunkEnds \/ Eof \/ ReadError \/ \E f \in Frames : Arrive(f)

FramesSpec == FramesInit /\ [][FramesNext]_framesVars

---------------------------------------------------------------------------
(* The properties.                                                         *)

\* Nothing of a failure reaches Codex before the relay has decided about the
\* advice in it, in whatever pieces and chunks it comes.
FailureHeld ==
  ~request.over /\ upstream.frame # NoFrame =>
    (upstream.frame.kind \in Failures => out = <<>>)

\* Codex gets upstream's frame whole, or the relay's in its place: retry advice
\* on an overload is the relay's or nobody's, and only a failure is replaced.
\* A stream that ends within a failure counts with the code seen by then.
FrameWhole ==
  LET f == got.frame
      advice == {"advice", "ours"} \cap Range(got.pieces)
  IN  f # NoFrame =>
        /\ f.kind \notin Failures => got.pieces = f.pieces
        /\ got.pieces # <<>> /\ Last(got.pieces) = "end"
        /\ got.code = "overloaded" => advice = (IF got.advised THEN {"ours"} ELSE {})
        /\ got.code # "overloaded" => advice = {"advice"} \cap Range(f.pieces)

\* A completed response ends the streak, however long its last frame is, and a
\* stop is reported only for a failure Codex was not advised to retry.
OutcomeSeen ==
  /\ request.completed = request.counted
  /\ request.stopped => request.unadvised

FramesIInv == FramesTypeOK /\ FailureHeld /\ FrameWhole /\ OutcomeSeen
=============================================================================
