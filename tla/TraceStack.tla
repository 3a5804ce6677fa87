----------------------------- MODULE TraceStack -----------------------------
(***************************************************************************)
(* The stack that TRACE records show (captureTraceStack of trace.go), found*)
(* from the program counter of the record on the stack of the goroutine    *)
(* that is handling it.                                                    *)
(*                                                                         *)
(* A program counter is [frame, form]: what it resolves to, and "call" if  *)
(* it is the one that is on stacks, or "inlined" if the caller was inlined *)
(* and other program counters are on stacks for the same frame.            *)
(***************************************************************************)
EXTENDS Integers, Sequences, SequencesExt

CONSTANTS
  NoPC,      \* a record without a program counter
  FirstSize, \* how much of a stack is asked for first
  Stacks,    \* the frames of the code that logs, its caller first
  Depths     \* how many frames of gloq and slog are on top of them

ASSUME TraceAssumption ==
  /\ FirstSize \in Nat \ {0}
  /\ Stacks \subseteq Seq(STRING \ {"gloq"}) \ {<<>>}
  /\ Depths \subseteq Nat
  /\ NoPC \notin [frame : STRING, form : {"call", "inlined"}]

VARIABLES
  logging,   \* the logging call, and whether this goroutine makes it
  size,      \* how much of the stack is asked for
  searching, \* captureTraceStack has not returned
  trace      \* what it returns

traceVars == <<logging, size, searching, trace>>

(* What is on a stack for a frame.                                         *)
PcOf(frame) == [frame |-> frame, form |-> "call"]

Stack ==
  [i \in 1..logging.depth |-> PcOf("gloq")]
    \o IF logging.here
       THEN [i \in DOMAIN logging.callers |-> PcOf(logging.callers[i])]
       ELSE <<>>

(* The program counter of the record.                                      *)
Pc ==
  IF logging.form = "none" THEN NoPC
  ELSE [frame |-> logging.callers[1], form |-> logging.form]

TraceInit ==
  /\ logging \in [callers : Stacks, depth : Depths,
                  form : {"call", "inlined", "none"}, here : BOOLEAN]
  /\ size = FirstSize
  /\ searching = TRUE
  /\ trace = <<>>

(* runtime.Callers                                                         *)
Callers == SubSeq(Stack, 1, IF size < Len(Stack) THEN size ELSE Len(Stack))

(* framesOf                                                                *)
FramesOf(pcs) == [i \in DOMAIN pcs |-> pcs[i].frame]

(* The stack from the caller of the record on, by its program counter or   *)
(* else its frame; the caller alone, if another goroutine logs.            *)
FramesFrom(pcs) ==
  LET same == SelectInSeq(pcs, LAMBDA candidate : candidate = Pc)
      like == SelectInSeq(pcs, LAMBDA candidate : candidate.frame = Pc.frame)
  IN  CASE same # 0 -> FramesOf(SubSeq(pcs, same, Len(pcs)))
        [] same = 0 /\ like # 0 -> FramesOf(SubSeq(pcs, like, Len(pcs)))
        [] OTHER -> <<Pc.frame>>

(* A buffer that is full may have left something out: it is doubled.       *)
Grow ==
  /\ searching /\ Pc # NoPC
  /\ Len(Callers) = size
  /\ size' = 2 * size
  /\ UNCHANGED <<logging, searching, trace>>

Return(frames) ==
  /\ searching' = FALSE
  /\ trace' = frames
  /\ UNCHANGED <<logging, size>>

(* As Capture, but a buffer that is just full is taken.                    *)
CaptureFull ==
  \/ searching /\ Pc # NoPC /\ Len(Callers) <= size /\ Return(FramesFrom(Callers))
  \/ searching /\ Pc = NoPC /\ Return(<<>>)

Capture ==
  \/ searching /\ Pc # NoPC /\ Len(Callers) < size /\ Return(FramesFrom(Callers))
  \/ searching /\ Pc = NoPC /\ Return(<<>>)

TraceNext == Grow \/ Capture

TraceSpec == TraceInit /\ [][TraceNext]_traceVars

(* The stack of a TRACE record is the whole stack of the code that logged  *)
(* it, "starting at the record's caller": "frames inside gloq and slog are *)
(* cut off", however deep either is, and whether or not the caller calls   *)
(* itself or was inlined. Only another goroutine does not know it, and     *)
(* only "a record without a usable PC gets no stack".                      *)
TraceStartsAtCaller ==
  ~searching =>
    trace = CASE logging.form = "none" -> <<>>
              [] logging.form # "none" /\ logging.here -> logging.callers
              [] OTHER -> <<logging.callers[1]>>
=============================================================================
