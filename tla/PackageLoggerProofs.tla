------------------------ MODULE PackageLoggerProofs -------------------------
(***************************************************************************)
(* Proofs about PackageLogger: the lock of fatalHooks is held only to copy *)
(* or extend the list, and the program exits only after every hook known   *)
(* to a Fatal of the exiting goroutine has run.                            *)
(***************************************************************************)
EXTENDS PackageLogger, TLAPS

(* What a goroutine is called for at each point.                           *)
Shape ==
  \A g \in Goroutines :
    /\ pc[g] \in {"store", "slog"} => call[g] \in [op : {"set"}, logger : Loggers]
    /\ pc[g] \in {"enabled", "handle"} => call[g].op = "log"
    /\ pc[g] \in {"lock", "locked"} => call[g].op \in {"on", "log"}
    /\ pc[g] \in {"run", "hook"} => frames[g] # <<>>

(* The copies of the frames fs are beginnings of the list hs, the inner    *)
(* ones at least as long as the outer, and each begins with what was known.*)
Ordered(fs, hs) ==
  \A i \in 1..Len(fs) :
    /\ StartsWith(hs, fs[i].snap)
    /\ StartsWith(fs[i].snap, fs[i].known)
    /\ \A j \in i..Len(fs) : Len(fs[i].snap) <= Len(fs[j].snap)

Copies ==
  \A g \in Goroutines :
    /\ call[g].op = "log" => StartsWith(hooks, call[g].known)
    /\ Ordered(frames[g], hooks)

(* The goroutine that exited had run its copy to the end.                  *)
Finished ==
  exited # None =>
    /\ frames[exited] # <<>>
    /\ Top(exited).ran = Len(Top(exited).snap)

-----------------------------------------------------------------------------
LEMMA StartsWithAppend ==
  ASSUME NEW hs \in Seq(Hooks), NEW t \in Seq(Hooks), NEW h \in Hooks,
         StartsWith(hs, t)
  PROVE  StartsWith(Append(hs, h), t)
BY DEF StartsWith

LEMMA PushedFrame ==
  ASSUME NEW S, NEW fs \in Seq(S), NEW f \in S
  PROVE  Append(fs, f) # <<>>
<1>1. Len(Append(fs, f)) = Len(fs) + 1 /\ Len(fs) >= 0
  OBVIOUS
<1>2. Len(<<>>) = 0
  OBVIOUS
<1> QED  BY <1>1, <1>2

LEMMA LogFields ==
  ASSUME NEW c \in Calls, c.op = "log"
  PROVE  c.known \in Seq(Hooks) /\ c.fatal \in BOOLEAN
<1>1. c \in [op : {"log"}, fatal : BOOLEAN, known : Seq(Hooks)]
  BY DEF Calls, NoCall
<1> QED  BY <1>1

LEMMA FrameFields ==
  ASSUME NEW fs \in Seq(Frames), NEW i \in 1..Len(fs)
  PROVE  /\ fs[i] \in Frames
         /\ fs[i].snap \in Seq(Hooks)
         /\ fs[i].ran \in Nat
         /\ fs[i].known \in Seq(Hooks)
<1>1. fs[i] \in Frames
  OBVIOUS
<1> QED  BY <1>1 DEF Frames

LEMMA OrderedGrows ==
  ASSUME NEW fs \in Seq(Frames), NEW hs \in Seq(Hooks), NEW h \in Hooks,
         Ordered(fs, hs)
  PROVE  Ordered(fs, Append(hs, h))
<1>1. \A i \in 1..Len(fs) : fs[i].snap \in Seq(Hooks)
  BY FrameFields
<1>2. \A i \in 1..Len(fs) : StartsWith(Append(hs, h), fs[i].snap)
  BY <1>1, StartsWithAppend DEF Ordered
<1> QED  BY <1>2 DEF Ordered

LEMMA OrderedPush ==
  ASSUME NEW fs \in Seq(Frames), NEW hs \in Seq(Hooks),
         NEW known \in Seq(Hooks), Ordered(fs, hs), StartsWith(hs, known)
  PROVE  Ordered(Append(fs, [snap |-> hs, ran |-> 0, known |-> known]), hs)
<1> DEFINE top == [snap |-> hs, ran |-> 0, known |-> known]
           gs == Append(fs, top)
<1>1. Len(gs) = Len(fs) + 1 /\ gs[Len(fs) + 1] = top
      /\ \A i \in 1..Len(fs) : gs[i] = fs[i]
  BY DEF Frames
<1>2. StartsWith(hs, hs)
  BY DEF StartsWith
<1>3. \A i \in 1..Len(fs) : Len(fs[i].snap) <= Len(hs)
  BY DEF Ordered, StartsWith
<1> HIDE DEF gs
<1>4. ASSUME NEW i \in 1..Len(gs)
      PROVE  /\ StartsWith(hs, gs[i].snap)
             /\ StartsWith(gs[i].snap, gs[i].known)
             /\ \A j \in i..Len(gs) : Len(gs[i].snap) <= Len(gs[j].snap)
  <2>1. CASE i = Len(fs) + 1
    BY <1>1, <1>2, <2>1
  <2>2. CASE i \in 1..Len(fs)
    <3>1. StartsWith(hs, gs[i].snap) /\ StartsWith(gs[i].snap, gs[i].known)
      BY <1>1, <2>2 DEF Ordered
    <3>2. ASSUME NEW j \in i..Len(gs)
          PROVE  Len(gs[i].snap) <= Len(gs[j].snap)
      <4>1. CASE j = Len(fs) + 1
        BY <1>1, <1>3, <2>2, <4>1
      <4>2. CASE j \in i..Len(fs)
        BY <1>1, <2>2, <4>2 DEF Ordered
      <4> QED  BY <1>1, <4>1, <4>2, <2>2
    <3> QED  BY <3>1, <3>2
  <2> QED  BY <1>1, <2>1, <2>2
<1>5. Ordered(gs, hs)
  BY <1>4 DEF Ordered
<1> QED  BY <1>5 DEF gs

LEMMA CountedFrame ==
  ASSUME NEW S, NEW f \in [snap : S, ran : Nat, known : S]
  PROVE  LET t == [f EXCEPT !.ran = @ + 1]
         IN  /\ t \in [snap : S, ran : Nat, known : S]
             /\ t.snap = f.snap
             /\ t.known = f.known
OBVIOUS

LEMMA RanFrames ==
  ASSUME NEW fs \in Seq(Frames), fs # <<>>
  PROVE  LET gs == [fs EXCEPT ![Len(fs)].ran = @ + 1]
         IN  /\ gs \in Seq(Frames)
             /\ Len(gs) = Len(fs)
             /\ \A i \in 1..Len(fs) :
                  gs[i].snap = fs[i].snap /\ gs[i].known = fs[i].known
<1> DEFINE n == Len(fs)
           top == [fs[n] EXCEPT !.ran = @ + 1]
           gs == [fs EXCEPT ![n] = top]
<1>1. n \in 1..Len(fs)
  OBVIOUS
<1>2. fs[n] \in Frames /\ fs[n].ran \in Nat
  BY <1>1, FrameFields
<1>3. top \in Frames /\ top.snap = fs[n].snap /\ top.known = fs[n].known
  BY <1>2, CountedFrame DEF Frames
<1> HIDE DEF top
<1>4. gs \in Seq(Frames) /\ Len(gs) = Len(fs) /\ gs[n] = top
      /\ \A i \in 1..Len(fs) : i # n => gs[i] = fs[i]
  BY <1>1, <1>3
<1> HIDE DEF gs
<1>5. \A i \in 1..Len(fs) :
        gs[i].snap = fs[i].snap /\ gs[i].known = fs[i].known
  BY <1>3, <1>4
<1> QED  BY <1>4, <1>5 DEF gs, top

LEMMA OrderedRan ==
  ASSUME NEW fs \in Seq(Frames), NEW hs \in Seq(Hooks), fs # <<>>,
         Ordered(fs, hs)
  PROVE  Ordered([fs EXCEPT ![Len(fs)].ran = @ + 1], hs)
<1> DEFINE gs == [fs EXCEPT ![Len(fs)].ran = @ + 1]
<1>1. /\ Len(gs) = Len(fs)
      /\ \A i \in 1..Len(fs) :
           gs[i].snap = fs[i].snap /\ gs[i].known = fs[i].known
  BY RanFrames
<1> HIDE DEF gs
<1>2. Ordered(gs, hs)
  BY <1>1 DEF Ordered
<1> QED  BY <1>2 DEF gs

(* A copy that was run to its end has every hook its goroutine knew of.    *)
LEMMA AllKnownRan ==
  ASSUME NEW fs \in Seq(Frames), NEW hs \in Seq(Hooks), fs # <<>>,
         Ordered(fs, hs), fs[Len(fs)].ran = Len(fs[Len(fs)].snap),
         NEW i \in 1..Len(fs)
  PROVE  StartsWith(SubSeq(fs[Len(fs)].snap, 1, fs[Len(fs)].ran), fs[i].known)
<1> DEFINE top == fs[Len(fs)].snap
           inner == fs[i].snap
           known == fs[i].known
<1>1. Len(fs) \in 1..Len(fs) /\ Len(fs) \in i..Len(fs)
  OBVIOUS
<1>2. top \in Seq(Hooks) /\ inner \in Seq(Hooks) /\ known \in Seq(Hooks)
  BY <1>1, FrameFields
<1>3. /\ StartsWith(hs, top) /\ StartsWith(hs, inner)
      /\ StartsWith(inner, known) /\ Len(inner) <= Len(top)
  BY <1>1 DEF Ordered
<1>4. fs[Len(fs)].ran = Len(top)
  OBVIOUS
<1>5. SubSeq(top, 1, Len(top)) = top
  BY <1>2
<1> HIDE DEF top, inner, known
<1>6. StartsWith(top, known)
  BY <1>2, <1>3 DEF StartsWith
<1>7. StartsWith(SubSeq(top, 1, Len(top)), known)
  BY <1>5, <1>6
<1> QED  BY <1>7, <1>4 DEF top, known
-----------------------------------------------------------------------------
IInv == TypeOK /\ Shape /\ HooksRunUnlocked /\ Copies /\ Finished

LEMMA InitIInv == Init => IInv
<1> SUFFICES ASSUME Init PROVE IInv
  OBVIOUS
<1> USE PackageAssumption
<1>1. TypeOK
  BY DEF Init, TypeOK, Calls, NoCall, Points
<1>2. Shape
  BY DEF Init, Shape
<1>3. HooksRunUnlocked
  BY DEF Init, HooksRunUnlocked
<1>4. Copies
  <2>1. \A g \in Goroutines : call[g].op # "log" /\ frames[g] = <<>>
    BY DEF Init, NoCall
  <2>2. Ordered(<<>>, hooks)
    BY DEF Ordered
  <2> QED  BY <2>1, <2>2 DEF Copies
<1>5. Finished
  BY DEF Init, Finished
<1> QED  BY <1>1, <1>2, <1>3, <1>4, <1>5 DEF IInv

-----------------------------------------------------------------------------
(* Every step keeps the types.                                             *)
LEMMA NextTypeOK == IInv /\ Next => TypeOK'
<1> SUFFICES ASSUME TypeOK, Shape, Next, NEW g \in Goroutines,
                    Inside(g) \/ UserCode(g)
             PROVE  TypeOK'
  BY DEF IInv, Next
<1> USE DEF TypeOK, Goto
<1>1. \A h \in Goroutines : Home(h) \in Points
  BY DEF Home, Points
<1>2. Return(g) => pc' \in [Goroutines -> Points]
                   /\ call' \in [Goroutines -> Calls]
  BY <1>1 DEF Return, Calls
<1>3. LogReturns(g) => pc' \in [Goroutines -> Points]
                       /\ call' \in [Goroutines -> Calls]
  BY <1>2 DEF LogReturns, Points
<1>4. frames[g] # <<>> =>
        [frames EXCEPT ![g][Len(frames[g])].ran = @ + 1]
          \in [Goroutines -> Seq(Frames)]
  BY RanFrames
<1>a. CASE CallSetDefault(g)
  BY <1>a DEF CallSetDefault, Calls, Points
<1>b. CASE StoreDefault(g)
  BY <1>b DEF StoreDefault, Shape, Points
<1>c. CASE SetSlogDefault(g)
  BY <1>c, <1>2 DEF SetSlogDefault, Shape
<1>d. CASE CallLog(g)
  BY <1>d DEF CallLog, Calls, Points
<1>e. CASE Enabled(g)
  BY <1>e, <1>3 DEF Enabled, Points
<1>f. CASE Handle(g)
  BY <1>f, <1>3 DEF Handle
<1>g. CASE HandlePanics(g)
  BY <1>g, <1>4 DEF HandlePanics, Calls, Points
<1>h. CASE CallOnFatal(g)
  BY <1>h DEF CallOnFatal, Calls, Points
<1>i. CASE Lock(g)
  BY <1>i DEF Lock, Points
<1>j. CASE AppendHook(g)
  <2>1. call[g].hook \in Hooks
    BY <1>j DEF AppendHook, Calls, NoCall
  <2> QED  BY <1>j, <1>2, <2>1 DEF AppendHook
<1>k. CASE CopyHooks(g)
  <2>1. call[g].known \in Seq(Hooks)
    BY <1>k, LogFields DEF CopyHooks
  <2>2. [snap |-> hooks, ran |-> 0, known |-> call[g].known] \in Frames
    BY <2>1 DEF Frames
  <2>3. Append(frames[g], [snap |-> hooks, ran |-> 0, known |-> call[g].known])
          \in Seq(Frames)
    BY <2>2
  <2>4. frames' \in [Goroutines -> Seq(Frames)]
    BY <1>k, <2>3 DEF CopyHooks
  <2> QED  BY <1>k, <2>4 DEF CopyHooks, Calls, Points
<1>l. CASE RunHook(g)
  BY <1>l DEF RunHook, Points
<1>m. CASE HookEnds(g)
  BY <1>m, <1>4 DEF HookEnds, Shape, Points
<1>n. CASE HookGoexits(g)
  BY <1>n DEF HookGoexits, Points
<1>o. CASE Exit(g)
  BY <1>o DEF Exit
<1> QED  BY <1>a, <1>b, <1>c, <1>d, <1>e, <1>f, <1>g, <1>h, <1>i, <1>j, <1>k,
            <1>l, <1>m, <1>n, <1>o DEF Inside, UserCode
(* Every step keeps goroutines at points that fit what they were called    *)
(* for.                                                                    *)
LEMMA NextShape == IInv /\ Next => Shape'
<1> SUFFICES ASSUME TypeOK, Shape, Next, NEW g \in Goroutines,
                    Inside(g) \/ UserCode(g), NEW q \in Goroutines
             PROVE  (/\ pc[q] \in {"store", "slog"} =>
                           call[q] \in [op : {"set"}, logger : Loggers]
                     /\ pc[q] \in {"enabled", "handle"} => call[q].op = "log"
                     /\ pc[q] \in {"lock", "locked"} =>
                           call[q].op \in {"on", "log"}
                     /\ pc[q] \in {"run", "hook"} => frames[q] # <<>>)'
  BY DEF IInv, Next, Shape
<1> USE DEF TypeOK, Goto, Shape
<1>1. Return(g) => /\ pc' = [pc EXCEPT ![g] = Home(g)]
                   /\ Home(g) \in {"idle", "hook"}
                   /\ Home(g) = "hook" => frames[g] # <<>>
                   /\ call' = [call EXCEPT ![g] = NoCall]
  BY DEF Return, Home
<1>2. frames[g] # <<>> =>
        [frames[g] EXCEPT ![Len(frames[g])].ran = @ + 1] # <<>>
  <2>1. ASSUME frames[g] # <<>>
        PROVE  Len([frames[g] EXCEPT ![Len(frames[g])].ran = @ + 1])
                 = Len(frames[g]) /\ Len(frames[g]) > 0
    BY <2>1, RanFrames
  <2> QED  BY <2>1
<1>a. CASE CallSetDefault(g)
  BY <1>a DEF CallSetDefault
<1>b. CASE StoreDefault(g)
  BY <1>b DEF StoreDefault
<1>c. CASE SetSlogDefault(g)
  BY <1>c, <1>1 DEF SetSlogDefault
<1>d. CASE CallLog(g)
  BY <1>d DEF CallLog
<1>e. CASE Enabled(g)
  BY <1>e, <1>1 DEF Enabled, LogReturns
<1>f. CASE Handle(g)
  BY <1>f, <1>1 DEF Handle, LogReturns
<1>g. CASE HandlePanics(g)
  BY <1>g, <1>2 DEF HandlePanics
<1>h. CASE CallOnFatal(g)
  BY <1>h DEF CallOnFatal
<1>i. CASE Lock(g)
  BY <1>i DEF Lock
<1>j. CASE AppendHook(g)
  BY <1>j, <1>1 DEF AppendHook
<1>k. CASE CopyHooks(g)
  <2> DEFINE top == [snap |-> hooks, ran |-> 0, known |-> call[g].known]
  <2>1. frames' = [frames EXCEPT ![g] = Append(@, top)]
        /\ pc' = [pc EXCEPT ![g] = "run"]
        /\ call' = [call EXCEPT ![g] = NoCall]
    BY <1>k DEF CopyHooks
  <2>2. top \in Frames
    BY <1>k, LogFields DEF CopyHooks, Frames
  <2> HIDE DEF top
  <2>3. Append(frames[g], top) # <<>>
    BY <2>2, PushedFrame
  <2> QED  BY <2>1, <2>3
<1>l. CASE RunHook(g)
  BY <1>l DEF RunHook
<1>m. CASE HookEnds(g)
  BY <1>m, <1>2 DEF HookEnds
<1>n. CASE HookGoexits(g)
  BY <1>n DEF HookGoexits
<1>o. CASE Exit(g)
  BY <1>o DEF Exit
<1> QED  BY <1>a, <1>b, <1>c, <1>d, <1>e, <1>f, <1>g, <1>h, <1>i, <1>j,
            <1>k, <1>l, <1>m, <1>n, <1>o DEF Inside, UserCode

(* The lock is taken on the way to "locked" and released on the way out.   *)
LEMMA NextHooksRunUnlocked == IInv /\ Next => HooksRunUnlocked'
<1> SUFFICES ASSUME TypeOK, Shape, HooksRunUnlocked, Next,
                    NEW g \in Goroutines, Inside(g) \/ UserCode(g)
             PROVE  HooksRunUnlocked'
  BY DEF IInv, Next
<1> USE PackageAssumption DEF TypeOK, Goto, HooksRunUnlocked
<1>1. Return(g) => /\ pc' = [pc EXCEPT ![g] = Home(g)]
                   /\ Home(g) \in {"idle", "hook"}
  BY DEF Return, Home
<1>a. CASE CallSetDefault(g)
  BY <1>a DEF CallSetDefault, Free
<1>b. CASE StoreDefault(g)
  BY <1>b DEF StoreDefault
<1>c. CASE SetSlogDefault(g)
  BY <1>c, <1>1 DEF SetSlogDefault
<1>d. CASE CallLog(g)
  BY <1>d DEF CallLog, Free
<1>e. CASE Enabled(g)
  BY <1>e, <1>1 DEF Enabled, LogReturns
<1>f. CASE Handle(g)
  BY <1>f, <1>1 DEF Handle, LogReturns
<1>g. CASE HandlePanics(g)
  BY <1>g DEF HandlePanics
<1>h. CASE CallOnFatal(g)
  BY <1>h DEF CallOnFatal, Free
<1>i. CASE Lock(g)
  BY <1>i DEF Lock
<1>j. CASE AppendHook(g)
  BY <1>j, <1>1 DEF AppendHook
<1>k. CASE CopyHooks(g)
  BY <1>k DEF CopyHooks
<1>l. CASE RunHook(g)
  BY <1>l DEF RunHook
<1>m. CASE HookEnds(g)
  BY <1>m DEF HookEnds
<1>n. CASE HookGoexits(g)
  BY <1>n DEF HookGoexits
<1>o. CASE Exit(g)
  BY <1>o DEF Exit
<1> QED  BY <1>a, <1>b, <1>c, <1>d, <1>e, <1>f, <1>g, <1>h, <1>i, <1>j,
            <1>k, <1>l, <1>m, <1>n, <1>o DEF Inside, UserCode

(* The list only grows at its end, and a copy is the whole list.           *)
LEMMA NextCopies == IInv /\ Next => Copies'
<1> SUFFICES ASSUME TypeOK, Shape, Copies, Next, NEW g \in Goroutines,
                    Inside(g) \/ UserCode(g), NEW q \in Goroutines
             PROVE  (/\ call[q].op = "log" => StartsWith(hooks, call[q].known)
                     /\ Ordered(frames[q], hooks))'
  BY DEF IInv, Next, Copies
<1> USE DEF TypeOK, Goto
<1> DEFINE Kept == call'[q] = call[q] \/ call'[q].op # "log"
<1>1. /\ StartsWith(hooks, hooks)
      /\ call[q].op = "log" => StartsWith(hooks, call[q].known)
      /\ Ordered(frames[q], hooks)
  BY DEF StartsWith, Copies
<1>2. ASSUME hooks' = hooks, frames' = frames,
             \/ call'[q] = call[q]
             \/ call'[q].op # "log"
             \/ call'[q].known = hooks
      PROVE  /\ call'[q].op = "log" => StartsWith(hooks', call'[q].known)
             /\ Ordered(frames'[q], hooks')
  BY <1>1, <1>2
<1>3. ASSUME hooks' = hooks, frames[g] # <<>>,
             frames' = [frames EXCEPT ![g][Len(frames[g])].ran = @ + 1],
             call'[q] = call[q] \/ call'[q].op # "log"
      PROVE  /\ call'[q].op = "log" => StartsWith(hooks', call'[q].known)
             /\ Ordered(frames'[q], hooks')
  <2>1. Ordered(frames'[q], hooks)
    <3>1. CASE q = g
      <4>1. frames'[g] = [frames[g] EXCEPT ![Len(frames[g])].ran = @ + 1]
        BY <1>3
      <4> QED  BY <1>1, <1>3, <3>1, <4>1, OrderedRan
    <3>2. CASE q # g
      BY <1>1, <1>3, <3>2
    <3> QED  BY <3>1, <3>2
  <2> QED  BY <1>1, <1>3, <2>1
<1>4. Return(g) => call'[q] = call[q] \/ call'[q].op # "log"
  BY DEF Return, NoCall
<1>5. LogReturns(g) => call'[q] = call[q] \/ call'[q].op # "log"
  BY <1>4 DEF LogReturns
<1>a. CASE CallSetDefault(g)
  BY <1>a, <1>2 DEF CallSetDefault
<1>b. CASE StoreDefault(g)
  BY <1>b, <1>2 DEF StoreDefault
<1>c. CASE SetSlogDefault(g)
  BY <1>c, <1>2, <1>4 DEF SetSlogDefault
<1>d. CASE CallLog(g)
  BY <1>d, <1>2 DEF CallLog
<1>e. CASE Enabled(g)
  BY <1>e, <1>2, <1>5 DEF Enabled
<1>f. CASE Handle(g)
  BY <1>f, <1>2, <1>5 DEF Handle
<1>g. CASE HandlePanics(g)
  BY <1>g, <1>2, <1>3 DEF HandlePanics, NoCall
<1>h. CASE CallOnFatal(g)
  BY <1>h, <1>2 DEF CallOnFatal
<1>i. CASE Lock(g)
  BY <1>i, <1>2 DEF Lock
<1>j. CASE AppendHook(g)
  <2>1. call[g].hook \in Hooks
    BY <1>j DEF AppendHook, Calls, NoCall
  <2>2. frames' = frames /\ hooks' = Append(hooks, call[g].hook)
    BY <1>j DEF AppendHook
  <2>3. Ordered(frames'[q], hooks')
    BY <1>1, <2>1, <2>2, OrderedGrows
  <2>4. ASSUME call'[q].op = "log"
        PROVE  StartsWith(hooks', call'[q].known)
    <3>1. call'[q] = call[q]
      BY <1>j, <1>4, <2>4 DEF AppendHook
    <3>2. call[q].known \in Seq(Hooks)
      BY <2>4, <3>1, LogFields
    <3> QED  BY <1>1, <2>1, <2>2, <2>4, <3>1, <3>2, StartsWithAppend
  <2> QED  BY <2>3, <2>4
<1>k. CASE CopyHooks(g)
  <2> DEFINE known == call[g].known
             top == [snap |-> hooks, ran |-> 0, known |-> known]
  <2>1. /\ frames' = [frames EXCEPT ![g] = Append(@, top)]
        /\ call' = [call EXCEPT ![g] = NoCall]
        /\ hooks' = hooks
        /\ call[g].op = "log"
    BY <1>k DEF CopyHooks
  <2>2. known \in Seq(Hooks)
    BY <2>1, LogFields
  <2>3. StartsWith(hooks, known) /\ Ordered(frames[g], hooks)
    BY <2>1 DEF Copies
  <2>4. Ordered(Append(frames[g], top), hooks)
    BY <2>2, <2>3, OrderedPush
  <2>5. call'[q] = call[q] \/ call'[q].op # "log"
    BY <2>1 DEF NoCall
  <2> HIDE DEF top, known
  <2>6. Ordered(frames'[q], hooks)
    BY <1>1, <2>1, <2>4
  <2> QED  BY <1>1, <2>1, <2>5, <2>6
<1>l. CASE RunHook(g)
  BY <1>l, <1>2 DEF RunHook
<1>m. CASE HookEnds(g)
  BY <1>m, <1>3 DEF HookEnds, Shape
<1>n. CASE HookGoexits(g)
  BY <1>n, <1>2 DEF HookGoexits
<1>o. CASE Exit(g)
  BY <1>o, <1>2 DEF Exit
<1> QED  BY <1>a, <1>b, <1>c, <1>d, <1>e, <1>f, <1>g, <1>h, <1>i, <1>j,
            <1>k, <1>l, <1>m, <1>n, <1>o DEF Inside, UserCode

(* Only Exit ends the program, and nothing happens after it.               *)
LEMMA NextFinished == IInv /\ Next => Finished'
<1> SUFFICES ASSUME TypeOK, Shape, Next, NEW g \in Goroutines,
                    Inside(g) \/ UserCode(g), exited' # None
             PROVE  Finished'
  BY DEF IInv, Next, Finished
<1>1. exited = None
  BY DEF Next
<1>2. Exit(g)
  BY <1>1 DEF Inside, UserCode, CallSetDefault, StoreDefault, SetSlogDefault,
     CallLog, Enabled, Handle, HandlePanics, CallOnFatal, Lock, AppendHook,
     CopyHooks, RunHook, HookEnds, HookGoexits
<1>3. exited' = g /\ frames' = frames /\ frames[g] # <<>>
  BY <1>2 DEF Exit, Shape
<1>4. Top(g).ran = Len(Top(g).snap)
  BY <1>2 DEF Exit
<1> QED  BY <1>3, <1>4 DEF Finished, Top

-----------------------------------------------------------------------------
LEMMA IInvHolds == Spec => []IInv
<1>1. IInv /\ [Next]_vars => IInv'
  <2>1. IInv /\ Next => IInv'
    BY NextTypeOK, NextShape, NextHooksRunUnlocked, NextCopies, NextFinished
    DEF IInv
  <2>2. IInv /\ UNCHANGED vars => IInv'
    BY DEF IInv, TypeOK, Shape, HooksRunUnlocked, Copies, Finished, Top, vars
  <2> QED  BY <2>1, <2>2
<1> QED  BY InitIInv, <1>1, PTL DEF Spec

(* The state of the package logger is well-formed, for every number of     *)
(* goroutines and hooks and every depth of nested calls of Fatal.          *)
THEOREM PackageTypeCorrect == Spec => []TypeOK
<1>1. IInv => TypeOK
  BY DEF IInv
<1> QED  BY IInvHolds, <1>1, PTL

(* fatalHooks is locked only while its list is copied or extended: no hook *)
(* runs under the lock.                                                    *)
THEOREM HooksRunUnlockedHolds == Spec => []HooksRunUnlocked
<1>1. IInv => HooksRunUnlocked
  BY DEF IInv
<1> QED  BY IInvHolds, <1>1, PTL

(* When Fatal exits, the hooks registered before it was called have run,   *)
(* and those known to the calls of Fatal it is nested in.                  *)
THEOREM HooksBeforeExitHolds == Spec => []HooksBeforeExit
<1>1. IInv => HooksBeforeExit
  <2> SUFFICES ASSUME IInv, exited # None,
                      NEW i \in 1..Len(frames[exited])
               PROVE  StartsWith(SubSeq(Top(exited).snap, 1, Top(exited).ran),
                                 frames[exited][i].known)
    BY DEF HooksBeforeExit
  <2>1. exited \in Goroutines /\ hooks \in Seq(Hooks)
        /\ frames[exited] \in Seq(Frames)
    BY DEF IInv, TypeOK
  <2>2. Ordered(frames[exited], hooks)
    BY <2>1 DEF IInv, Copies
  <2>3. frames[exited] # <<>> /\ Top(exited).ran = Len(Top(exited).snap)
    BY DEF IInv, Finished
  <2> QED  BY <2>1, <2>2, <2>3, AllKnownRan DEF Top
<1> QED  BY IInvHolds, <1>1, PTL
=============================================================================
