--------------------------- MODULE PackageLogger ----------------------------
(***************************************************************************)
(* The package-level logger of logger.go: the default logger that          *)
(* SetDefault replaces, the logging functions, and Fatal, which writes its *)
(* record, runs the hooks registered with OnFatal and exits.               *)
(*                                                                         *)
(* Goroutines call these functions concurrently, and hooks call them too:  *)
(* a hook may log, register another hook, or itself call Fatal. A goroutine*)
(* therefore carries a stack with a frame for each exitFatal it is in.     *)
(***************************************************************************)
EXTENDS Integers, Sequences

CONSTANTS
  Goroutines,
  Loggers,
  Initial,    \* the logger init stores; slog has one of its own
  Hooks,      \* functions passed to OnFatal, each once
  MaxDepth,   \* bound on Fatal calls nested in hooks
  None

ASSUME PackageAssumption ==
  /\ Initial \in Loggers
  /\ MaxDepth \in Nat
  /\ None \notin Goroutines

VARIABLES
  gloqDefault,  \* defaultLogger
  slogDefault,  \* slog's default logger
  hooks,        \* fatalHooks.hooks
  fatalMu,      \* the goroutine that holds fatalHooks, or None
  pc,           \* where each goroutine is
  call,         \* the function each goroutine is in, below its frames
  frames,       \* the exitFatal calls each goroutine is in, innermost last
  exited        \* the goroutine that ended the program, or None

vars == <<gloqDefault, slogDefault, hooks, fatalMu, pc, call, frames, exited>>

NoCall == [op |-> "none"]

(* known is not in the code: the hooks there were when the function was    *)
(* called.                                                                 *)
Calls ==
  {NoCall} \cup [op : {"set"}, logger : Loggers]
           \cup [op : {"on"}, hook : Hooks]
           \cup [op : {"log"}, fatal : BOOLEAN, known : Seq(Hooks)]

Frames == [snap : Seq(Hooks), ran : Nat, known : Seq(Hooks)]

Init ==
  /\ gloqDefault = Initial
  /\ slogDefault = None
  /\ hooks = <<>>
  /\ fatalMu = None
  /\ pc = [g \in Goroutines |-> "idle"]
  /\ call = [g \in Goroutines |-> NoCall]
  /\ frames = [g \in Goroutines |-> <<>>]
  /\ exited = None

(* User code: outside of the package, or in a hook.                        *)
Home(g) == IF frames[g] = <<>> THEN "idle" ELSE "hook"

Free(g) == pc[g] \in {"idle", "hook"}

Top(g) == frames[g][Len(frames[g])]

Goto(g, point) == pc' = [pc EXCEPT ![g] = point]

Return(g) ==
  /\ Goto(g, Home(g))
  /\ call' = [call EXCEPT ![g] = NoCall]

-----------------------------------------------------------------------------
(* As CallSetDefault, but nil is let through.                              *)
CallSetDefaultUnchecked(g) ==
  /\ Free(g)
  /\ \E l \in Loggers \cup {None} :
       call' = [call EXCEPT ![g] = [op |-> "set", logger |-> l]]
  /\ Goto(g, "store")
  /\ UNCHANGED <<gloqDefault, slogDefault, hooks, fatalMu, frames, exited>>

(* SetDefault is called; it panics at once when it is given nil.           *)
CallSetDefault(g) ==
  /\ Free(g)
  /\ \E l \in Loggers : call' = [call EXCEPT ![g] = [op |-> "set", logger |-> l]]
  /\ Goto(g, "store")
  /\ UNCHANGED <<gloqDefault, slogDefault, hooks, fatalMu, frames, exited>>

(* SetDefault: defaultLogger.Store(logger)                                 *)
StoreDefault(g) ==
  /\ pc[g] = "store"
  /\ gloqDefault' = call[g].logger
  /\ Goto(g, "slog")
  /\ UNCHANGED <<slogDefault, hooks, fatalMu, call, frames, exited>>

(* SetDefault: slog.SetDefault(logger)                                     *)
SetSlogDefault(g) ==
  /\ pc[g] = "slog"
  /\ slogDefault' = call[g].logger
  /\ Return(g)
  /\ UNCHANGED <<gloqDefault, hooks, fatalMu, frames, exited>>

(* A logging function, of the package or of a Logger, Fatal or another. It *)
(* keeps to the one logger it is called with or that Default loads for it, *)
(* so which one that is makes no difference to what follows.               *)
CallLog(g) ==
  /\ Free(g)
  /\ \E fatal \in BOOLEAN :
       /\ fatal => Len(frames[g]) < MaxDepth
       /\ call' = [call EXCEPT ![g] =
                     [op |-> "log", fatal |-> fatal, known |-> hooks]]
  /\ Goto(g, "enabled")
  /\ UNCHANGED <<gloqDefault, slogDefault, hooks, fatalMu, frames, exited>>

(* logAt returns: Fatal goes on in exitFatal.                              *)
LogReturns(g) ==
  IF call[g].fatal THEN Goto(g, "lock") /\ UNCHANGED call ELSE Return(g)

(* logAt: the record is dropped unless the logger is enabled.              *)
Enabled(g) ==
  /\ pc[g] = "enabled"
  /\ \/ Goto(g, "handle") /\ UNCHANGED call
     \/ LogReturns(g)
  /\ UNCHANGED <<gloqDefault, slogDefault, hooks, fatalMu, frames, exited>>

(* logAt: the handler takes the record; its error is ignored.              *)
Handle(g) ==
  /\ pc[g] = "handle"
  /\ LogReturns(g)
  /\ UNCHANGED <<gloqDefault, slogDefault, hooks, fatalMu, frames, exited>>

(* A panic in the handler unwinds to whoever called the logging function;  *)
(* when that is a hook, the hook panics and runFatalHook recovers.         *)
HandlePanics(g) ==
  /\ pc[g] = "handle"
  /\ IF frames[g] = <<>>
     THEN /\ Goto(g, "idle")
          /\ UNCHANGED frames
     ELSE /\ Goto(g, "run")
          /\ frames' = [frames EXCEPT ![g][Len(frames[g])].ran = @ + 1]
  /\ call' = [call EXCEPT ![g] = NoCall]
  /\ UNCHANGED <<gloqDefault, slogDefault, hooks, fatalMu, exited>>

-----------------------------------------------------------------------------
Registered == {hooks[i] : i \in 1..Len(hooks)}

CallOnFatal(g) ==
  /\ Free(g)
  /\ \E h \in Hooks :
       /\ h \notin Registered
       /\ \A q \in Goroutines : call[q] # [op |-> "on", hook |-> h]
       /\ call' = [call EXCEPT ![g] = [op |-> "on", hook |-> h]]
  /\ Goto(g, "lock")
  /\ UNCHANGED <<gloqDefault, slogDefault, hooks, fatalMu, frames, exited>>

(* OnFatal and exitFatal: fatalHooks.Lock()                                *)
Lock(g) ==
  /\ pc[g] = "lock"
  /\ fatalMu = None
  /\ fatalMu' = g
  /\ Goto(g, "locked")
  /\ UNCHANGED <<gloqDefault, slogDefault, hooks, call, frames, exited>>

(* OnFatal: the hook is appended and the lock released.                    *)
AppendHook(g) ==
  /\ pc[g] = "locked" /\ call[g].op = "on"
  /\ hooks' = Append(hooks, call[g].hook)
  /\ fatalMu' = None
  /\ Return(g)
  /\ UNCHANGED <<gloqDefault, slogDefault, frames, exited>>

(* As CopyHooks, but the lock is kept while the hooks run.                 *)
CopyHooksLocked(g) ==
  /\ pc[g] = "locked" /\ call[g].op = "log"
  /\ frames' = [frames EXCEPT ![g] =
       Append(@, [snap |-> hooks, ran |-> 0, known |-> call[g].known])]
  /\ Goto(g, "run")
  /\ call' = [call EXCEPT ![g] = NoCall]
  /\ UNCHANGED <<gloqDefault, slogDefault, hooks, fatalMu, exited>>

(* exitFatal: the hooks are copied and the lock released.                  *)
CopyHooks(g) ==
  /\ pc[g] = "locked" /\ call[g].op = "log"
  /\ frames' = [frames EXCEPT ![g] =
       Append(@, [snap |-> hooks, ran |-> 0, known |-> call[g].known])]
  /\ fatalMu' = None
  /\ Goto(g, "run")
  /\ call' = [call EXCEPT ![g] = NoCall]
  /\ UNCHANGED <<gloqDefault, slogDefault, hooks, exited>>

(* exitFatal: the next hook of the copy is called.                         *)
RunHook(g) ==
  /\ pc[g] = "run"
  /\ Top(g).ran < Len(Top(g).snap)
  /\ Goto(g, "hook")
  /\ UNCHANGED <<gloqDefault, slogDefault, hooks, fatalMu, call, frames, exited>>

(* The hook returns, or panics and runFatalHook recovers.                  *)
HookEnds(g) ==
  /\ pc[g] = "hook"
  /\ frames' = [frames EXCEPT ![g][Len(frames[g])].ran = @ + 1]
  /\ Goto(g, "run")
  /\ UNCHANGED <<gloqDefault, slogDefault, hooks, fatalMu, call, exited>>

(* The hook ends its goroutine with runtime.Goexit, which recover does not *)
(* stop: exitFatal never gets to exit.                                     *)
HookGoexits(g) ==
  /\ pc[g] = "hook"
  /\ Goto(g, "gone")
  /\ UNCHANGED <<gloqDefault, slogDefault, hooks, fatalMu, call, frames, exited>>

(* As Exit, but a hook that panicked ends the loop: recover was deferred   *)
(* by exitFatal and not for each hook.                                     *)
ExitAfterPanic(g) ==
  /\ pc[g] = "run"
  /\ exited' = g
  /\ UNCHANGED <<gloqDefault, slogDefault, hooks, fatalMu, pc, call, frames>>

(* exitFatal: exit(1), which ends all goroutines.                          *)
Exit(g) ==
  /\ pc[g] = "run"
  /\ Top(g).ran = Len(Top(g).snap)
  /\ exited' = g
  /\ UNCHANGED <<gloqDefault, slogDefault, hooks, fatalMu, pc, call, frames>>

-----------------------------------------------------------------------------
(* What a goroutine does once it is inside a function of the package.      *)
Inside(g) ==
  \/ StoreDefault(g) \/ SetSlogDefault(g)
  \/ Enabled(g) \/ Handle(g) \/ HandlePanics(g)
  \/ Lock(g) \/ AppendHook(g) \/ CopyHooks(g) \/ RunHook(g) \/ Exit(g)

(* What user code may do.                                                  *)
UserCode(g) ==
  \/ CallSetDefault(g) \/ CallLog(g) \/ CallOnFatal(g)
  \/ HookEnds(g) \/ HookGoexits(g)

Next ==
  /\ exited = None
  /\ \E g \in Goroutines : Inside(g) \/ UserCode(g)

Spec == Init /\ [][Next]_vars

(* Goroutines are scheduled, and a hook, whatever it calls, ends.          *)
FairSpec ==
  /\ Spec
  /\ \A g \in Goroutines :
       /\ WF_vars(exited = None /\ Inside(g))
       /\ SF_vars(exited = None /\ HookEnds(g))

-----------------------------------------------------------------------------
Points == {"idle", "store", "slog", "enabled", "handle", "lock", "locked",
           "run", "hook", "gone"}

(* The type invariant.                                                     *)
TypeOK ==
  /\ gloqDefault \in Loggers
  /\ slogDefault \in Loggers \cup {None}
  /\ hooks \in Seq(Hooks)
  /\ fatalMu \in Goroutines \cup {None}
  /\ pc \in [Goroutines -> Points]
  /\ call \in [Goroutines -> Calls]
  /\ frames \in [Goroutines -> Seq(Frames)]
  /\ exited \in Goroutines \cup {None}

StartsWith(s, t) ==
  Len(t) <= Len(s) /\ \A i \in 1..Len(t) : s[i] = t[i]

(* "OnFatal registers a function that runs after a Fatal record is written *)
(* and before the program exits": the program exits when every hook that   *)
(* was registered before a Fatal of that goroutine, the nested ones        *)
(* included, has been run by the exiting exitFatal, in order, even if      *)
(* hooks panicked, and whatever other goroutines registered or ran.        *)
HooksBeforeExit ==
  exited # None =>
    LET all == frames[exited]
        top == Top(exited)
        ran == SubSeq(top.snap, 1, top.ran)
    IN  \A i \in 1..Len(all) : StartsWith(ran, all[i].known)

(* The lock is held only to append to or copy the list, never while a hook *)
(* runs, so hooks may call OnFatal and Fatal.                              *)
HooksRunUnlocked == \A g \in Goroutines : fatalMu = g <=> pc[g] = "locked"

(* A goroutine that has begun to run the hooks ends the program, unless    *)
(* another one does or a hook ends it: hooks that panic, log, register     *)
(* hooks or call Fatal do not stop it.                                     *)
FatalExits ==
  \A g \in Goroutines :
    pc[g] = "run" ~> exited # None \/ pc[g] = "gone"

(* "SetDefault replaces the logger used by gloq and slog": once no call of *)
(* SetDefault is under way and there has been one, both have the same.     *)
DefaultsAgree ==
  /\ slogDefault # None
  /\ \A g \in Goroutines : pc[g] \notin {"store", "slog"}
  => gloqDefault = slogDefault
=============================================================================
