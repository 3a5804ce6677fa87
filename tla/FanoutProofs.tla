---------------------------- MODULE FanoutProofs -----------------------------
(***************************************************************************)
(* Proofs about NewHandler's level, for any options in any order, and about*)
(* Fanout, for any handlers, levels and number of goroutines that log at   *)
(* the same time.                                                          *)
(***************************************************************************)
EXTENDS Fanout, LoopsProofs, FiniteSetTheorems

Levelers == Int \cup {Var}

Configs == [level : Levelers, levelErr : {None} \cup {o.value : o \in Options}]

SetupTyped ==
  /\ made \in 0..Len(Order)
  /\ given \in Seq(Options)
  /\ config \in Configs
  /\ leveler \in [Handlers -> Levelers \cup {None}]
  /\ \A i \in DOMAIN Order : leveler[Order[i]] = None <=> i > made
  /\ DOMAIN taken = Handlers
  /\ \A i \in DOMAIN Order : i > made => taken[Order[i]] = <<>>

(* The options whose invalid value is still to be reported: the last that  *)
(* asks for something, if that is invalid.                                 *)
Pending == {i \in AskInvalid : IsLast(i, AskValid \cup AskInvalid)}

ErrorIsPending ==
  /\ Pending = {} => config.levelErr = None
  /\ \A i \in Pending :
       config.levelErr = given[i].value /\ config.levelErr # None

SetupInv == SetupTyped /\ LastLevelWins /\ ErrorIsPending

-----------------------------------------------------------------------------
(* A level is read back from its name, and from its number.                *)
LEMMA RoundTrip ==
  ASSUME NEW l \in Int
  PROVE  ParseLevel(LevelName(l)) = l /\ ParseLevel(Text("", l)) = l
<1>1. ParseLevel(Text("", l)) = l
  BY SetupAssumption DEF SetupAssumption, ParseLevel, Text
<1>2. ASSUME NEW name \in DOMAIN Named, NEW k \in Int
      PROVE  ParseLevel(Text(name, k)) = Named[name] + k
  BY <1>2, SetupAssumption DEF SetupAssumption, ParseLevel, Text, Named
<1>3. /\ {"TRACE", "DEBUG", "INFO", "SUCCESS", "WARN", "ERROR", "FATAL"}
           \subseteq DOMAIN Named
      /\ Named["TRACE"] = -8 /\ Named["DEBUG"] = -4 /\ Named["INFO"] = 0
      /\ Named["SUCCESS"] = 2 /\ Named["WARN"] = 4 /\ Named["ERROR"] = 8
      /\ Named["FATAL"] = 12
  BY DEF Named, LevelTrace, LevelDebug, LevelInfo, LevelSuccess, LevelWarn,
         LevelError, LevelFatal
<1>4. ParseLevel(SlogString(l)) = l
  <2>1. \E name \in {"DEBUG", "INFO", "WARN", "ERROR"} :
          SlogString(l) = Text(name, l - Named[name])
    BY <1>3 DEF SlogString, LevelDebug, LevelInfo, LevelWarn, LevelError
  <2>2. PICK name \in {"DEBUG", "INFO", "WARN", "ERROR"} :
          SlogString(l) = Text(name, l - Named[name])
    BY <2>1
  <2>3. Named[name] \in Int /\ l - Named[name] \in Int /\ name \in DOMAIN Named
    BY <1>3
  <2> QED
    BY <1>2, <2>2, <2>3
<1>5. \/ LevelName(l) = SlogString(l)
      \/ LevelName(l) = Text("FATAL", 0) /\ l = 12
      \/ LevelName(l) = Text("SUCCESS", 0) /\ l = 2
      \/ LevelName(l) = Text("TRACE", 0) /\ l = -8
  BY DEF LevelName, LevelTrace, LevelDebug, LevelInfo, LevelSuccess,
         LevelError, LevelFatal
<1>6. /\ ParseLevel(Text("FATAL", 0)) = 12
      /\ ParseLevel(Text("SUCCESS", 0)) = 2
      /\ ParseLevel(Text("TRACE", 0)) = -8
  BY <1>2, <1>3
<1> QED
  BY <1>1, <1>4, <1>5, <1>6

(* What an option does to a config.                                        *)
Applied(c, o) ==
  IF o.by = "level" THEN WithLevel(c, o.value) ELSE WithLevelFromEnv(c, o.value)

LEMMA AsksFor ==
  ASSUME NEW o \in Options, NEW c
  PROVE  \/ Asks(o) = None /\ Applied(c, o) = c
         \/ /\ Asks(o) \in Levelers \ {None, Invalid}
            /\ Applied(c, o) = [level |-> Asks(o), levelErr |-> None]
         \/ /\ Asks(o) = Invalid
            /\ o.value # None
            /\ Applied(c, o) = [c EXCEPT !.levelErr = o.value]
<1> USE SetupAssumption DEF SetupAssumption, Levelers
<1>1. CASE o.by = "level" /\ o.value \in Int \cup {Var, None}
  BY <1>1 DEF Asks, Applied, WithLevel
<1>2. CASE o.by = "env" /\ o.value = None
  BY <1>2 DEF Asks, Applied, WithLevelFromEnv
<1>3. CASE /\ o.by = "env" /\ o.value # None
           /\ \E l \in WrittenLevels : o.value \in Written(l)
  <2>1. \A l \in WrittenLevels : o.value \in Written(l) => ParseLevel(o.value) = l
    BY RoundTrip DEF Written
  <2>2. /\ Asks(o) \in WrittenLevels /\ o.value \in Written(Asks(o))
    BY <1>3 DEF Asks
  <2>3. ParseLevel(o.value) = Asks(o) /\ Asks(o) \in Int
    BY <2>1, <2>2
  <2> QED
    BY <1>3, <2>3 DEF Applied, WithLevelFromEnv, WithLevel
<1>4. CASE /\ o.by = "env" /\ o.value # None
           /\ ~ \E l \in WrittenLevels : o.value \in Written(l)
           /\ ParseLevel(o.value) = Invalid
  BY <1>4 DEF Asks, Applied, WithLevelFromEnv
<1> QED
  BY <1>1, <1>2, <1>3, <1>4, OptionsAssumption DEF OptionsAssumption

-----------------------------------------------------------------------------
LEMMA Start ==
  ASSUME NEW i
  PROVE  StartConfig(i) \in Configs /\ StartConfig(i).levelErr = None
BY SetupAssumption DEF SetupAssumption, StartConfig, WithLevel, Configs, Levelers,
   LevelTrace, LevelDebug, LevelInfo

LEMMA SetupInitInv == SetupInit => SetupInv
<1> SUFFICES ASSUME SetupInit PROVE SetupInv
  OBVIOUS
<1> USE SetupAssumption DEF SetupAssumption, SetupInit
<1>1. SetupTyped
  BY Start DEF SetupTyped, Levelers, Handlers
<1>2. AskValid = {} /\ AskInvalid = {}
  BY DEF AskValid, AskInvalid
<1>3. LastLevelWins
  BY <1>2 DEF LastLevelWins
<1>4. ErrorIsPending
  BY <1>2, Start DEF ErrorIsPending, Pending
<1> QED
  BY <1>1, <1>3, <1>4 DEF SetupInv

(* An option that asks for nothing changes nothing; one that asks for      *)
(* something is the last one to do so.                                     *)
LEMMA OptionStep == SetupInv /\ ApplyOption => SetupInv'
<1> SUFFICES ASSUME SetupInv, ApplyOption PROVE SetupInv'
  OBVIOUS
<1> DEFINE n == Len(given) + 1
<1>1. PICK o \in Options : given' = Append(given, o) /\ config' = Applied(config, o)
  BY DEF ApplyOption, Applied
<1>2. /\ given \in Seq(Options) /\ given' \in Seq(Options)
      /\ DOMAIN given = 1..Len(given) /\ n \in Nat
      /\ DOMAIN given' = DOMAIN given \cup {n} /\ n \notin DOMAIN given
      /\ given'[n] = o /\ \A i \in DOMAIN given : given'[i] = given[i] /\ i < n
  BY <1>1 DEF SetupInv, SetupTyped
<1>3. /\ AskValid' = AskValid \cup {i \in {n} : Asks(o) \notin {None, Invalid}}
      /\ AskInvalid' = AskInvalid \cup {i \in {n} : Asks(o) = Invalid}
      /\ AskValid \subseteq DOMAIN given /\ AskInvalid \subseteq DOMAIN given
  BY <1>2 DEF AskValid, AskInvalid
<1>4. UNCHANGED <<made, leveler, taken>>
  BY DEF ApplyOption
<1>5. SetupTyped'
  <2>1. config' \in Configs
    <3>1. config \in Configs
      BY DEF SetupInv, SetupTyped
    <3>2. \/ config' = config
          \/ \E l \in Levelers : config' = [level |-> l, levelErr |-> None]
          \/ config' = [config EXCEPT !.levelErr = o.value]
      BY <1>1, AsksFor
    <3> QED
      BY <3>1, <3>2 DEF Configs
  <2> QED
    BY <1>2, <1>4, <2>1 DEF SetupInv, SetupTyped
<1>6. \A i \in DOMAIN given : i <= n /\ ~(n <= i)
  BY <1>2
<1>7. CASE Asks(o) = None /\ config' = config
  <2>1. AskValid' = AskValid /\ AskInvalid' = AskInvalid
    BY <1>3, <1>7, SetupAssumption DEF SetupAssumption
  <2>2. LastLevelWins'
    BY <1>2, <1>3, <1>4, <1>7, <2>1 DEF SetupInv, LastLevelWins, IsLast
  <2>3. ErrorIsPending'
    BY <1>2, <1>3, <1>7, <2>1 DEF SetupInv, ErrorIsPending, Pending, IsLast
  <2> QED
    BY <1>5, <2>2, <2>3 DEF SetupInv
<1>8. CASE /\ Asks(o) \in Levelers \ {None, Invalid}
           /\ config' = [level |-> Asks(o), levelErr |-> None]
  <2>1. AskValid' = AskValid \cup {n} /\ AskInvalid' = AskInvalid
    BY <1>3, <1>8
  <2>2. n \in AskValid' /\ IsLast(n, AskValid')
    BY <1>2, <1>3, <1>6, <2>1 DEF IsLast
  <2>3. LastLevelWins'
    BY <1>2, <1>8, <2>2 DEF LastLevelWins
  <2>4. Pending' = {}
    BY <1>2, <1>3, <1>6, <2>1 DEF Pending, IsLast
  <2> QED
    BY <1>5, <1>8, <2>3, <2>4 DEF SetupInv, ErrorIsPending
<1>9. CASE /\ Asks(o) = Invalid /\ o.value # None
           /\ config' = [config EXCEPT !.levelErr = o.value]
  <2>1. AskValid' = AskValid /\ AskInvalid' = AskInvalid \cup {n}
    BY <1>3, <1>9
  <2>2. config'.level = config.level /\ config'.levelErr = o.value
    BY <1>9 DEF SetupInv, SetupTyped, Configs
  <2>3. LastLevelWins'
    BY <1>2, <1>3, <1>4, <2>1, <2>2 DEF SetupInv, LastLevelWins, IsLast
  <2>4. Pending' = {n}
    BY <1>2, <1>3, <1>6, <2>1 DEF Pending, IsLast
  <2> QED
    BY <1>2, <1>5, <1>9, <2>2, <2>3, <2>4 DEF SetupInv, ErrorIsPending
<1> QED
  BY <1>1, <1>7, <1>8, <1>9, AsksFor

(* What a new handler writes.                                              *)
Reports(h) ==
  leveler[h] = None /\ leveler'[h] # None =>
    IF Pending = {} THEN taken'[h] = <<>>
    ELSE \E i \in Pending : taken'[h] = Reported(given[i].value)

LEMMA NewHandlerStep ==
  ASSUME SetupInv, NewHandler
  PROVE  SetupInv' /\ \A h \in Handlers \ Failing : Reports(h)
<1> DEFINE h == Order[made + 1]
<1> USE SetupAssumption DEF SetupAssumption
<1>1. /\ made \in 0..Len(Order) /\ made # Len(Order)
      /\ made + 1 \in DOMAIN Order /\ h \in Handlers
      /\ taken[h] = <<>> /\ leveler[h] = None /\ DOMAIN taken = Handlers
      /\ config.level \in Levelers /\ config.level # None
  BY DEF SetupInv, SetupTyped, NewHandler, Ready, Handlers, Configs, Levelers
<1>2. /\ leveler' = [leveler EXCEPT ![h] = config.level]
      /\ made' = made + 1 /\ given' = <<>> /\ config' = StartConfig(made + 2)
  BY DEF NewHandler
<1>3. \/ config.levelErr # None /\ taken' = [taken EXCEPT ![h] = Reported(config.levelErr)]
      \/ (config.levelErr = None \/ h \in Failing) /\ taken' = taken
  BY DEF NewHandler
<1>4. \A i \in DOMAIN Order : Order[i] = h <=> i = made + 1
  BY <1>1
<1>5. SetupTyped'
  <2>1. leveler' \in [Handlers -> Levelers \cup {None}]
    BY <1>1, <1>2 DEF SetupInv, SetupTyped
  <2>2. \A i \in DOMAIN Order : leveler'[Order[i]] = None <=> i > made'
    BY <1>1, <1>2, <1>4 DEF SetupInv, SetupTyped, Handlers
  <2>3. ASSUME NEW i \in DOMAIN Order, i > made' PROVE taken'[Order[i]] = <<>>
    <3>1. Order[i] \in DOMAIN taken /\ Order[i] # h /\ taken[Order[i]] = <<>>
      BY <1>1, <1>2, <1>4, <2>3 DEF SetupInv, SetupTyped, Handlers
    <3> QED
      BY <1>3, <3>1
  <2>4. DOMAIN taken' = Handlers
    BY <1>1, <1>3
  <2> QED
    BY <1>1, <1>2, <2>1, <2>2, <2>3, <2>4, Start DEF SetupTyped
<1>6. AskValid' = {} /\ AskInvalid' = {}
  BY <1>2 DEF AskValid, AskInvalid
<1>7. LastLevelWins'
  BY <1>1, <1>2, <1>6 DEF LastLevelWins
<1>8. ErrorIsPending'
  BY <1>2, <1>6, Start DEF ErrorIsPending, Pending
<1>9. ASSUME NEW k \in Handlers \ Failing, leveler[k] = None, leveler'[k] # None
      PROVE  IF Pending = {} THEN taken'[k] = <<>>
             ELSE \E i \in Pending : taken'[k] = Reported(given[i].value)
  <2>1. k = h
    BY <1>1, <1>2, <1>9 DEF SetupInv, SetupTyped
  <2> QED
    BY <1>1, <1>3, <1>9, <2>1 DEF SetupInv, ErrorIsPending
<1> QED
  BY <1>5, <1>7, <1>8, <1>9 DEF SetupInv, Reports

(* Once all handlers are made, records that they take change nothing here. *)
LEMMA SetupRest ==
  ASSUME SetupInv, UNCHANGED <<made, given, config, leveler>>,
         UNCHANGED taken \/ (Ready /\ DOMAIN taken' = DOMAIN taken)
  PROVE  SetupInv' /\ \A h \in Handlers : Reports(h)
<1>1. SetupTyped'
  BY SetupAssumption DEF SetupAssumption, SetupInv, SetupTyped, Ready
<1>2. AskValid' = AskValid /\ AskInvalid' = AskInvalid
  BY DEF AskValid, AskInvalid
<1>3. LastLevelWins' /\ ErrorIsPending'
  BY <1>2 DEF SetupInv, LastLevelWins, ErrorIsPending, Pending, IsLast
<1> QED
  BY <1>1, <1>3 DEF SetupInv, Reports

(* The two operations of a setup keep the invariant, and every new handler *)
(* reports what is left to report.                                         *)
LEMMA SetupSteps ==
  ASSUME SetupInv, ApplyOption \/ NewHandler
  PROVE  SetupInv' /\ \A h \in Handlers \ Failing : Reports(h)
<1>1. ASSUME ApplyOption PROVE \A h \in Handlers : Reports(h)
  BY <1>1 DEF ApplyOption, Reports
<1> QED
  BY <1>1, OptionStep, NewHandlerStep

-----------------------------------------------------------------------------
(* Fanout keeps every handler once.                                        *)
LEMMA MembersAre ==
  /\ Members \in Seq(Handlers)
  /\ \A h \in Handlers : \E k \in 1..Len(Members) : Members[k] = h
  /\ \A k, l \in 1..Len(Members) : Members[k] = Members[l] => k = l
<1> DEFINE kept == {i \in DOMAIN Given : Given[i] # None}
<1>1. PICK keep \in SUBSET (1..Len(Given)) :
        /\ \A i \in 1..Len(Given) : i \in keep <=> Given[i] # None
        /\ Members = Appended(Given, keep)[Len(Given)]
  <2>1. DOMAIN Given = 1..Len(Given)
    BY FanoutAssumption DEF FanoutAssumption
  <2>2. kept \in SUBSET (1..Len(Given))
    BY <2>1
  <2>3. \A i \in 1..Len(Given) : i \in kept <=> Given[i] # None
    BY <2>1
  <2>4. Members = Appended(Given, kept)[Len(Given)]
    BY DEF Members
  <2> HIDE DEF kept
  <2> QED
    BY <2>2, <2>3, <2>4
<1>2. /\ Given \in Seq(Handlers \cup {None})
      /\ \A i, j \in keep : Given[i] = Given[j] => i = j
      /\ \A i \in keep : Given[i] \in Handlers
      /\ \A h \in Handlers : \E i \in keep : Given[i] = h
  BY <1>1, FanoutAssumption DEF FanoutAssumption
<1>3. /\ Members \in Seq(Handlers \cup {None})
      /\ \A i \in keep : \E k \in 1..Len(Members) : Members[k] = Given[i]
      /\ \A k \in 1..Len(Members) : \E i \in keep : Members[k] = Given[i]
      /\ \A k, l \in 1..Len(Members) : Members[k] = Members[l] => k = l
  <2> DEFINE last == Appended(Given, keep)[Len(Given)]
  <2>1. /\ last \in Seq(Handlers \cup {None})
        /\ \A i \in keep : \E k \in 1..Len(last) : last[k] = Given[i]
        /\ \A k \in 1..Len(last) : \E i \in keep : last[k] = Given[i]
        /\ (\A i, j \in keep : Given[i] = Given[j] => i = j) =>
             \A k, l \in 1..Len(last) : last[k] = last[l] => k = l
    BY <1>2, AppendedAre, SMTT(30)
  <2> QED
    BY <1>1, <1>2, <2>1
<1>4. Members \in Seq(Handlers)
  <2>1. \A q \in Seq(Handlers \cup {None}) :
          (\A k \in 1..Len(q) : q[k] \in Handlers) => q \in Seq(Handlers)
    OBVIOUS
  <2>2. \A k \in 1..Len(Members) : Members[k] \in Handlers
    BY <1>2, <1>3
  <2> QED
    BY <1>3, <2>1, <2>2
<1>5. \A h \in Handlers : \E k \in 1..Len(Members) : Members[k] = h
  BY <1>2, <1>3
<1> QED
  BY <1>3, <1>4, <1>5

-----------------------------------------------------------------------------
(* What the writer of handler h has taken: the report of its setup, and    *)
(* records with what the handler itself adds.                              *)
Entries(h) ==
  [rec : Records, attrs : {IF h \in Adders THEN <<h>> ELSE <<>>}]
    \cup [rec : {Report}, attrs : {<<o.value>> : o \in Options}]

FanoutTyped ==
  /\ \A h \in Handlers : taken[h] \in Seq(Entries(h))
  /\ levelVar \in VarLevels \cup {LevelInfo}
  /\ ended \in BOOLEAN
  /\ call \in [Goroutines -> Calls \cup {None}]
  /\ result \in [Records -> Calls \cup {None}]
  /\ ~Ready => (\A g \in Goroutines : call[g] = None)
               /\ (\A r \in Records : result[r] = None)

(* As Took, in what has been taken.                                        *)
TookIn(has, h, r) == {n \in DOMAIN has[h] : has[h][n].rec = r}

(* Handle has been past the k-th handler.                                  *)
Passed(c, k) == c.point \notin {"enabled", "disabled"} /\ k < c.at

(* How a call stands with its k-th handler h, given what has been taken    *)
(* and whether the tests are over: if Handle has been past the handler it  *)
(* has the record, or there is a reason why not; if not, nothing has       *)
(* happened to it, and if Enabled has been past it, it was not enabled.    *)
Stands(c, k, h, has, over) ==
  /\ Passed(c, k) =>
       \/ h \notin c.always
       \/ TookIn(has, h, c.rec) # {}
       \/ h \in c.errs
       \/ h \in TestLoggers /\ over
  /\ ~Passed(c, k) => TookIn(has, h, c.rec) = {} /\ h \notin c.errs
  /\ TookIn(has, h, c.rec) # {} \/ h \in c.errs => h \in c.ever
  /\ c.point \in {"enabled", "disabled"} /\ k < c.at => h \notin c.always

Served(c, has, over) ==
  /\ c.point = "handle" => c.at <= Len(Members) /\ Members[c.at] \in c.ever
  /\ c.always \subseteq c.ever
  /\ c.errs \cap TestLoggers = {}
  /\ \A k \in 1..Len(Members) : Stands(c, k, Members[k], has, over)

(* What holds as long as a call lasts.                                     *)
InFlight(c) ==
  /\ c.point \in {"enabled", "check", "handle"}
  /\ c.always \subseteq EnabledNow(c.rec, levelVar)
  /\ EnabledNow(c.rec, levelVar) \subseteq c.ever

(* And when it has ended.                                                  *)
HasEnded(c) ==
  /\ c.point \in {"done", "panic", "disabled"}
  /\ c.point # "panic" => c.at = Len(Members) + 1
  /\ c.point = "panic" => c.at <= Len(Members) /\ Members[c.at] \notin TestLoggers

InCall(r) == \E g \in Goroutines : call[g] # None /\ call[g].rec = r

CallsStand ==
  /\ \A g \in Goroutines : call[g] # None =>
       /\ Served(call[g], taken, ended)
       /\ InFlight(call[g])
       /\ result[call[g].rec] = None
  /\ \A g, p \in Goroutines :
       call[g] # None /\ call[p] # None /\ call[g].rec = call[p].rec => g = p
  /\ \A r \in Records : result[r] # None =>
       result[r].rec = r /\ Served(result[r], taken, ended) /\ HasEnded(result[r])
  /\ \A h \in Handlers, r \in Records :
       /\ TookIn(taken, h, r) # {} => result[r] # None \/ InCall(r)
       /\ \A m, n \in TookIn(taken, h, r) : m = n

IInv == SetupInv /\ FanoutTyped /\ CallsStand

LEMMA InitInv == Init => IInv
<1> SUFFICES ASSUME Init PROVE IInv
  OBVIOUS
<1>1. SetupInv
  BY SetupInitInv DEF Init
<1>2. \A h \in Handlers : taken[h] = <<>>
  BY DEF Init, SetupInit
<1>3. FanoutTyped
  <2>1. \A h \in Handlers : taken[h] \in Seq(Entries(h))
    <3>1. \A S : <<>> \in Seq(S)
      OBVIOUS
    <3> QED
      BY <1>2, <3>1
  <2> QED
    BY <2>1 DEF Init, FanoutTyped
<1>4. \A h \in Handlers, r \in Records : TookIn(taken, h, r) = {}
  BY <1>2 DEF TookIn
<1>5. CallsStand
  BY <1>4 DEF Init, CallsStand
<1> QED
  BY <1>1, <1>3, <1>5 DEF IInv

-----------------------------------------------------------------------------
(* How a call stands does not change by what happens to other records, nor *)
(* when tests end.                                                         *)
LEMMA StillServed ==
  ASSUME NEW c, NEW has, NEW has2, NEW over, NEW over2,
         Served(c, has, over), over => over2,
         \A h \in Handlers : TookIn(has2, h, c.rec) = TookIn(has, h, c.rec)
  PROVE  Served(c, has2, over2)
<1>1. \A k \in 1..Len(Members) : Members[k] \in Handlers
  BY MembersAre
<1>2. ASSUME NEW k \in 1..Len(Members), Stands(c, k, Members[k], has, over)
      PROVE  Stands(c, k, Members[k], has2, over2)
  BY <1>1, <1>2 DEF Stands
<1> QED
  BY <1>2 DEF Served

(* A call of goroutine g goes on as d, or ends as d.                       *)
LEMMA CallGoesOn ==
  ASSUME IInv, NEW g \in Goroutines, call[g] # None,
         NEW d \in Calls, d.rec = call[g].rec,
         Served(d, taken', ended),
         \A h \in Handlers, r \in Records : r # d.rec =>
           TookIn(taken', h, r) = TookIn(taken, h, r),
         \A h \in Handlers : \A m, n \in TookIn(taken', h, d.rec) : m = n,
         UNCHANGED <<made, leveler, levelVar, ended>>,
         \/ /\ call' = [call EXCEPT ![g] = d]
            /\ UNCHANGED result
            /\ InFlight(d)
         \/ /\ call' = [call EXCEPT ![g] = None]
            /\ result' = [result EXCEPT ![d.rec] = d]
            /\ HasEnded(d)
  PROVE  CallsStand'
<1> USE CallAssumption DEF CallAssumption
<1>1. /\ call \in [Goroutines -> Calls \cup {None}]
      /\ result \in [Records -> Calls \cup {None}]
      /\ d.rec \in Records /\ d # None
  BY DEF IInv, FanoutTyped, Calls
<1>2. \A r, value : EnabledNow(r, value)' = EnabledNow(r, value)
  BY DEF EnabledNow, EnabledAt
<1>3. ASSUME NEW c \in Calls, c.rec # d.rec, Served(c, taken, ended)
      PROVE  Served(c, taken', ended')
  BY <1>3, StillServed DEF Calls
<1>4. /\ result[d.rec] = None
      /\ \A p \in Goroutines : p # g => call'[p] = call[p]
      /\ \A p \in Goroutines : p # g /\ call[p] # None => call[p].rec # d.rec
      /\ \A r \in Records : r # d.rec => result'[r] = result[r]
  BY <1>1 DEF IInv, CallsStand
<1>5. \A p \in Goroutines : p # g /\ call'[p] # None =>
        /\ Served(call'[p], taken', ended')
        /\ InFlight(call[p])'
        /\ call'[p].rec # d.rec
        /\ result'[call'[p].rec] = None
  <2> SUFFICES ASSUME NEW p \in Goroutines, p # g, call[p] # None
               PROVE  /\ Served(call[p], taken', ended')
                      /\ InFlight(call[p])'
                      /\ result'[call[p].rec] = None
    BY <1>4
  <2>1. call[p] \in Calls /\ call[p].rec \in Records /\ call[p].rec # d.rec
    BY <1>1, <1>4 DEF Calls
  <2>2. Served(call[p], taken', ended')
    BY <1>3, <2>1 DEF IInv, CallsStand
  <2>3. InFlight(call[p])'
    BY <1>2, <1>4 DEF IInv, CallsStand, InFlight
  <2> QED
    BY <1>4, <2>1, <2>2, <2>3 DEF IInv, CallsStand
<1>6. \A r \in Records : r # d.rec /\ result'[r] # None =>
        result'[r].rec = r /\ Served(result'[r], taken', ended') /\ HasEnded(result'[r])
  BY <1>1, <1>3, <1>4 DEF IInv, CallsStand
<1>7. \A h \in Handlers, r \in Records :
        \A m, n \in TookIn(taken', h, r) : m = n
  BY DEF IInv, CallsStand
<1>8. \A h \in Handlers, r \in Records :
        r # d.rec /\ TookIn(taken', h, r) # {} => result'[r] # None \/ InCall(r)'
  <2>1. \A r \in Records : r # d.rec /\ InCall(r) => InCall(r)'
    BY <1>4 DEF InCall
  <2> QED
    BY <1>4, <2>1 DEF IInv, CallsStand
<1>9. CASE call' = [call EXCEPT ![g] = d] /\ UNCHANGED result /\ InFlight(d)
  <2>1. call'[g] = d /\ InCall(d.rec)'
    BY <1>1, <1>9 DEF InCall
  <2>2. InFlight(call[g])'
    BY <1>2, <1>9, <2>1 DEF InFlight
  <2>3. ASSUME NEW p \in Goroutines, call'[p] # None
        PROVE  /\ Served(call'[p], taken', ended') /\ InFlight(call[p])'
               /\ result'[call'[p].rec] = None
    <3>1. CASE p = g
      BY <1>4, <1>9, <2>1, <2>2, <3>1
    <3>2. CASE p # g
      BY <1>5, <2>3, <3>2
    <3> QED
      BY <3>1, <3>2
  <2>4. \A p, q \in Goroutines :
          call'[p] # None /\ call'[q] # None /\ call'[p].rec = call'[q].rec => p = q
    BY <1>4, <2>1 DEF IInv, CallsStand
  <2>5. \A r \in Records : result'[r] # None =>
          result'[r].rec = r /\ Served(result'[r], taken', ended') /\ HasEnded(result'[r])
    BY <1>4, <1>6, <1>9
  <2>6. \A h \in Handlers, r \in Records :
          TookIn(taken', h, r) # {} => result'[r] # None \/ InCall(r)'
    BY <1>8, <2>1
  <2> QED
    BY <1>7, <2>3, <2>4, <2>5, <2>6 DEF CallsStand
<1>10. CASE /\ call' = [call EXCEPT ![g] = None]
            /\ result' = [result EXCEPT ![d.rec] = d]
            /\ HasEnded(d)
  <2>1. call'[g] = None /\ result'[d.rec] = d
    BY <1>1, <1>10
  <2>2. \A p \in Goroutines : call'[p] # None =>
          /\ Served(call'[p], taken', ended') /\ InFlight(call[p])'
          /\ result'[call'[p].rec] = None
    BY <1>5, <2>1
  <2>3. \A p, q \in Goroutines :
          call'[p] # None /\ call'[q] # None /\ call'[p].rec = call'[q].rec => p = q
    BY <1>4, <2>1 DEF IInv, CallsStand
  <2>4. \A r \in Records : result'[r] # None =>
          result'[r].rec = r /\ Served(result'[r], taken', ended') /\ HasEnded(result'[r])
    BY <1>1, <1>6, <1>10, <2>1
  <2>5. \A h \in Handlers, r \in Records :
          TookIn(taken', h, r) # {} => result'[r] # None \/ InCall(r)'
    BY <1>1, <1>8, <2>1
  <2> QED
    BY <1>7, <2>2, <2>3, <2>4, <2>5 DEF CallsStand
<1> QED
  BY <1>9, <1>10

-----------------------------------------------------------------------------
LEMMA InCallFacts ==
  ASSUME IInv, NEW g \in Goroutines, call[g] # None
  PROVE  /\ Ready
         /\ call[g] \in Calls /\ call[g].at \in 1..(Len(Members) + 1)
         /\ call[g].rec \in Records /\ Len(Members) \in Nat
         /\ Served(call[g], taken, ended) /\ InFlight(call[g])
         /\ result[call[g].rec] = None
         /\ \A k \in 1..Len(Members) : Members[k] \in Handlers
<1>1. Ready /\ call[g] \in Calls
  BY DEF IInv, FanoutTyped
<1>2. /\ Served(call[g], taken, ended) /\ InFlight(call[g])
      /\ result[call[g].rec] = None
  BY DEF IInv, CallsStand
<1> QED
  BY <1>1, <1>2, MembersAre DEF Calls

(* The same when nothing is taken.                                         *)
LEMMA CallMovesOn ==
  ASSUME IInv, NEW g \in Goroutines, call[g] # None,
         NEW d \in Calls, d.rec = call[g].rec,
         Served(d, taken, ended),
         UNCHANGED <<setupVars, levelVar, ended>>,
         \/ /\ call' = [call EXCEPT ![g] = d]
            /\ UNCHANGED result
            /\ InFlight(d)
         \/ /\ call' = [call EXCEPT ![g] = None]
            /\ result' = [result EXCEPT ![d.rec] = d]
            /\ HasEnded(d)
  PROVE  IInv'
<1>1. CallsStand'
  <2>1. \A h \in Handlers, r \in Records : \A m, n \in TookIn(taken, h, r) : m = n
    BY DEF IInv, CallsStand
  <2>2. d.rec \in Records
    BY DEF Calls
  <2> QED
    BY <2>1, <2>2, CallGoesOn DEF setupVars
<1>2. FanoutTyped'
  <2>1. Ready /\ Ready' /\ d.rec \in Records
    BY InCallFacts DEF setupVars, Ready, Calls
  <2> QED
    BY <2>1 DEF IInv, FanoutTyped, setupVars
<1>3. SetupInv'
  BY SetupRest DEF IInv, setupVars
<1> QED
  BY <1>1, <1>2, <1>3 DEF IInv

LEMMA AskStep ==
  ASSUME IInv, NEW g \in Goroutines, AskEnabled(g)
  PROVE  IInv'
<1> DEFINE c == call[g]
<1>1. /\ c # None /\ c \in Calls /\ c.point = "enabled" /\ c.rec \in Records
      /\ c.at \in 1..(Len(Members) + 1) /\ Len(Members) \in Nat
      /\ Served(c, taken, ended) /\ InFlight(c)
      /\ \A k \in 1..Len(Members) : Members[k] \in Handlers
      /\ UNCHANGED <<setupVars, levelVar, ended>>
      /\ call \in [Goroutines -> Calls \cup {None}]
  BY InCallFacts DEF AskEnabled, IInv, FanoutTyped
<1>2. CASE AtEnd(g)
  <2> DEFINE d == [c EXCEPT !.point = "disabled"]
  <2>1. /\ d \in Calls /\ d.rec = c.rec /\ d.point = "disabled" /\ d.at = c.at
        /\ d.errs = c.errs /\ d.always = c.always /\ d.ever = c.ever
    BY <1>1 DEF Calls, Points
  <2>2. call' = [call EXCEPT ![g] = None] /\ result' = [result EXCEPT ![d.rec] = d]
    BY <1>2, <2>1 DEF AskEnabled, End
  <2> HIDE DEF d
  <2>3. Served(d, taken, ended)
    <3>1. ASSUME NEW k \in 1..Len(Members), Stands(c, k, Members[k], taken, ended)
          PROVE  Stands(d, k, Members[k], taken, ended)
      BY <1>1, <2>1, <3>1 DEF Stands, Passed
    <3> QED
      BY <1>1, <2>1, <3>1 DEF Served
  <2>4. HasEnded(d)
    BY <1>1, <1>2, <2>1 DEF HasEnded, AtEnd
  <2> QED
    BY <1>1, <2>1, <2>2, <2>3, <2>4, CallMovesOn
<1>3. CASE ~AtEnd(g) /\ EnabledAt(Current(g), c.rec, levelVar)
  <2> DEFINE d == [c EXCEPT !.point = "check", !.at = 1]
  <2>1. /\ d \in Calls /\ d.rec = c.rec /\ d.point = "check" /\ d.at = 1
        /\ d.errs = c.errs /\ d.always = c.always /\ d.ever = c.ever
    <3>1. 1 \in 1..(Len(Members) + 1) /\ "check" \in Points
      BY <1>1 DEF Points
    <3> QED
      BY <1>1, <3>1 DEF Calls
  <2>2. call' = [call EXCEPT ![g] = d] /\ UNCHANGED result
    BY <1>1, <1>3 DEF AskEnabled
  <2> HIDE DEF d
  <2>3. Served(d, taken, ended)
    <3>1. ASSUME NEW k \in 1..Len(Members), Stands(c, k, Members[k], taken, ended)
          PROVE  Stands(d, k, Members[k], taken, ended)
      BY <1>1, <2>1, <3>1 DEF Stands, Passed
    <3> QED
      BY <1>1, <2>1, <3>1 DEF Served
  <2>4. InFlight(d)
    BY <1>1, <2>1 DEF InFlight
  <2> QED
    BY <1>1, <2>1, <2>2, <2>3, <2>4, CallMovesOn
<1>4. CASE ~AtEnd(g) /\ ~EnabledAt(Current(g), c.rec, levelVar)
  <2> DEFINE d == [c EXCEPT !.at = @ + 1]
  <2>1. /\ d \in Calls /\ d.rec = c.rec /\ d.point = "enabled" /\ d.at = c.at + 1
        /\ d.errs = c.errs /\ d.always = c.always /\ d.ever = c.ever
    <3>1. c.at + 1 \in 1..(Len(Members) + 1)
      BY <1>1, <1>4 DEF AtEnd
    <3> QED
      BY <1>1, <3>1 DEF Calls
  <2>2. call' = [call EXCEPT ![g] = d] /\ UNCHANGED result
    BY <1>1, <1>4 DEF AskEnabled, MoveOn
  <2> HIDE DEF d
  <2>3. Members[c.at] \notin c.always
    BY <1>1, <1>4 DEF InFlight, EnabledNow, Current
  <2>4. Served(d, taken, ended)
    <3>1. ASSUME NEW k \in 1..Len(Members), Stands(c, k, Members[k], taken, ended)
          PROVE  Stands(d, k, Members[k], taken, ended)
      BY <1>1, <2>1, <2>3, <3>1 DEF Stands, Passed
    <3> QED
      BY <1>1, <2>1, <2>3, <3>1 DEF Served
  <2>5. InFlight(d)
    BY <1>1, <2>1 DEF InFlight
  <2> QED
    BY <1>1, <2>1, <2>2, <2>4, <2>5, CallMovesOn
<1> QED
  BY <1>2, <1>3, <1>4

LEMMA CheckStep ==
  ASSUME IInv, NEW g \in Goroutines, Check(g)
  PROVE  IInv'
<1> DEFINE c == call[g]
<1>1. /\ c # None /\ c \in Calls /\ c.point = "check" /\ c.rec \in Records
      /\ c.at \in 1..Len(Members) /\ Len(Members) \in Nat
      /\ Served(c, taken, ended) /\ InFlight(c)
      /\ \A k \in 1..Len(Members) : Members[k] \in Handlers
      /\ UNCHANGED <<setupVars, levelVar, ended, result>>
      /\ call \in [Goroutines -> Calls \cup {None}]
  BY InCallFacts DEF Check, AtEnd, IInv, FanoutTyped
<1>2. CASE EnabledAt(Current(g), c.rec, levelVar)
  <2> DEFINE d == [c EXCEPT !.point = "handle"]
  <2>1. /\ d \in Calls /\ d.rec = c.rec /\ d.point = "handle" /\ d.at = c.at
        /\ d.errs = c.errs /\ d.always = c.always /\ d.ever = c.ever
    BY <1>1 DEF Calls, Points
  <2>2. call' = [call EXCEPT ![g] = d]
    BY <1>1, <1>2 DEF Check
  <2> HIDE DEF d
  <2>3. Members[c.at] \in c.ever
    BY <1>1, <1>2 DEF InFlight, EnabledNow, Current
  <2>4. Served(d, taken, ended)
    <3>1. ASSUME NEW k \in 1..Len(Members), Stands(c, k, Members[k], taken, ended)
          PROVE  Stands(d, k, Members[k], taken, ended)
      BY <1>1, <2>1, <2>3, <3>1 DEF Stands, Passed
    <3> QED
      BY <1>1, <2>1, <2>3, <3>1 DEF Served
  <2>5. InFlight(d)
    BY <1>1, <2>1 DEF InFlight
  <2> QED
    BY <1>1, <2>1, <2>2, <2>4, <2>5, CallMovesOn
<1>3. CASE ~EnabledAt(Current(g), c.rec, levelVar)
  <2> DEFINE d == [c EXCEPT !.at = @ + 1]
  <2>1. /\ d \in Calls /\ d.rec = c.rec /\ d.point = "check" /\ d.at = c.at + 1
        /\ d.errs = c.errs /\ d.always = c.always /\ d.ever = c.ever
    BY <1>1 DEF Calls
  <2>2. call' = [call EXCEPT ![g] = d]
    BY <1>1, <1>3 DEF Check, MoveOn
  <2> HIDE DEF d
  <2>3. Members[c.at] \notin c.always
    BY <1>1, <1>3 DEF InFlight, EnabledNow, Current
  <2>4. Served(d, taken, ended)
    <3>1. ASSUME NEW k \in 1..Len(Members), Stands(c, k, Members[k], taken, ended)
          PROVE  Stands(d, k, Members[k], taken, ended)
      BY <1>1, <2>1, <2>3, <3>1 DEF Stands, Passed
    <3> QED
      BY <1>1, <2>1, <2>3, <3>1 DEF Served
  <2>5. InFlight(d)
    BY <1>1, <2>1 DEF InFlight
  <2> QED
    BY <1>1, <2>1, <2>2, <2>4, <2>5, CallMovesOn
<1> QED
  BY <1>2, <1>3

LEMMA ReturnStep ==
  ASSUME IInv, NEW g \in Goroutines, Return(g)
  PROVE  IInv'
<1> DEFINE c == call[g]
           d == [c EXCEPT !.point = "done"]
<1>1. /\ c # None /\ c \in Calls /\ c.point = "check" /\ c.rec \in Records
      /\ c.at = Len(Members) + 1 /\ Len(Members) \in Nat
      /\ Served(c, taken, ended)
      /\ UNCHANGED <<setupVars, levelVar, ended>>
  BY InCallFacts DEF Return, AtEnd
<1>2. /\ d \in Calls /\ d.rec = c.rec /\ d.point = "done" /\ d.at = c.at
      /\ d.errs = c.errs /\ d.always = c.always /\ d.ever = c.ever
  BY <1>1 DEF Calls, Points
<1>3. call' = [call EXCEPT ![g] = None] /\ result' = [result EXCEPT ![d.rec] = d]
  BY <1>2 DEF Return, End
<1> HIDE DEF d
<1>4. Served(d, taken, ended)
  <2>1. ASSUME NEW k \in 1..Len(Members), Stands(c, k, Members[k], taken, ended)
        PROVE  Stands(d, k, Members[k], taken, ended)
    BY <1>1, <1>2, <2>1 DEF Stands, Passed
  <2> QED
    BY <1>1, <1>2, <2>1 DEF Served
<1>5. HasEnded(d)
  BY <1>1, <1>2 DEF HasEnded
<1> QED
  BY <1>1, <1>2, <1>3, <1>4, <1>5, CallMovesOn

(* Handle has been past handler h, which has the record, or whose error is *)
(* kept, or which is a test logger whose test is over.                     *)
LEMMA PastHandler ==
  ASSUME NEW c \in Calls, Served(c, taken, ended), c.point = "handle",
         NEW h, h = Members[c.at],
         NEW d, d.rec = c.rec, d.point = "check", d.at = c.at + 1,
         d.always = c.always, d.ever = c.ever,
         d.errs \subseteq c.errs \cup {h}, c.errs \subseteq d.errs,
         d.errs \cap TestLoggers = {},
         NEW has,
         \A k \in Handlers : k # h => TookIn(has, k, c.rec) = TookIn(taken, k, c.rec),
         \/ TookIn(has, h, c.rec) # {}
         \/ h \in d.errs
         \/ h \in TestLoggers /\ ended
  PROVE  Served(d, has, ended)
<1>1. /\ c.at \in 1..Len(Members) /\ Len(Members) \in Nat /\ h \in c.ever
      /\ \A k \in 1..Len(Members) : Members[k] \in Handlers
      /\ \A k, l \in 1..Len(Members) : Members[k] = Members[l] => k = l
  BY MembersAre, SMTT(30) DEF Served, Calls
<1>2. ASSUME NEW k \in 1..Len(Members), Stands(c, k, Members[k], taken, ended)
      PROVE  Stands(d, k, Members[k], has, ended)
  <2>1. CASE k = c.at
    BY <1>1, <2>1 DEF Stands, Passed
  <2>2. CASE k # c.at
    <3>1. /\ Members[k] # h /\ (Members[k] \in d.errs <=> Members[k] \in c.errs)
          /\ TookIn(has, Members[k], c.rec) = TookIn(taken, Members[k], c.rec)
      BY <1>1, <2>2
    <3>2. Passed(d, k) <=> Passed(c, k)
      BY <1>1, <2>2 DEF Passed
    <3> QED
      BY <1>2, <3>1, <3>2 DEF Stands
  <2> QED
    BY <2>1, <2>2
<1> QED
  BY <1>1, <1>2 DEF Served

(* A writer takes a record that its handler did not have.                  *)
LEMMA TakenOnce ==
  ASSUME FanoutTyped, DOMAIN taken = Handlers,
         NEW h \in Handlers, NEW e \in Entries(h),
         taken' = [taken EXCEPT ![h] = Append(@, e)],
         TookIn(taken, h, e.rec) = {}
  PROVE  /\ \A k \in Handlers : taken'[k] \in Seq(Entries(k))
         /\ \E n : TookIn(taken', h, e.rec) = {n}
         /\ \A k \in Handlers : \A r : k # h \/ r # e.rec =>
              TookIn(taken', k, r) = TookIn(taken, k, r)
<1> DEFINE n == Len(taken[h]) + 1
<1>1. /\ \A k \in Handlers : taken[k] \in Seq(Entries(k))
      /\ \A k \in Handlers : k # h => taken'[k] = taken[k]
      /\ taken'[h] = Append(taken[h], e)
  BY DEF FanoutTyped
<1>2. /\ taken'[h] \in Seq(Entries(h))
      /\ DOMAIN taken'[h] = DOMAIN taken[h] \cup {n} /\ n \notin DOMAIN taken[h]
      /\ taken'[h][n] = e /\ \A i \in DOMAIN taken[h] : taken'[h][i] = taken[h][i]
  BY <1>1
<1>3. \A k \in Handlers : taken'[k] \in Seq(Entries(k))
  BY <1>1, <1>2
<1>4. TookIn(taken', h, e.rec) = {n}
  BY <1>2 DEF TookIn
<1>5. ASSUME NEW k \in Handlers, NEW r, k # h \/ r # e.rec
      PROVE  TookIn(taken', k, r) = TookIn(taken, k, r)
  BY <1>1, <1>2, <1>5 DEF TookIn
<1> QED
  BY <1>3, <1>4, <1>5

LEMMA DeliverStep ==
  ASSUME IInv, NEW g \in Goroutines, Deliver(g)
  PROVE  IInv'
<1> DEFINE c == call[g]
           h == Current(g)
           added == AddAttrs(h, Copy(c.spare))
           e == [rec |-> c.rec, attrs |-> added.attrs]
<1>1. /\ c # None /\ c \in Calls /\ c.point = "handle" /\ c.rec \in Records
      /\ c.at \in 1..Len(Members) /\ Len(Members) \in Nat
      /\ h = Members[c.at] /\ h \in Handlers /\ h \in c.ever
      /\ Served(c, taken, ended) /\ InFlight(c) /\ Ready
      /\ UNCHANGED <<made, given, config, leveler, levelVar, ended>>
      /\ DOMAIN taken = Handlers /\ call \in [Goroutines -> Calls \cup {None}]
  BY InCallFacts DEF Deliver, Served, Current, IInv, FanoutTyped, SetupInv, SetupTyped
<1>2. /\ added.attrs = IF h \in Adders THEN <<h>> ELSE <<>>
      /\ added.spare = c.spare /\ c.spare \in Handlers \cup {None}
  BY <1>1 DEF AddAttrs, Copy, Calls
<1>3. e \in Entries(h) /\ e.rec = c.rec
  BY <1>1, <1>2 DEF Entries
<1>4. TookIn(taken, h, c.rec) = {} /\ h \notin c.errs /\ c.errs \cap TestLoggers = {}
  <2>1. Stands(c, c.at, h, taken, ended) /\ ~(c.at < c.at)
    BY <1>1 DEF Served
  <2> QED
    BY <1>1, <2>1 DEF Served, Stands, Passed
<1>5. PICK how \in Write(h) :
        LET next == [c EXCEPT
                       !.spare = added.spare,
                       !.errs = IF how = "error" THEN @ \cup {h} ELSE @]
        IN  /\ taken' = IF how = "taken" THEN [taken EXCEPT ![h] = Append(@, e)]
                        ELSE taken
            /\ IF Stops(how) THEN End(g, [next EXCEPT !.point = how])
               ELSE /\ call' = [call EXCEPT ![g] =
                         [next EXCEPT !.point = "check", !.at = @ + 1]]
                    /\ UNCHANGED result
  BY DEF Deliver
<1> DEFINE errs == IF how = "error" THEN c.errs \cup {h} ELSE c.errs
           d == [c EXCEPT !.spare = added.spare, !.errs = errs,
                          !.point = IF Stops(how) THEN how ELSE "check",
                          !.at = IF Stops(how) THEN @ ELSE @ + 1]
<1>6. /\ how \in {"taken", "error", "panic", "dropped"}
      /\ how \in {"error", "panic"} => h \notin TestLoggers
      /\ how = "dropped" => h \in TestLoggers /\ ended
  BY DEF Write
<1>7. /\ d \in Calls /\ d.rec = c.rec /\ d.errs = errs
      /\ d.always = c.always /\ d.ever = c.ever
      /\ d.point = IF how = "panic" THEN "panic" ELSE "check"
      /\ d.at = IF how = "panic" THEN c.at ELSE c.at + 1
  <2>1. c.at + 1 \in 1..(Len(Members) + 1) /\ c.at \in 1..(Len(Members) + 1)
    BY <1>1
  <2>2. errs \in SUBSET Handlers
    BY <1>1 DEF Calls
  <2> QED
    BY <1>1, <1>2, <2>1, <2>2 DEF Calls, Points, Stops
<1>8. \/ /\ how # "panic" /\ call' = [call EXCEPT ![g] = d] /\ UNCHANGED result
      \/ /\ how = "panic" /\ call' = [call EXCEPT ![g] = None]
         /\ result' = [result EXCEPT ![d.rec] = d]
  <2>1. CASE how = "panic"
    <3>1. d = [c EXCEPT !.spare = added.spare, !.errs = errs, !.point = how]
      BY <1>1, <2>1 DEF Stops, Calls
    <3> HIDE DEF d, added
    <3> QED
      BY <1>5, <1>7, <2>1, <3>1 DEF Stops, End
  <2>2. CASE how # "panic"
    <3>1. d = [c EXCEPT !.spare = added.spare, !.errs = errs, !.point = "check",
                        !.at = @ + 1]
      BY <1>1, <2>2 DEF Stops, Calls
    <3> HIDE DEF d, added
    <3> QED
      BY <1>5, <1>7, <2>2, <3>1 DEF Stops
  <2> QED
    BY <2>1, <2>2
<1> HIDE DEF d
<1>9. /\ \A k \in Handlers : taken'[k] \in Seq(Entries(k))
      /\ DOMAIN taken' = DOMAIN taken
      /\ \A k \in Handlers : \A r : k # h \/ r # c.rec =>
           TookIn(taken', k, r) = TookIn(taken, k, r)
      /\ how = "taken" => \E n : TookIn(taken', h, c.rec) = {n}
      /\ how # "taken" => taken' = taken
  <2>1. CASE how = "taken"
    <3>1. taken' = [taken EXCEPT ![h] = Append(@, e)]
      BY <1>5, <2>1
    <3>2. FanoutTyped /\ TookIn(taken, h, e.rec) = {}
      BY <1>3, <1>4 DEF IInv
    <3> HIDE DEF e, h
    <3>3. /\ \A k \in Handlers : taken'[k] \in Seq(Entries(k))
          /\ \E n : TookIn(taken', h, e.rec) = {n}
          /\ \A k \in Handlers : \A r : k # h \/ r # e.rec =>
               TookIn(taken', k, r) = TookIn(taken, k, r)
      BY <1>1, <1>3, <3>1, <3>2, TakenOnce
    <3>4. DOMAIN taken' = DOMAIN taken
      BY <3>1
    <3> QED
      BY <1>3, <2>1, <3>3, <3>4
  <2>2. CASE how # "taken"
    BY <1>5, <2>2 DEF IInv, FanoutTyped
  <2> QED
    BY <2>1, <2>2
<1>10. Served(d, taken', ended)
  <2>1. CASE how = "panic"
    <3>1. taken' = taken /\ d.errs = c.errs /\ d.at = c.at /\ d.point = "panic"
      BY <1>7, <1>9, <2>1
    <3>2. ASSUME NEW k \in 1..Len(Members), Stands(c, k, Members[k], taken, ended)
          PROVE  Stands(d, k, Members[k], taken, ended)
      BY <1>1, <1>7, <3>1, <3>2 DEF Stands, Passed
    <3> QED
      BY <1>1, <1>7, <3>1, <3>2 DEF Served
  <2>2. CASE how # "panic"
    <3>1. d.errs \subseteq c.errs \cup {h} /\ c.errs \subseteq d.errs
          /\ d.errs \cap TestLoggers = {}
      BY <1>4, <1>6, <1>7
    <3>2. \/ TookIn(taken', h, c.rec) # {}
          \/ h \in d.errs
          \/ h \in TestLoggers /\ ended
      BY <1>6, <1>7, <1>9, <2>2
    <3>3. /\ d.rec = c.rec /\ d.point = "check" /\ d.at = c.at + 1
          /\ d.always = c.always /\ d.ever = c.ever
      BY <1>7, <2>2
    <3>4. \A k \in Handlers : k # h => TookIn(taken', k, c.rec) = TookIn(taken, k, c.rec)
      BY <1>9
    <3> HIDE DEF c, h, errs
    <3> QED
      BY <1>1, <3>1, <3>2, <3>3, <3>4, PastHandler
  <2> QED
    BY <2>1, <2>2
<1>11. CallsStand'
  <2>1. \A k \in Handlers : \A m, n \in TookIn(taken', k, d.rec) : m = n
    <3>1. \A k \in Handlers : \A m, n \in TookIn(taken, k, d.rec) : m = n
      BY <1>1, <1>7 DEF IInv, CallsStand
    <3> QED
      BY <1>1, <1>7, <1>9, <3>1
  <2>2. how # "panic" => InFlight(d)
    BY <1>1, <1>7 DEF InFlight
  <2>3. how = "panic" => HasEnded(d)
    BY <1>1, <1>6, <1>7 DEF HasEnded
  <2> QED
    BY <1>1, <1>7, <1>8, <1>9, <1>10, <2>1, <2>2, <2>3, CallGoesOn
<1>12. FanoutTyped'
  BY <1>1, <1>7, <1>8, <1>9 DEF IInv, FanoutTyped, Ready
<1>13. SetupInv'
  BY <1>1, <1>9, SetupRest DEF IInv
<1> QED
  BY <1>11, <1>12, <1>13 DEF IInv

LEMMA LogStep ==
  ASSUME IInv, NEW g \in Goroutines, Log(g)
  PROVE  IInv'
<1>1. PICK r \in Records :
        /\ result[r] = None
        /\ \A p \in Goroutines : call[p] # None => call[p].rec # r
        /\ call' = [call EXCEPT ![g] =
             [rec |-> r, point |-> "enabled", at |-> 1, errs |-> {},
              spare |-> None, always |-> EnabledNow(r, levelVar),
              ever |-> EnabledNow(r, levelVar)]]
  BY DEF Log
<1> DEFINE d == [rec |-> r, point |-> "enabled", at |-> 1, errs |-> {},
                 spare |-> None, always |-> EnabledNow(r, levelVar),
                 ever |-> EnabledNow(r, levelVar)]
<1>2. /\ Ready /\ call[g] = None
      /\ UNCHANGED <<setupVars, levelVar, ended, result>>
      /\ call \in [Goroutines -> Calls \cup {None}]
  BY DEF Log, IInv, FanoutTyped
<1>3. d \in Calls
  <2>1. EnabledNow(r, levelVar) \subseteq Handlers /\ Len(Members) \in Nat
    BY MembersAre DEF EnabledNow
  <2>2. 1 \in 1..(Len(Members) + 1) /\ "enabled" \in Points
    BY <2>1 DEF Points
  <2> QED
    BY <2>1, <2>2 DEF Calls
<1>4. /\ d.rec = r /\ d.point = "enabled" /\ d.at = 1 /\ d.errs = {}
      /\ d.always = EnabledNow(r, levelVar) /\ d.ever = EnabledNow(r, levelVar)
      /\ call' = [call EXCEPT ![g] = d]
  BY <1>1
<1> HIDE DEF d
<1>5. \A h \in Handlers : TookIn(taken, h, r) = {}
  BY <1>1 DEF IInv, CallsStand, InCall
<1>6. Served(d, taken, ended)
  <2>1. \A k \in 1..Len(Members) : Members[k] \in Handlers /\ ~(k < 1)
    BY MembersAre
  <2>2. \A k \in 1..Len(Members) : Stands(d, k, Members[k], taken, ended)
    BY <1>4, <1>5, <2>1 DEF Stands, Passed
  <2> QED
    BY <1>4, <2>2 DEF Served
<1>7. \A q, value : EnabledNow(q, value)' = EnabledNow(q, value)
  BY <1>2 DEF EnabledNow, EnabledAt, setupVars
<1>8. /\ call'[g] = d /\ d # None
      /\ \A p \in Goroutines : p # g => call'[p] = call[p]
  BY <1>2, <1>3, <1>4, CallAssumption DEF CallAssumption
<1>9. ASSUME NEW p \in Goroutines, call'[p] # None
      PROVE  /\ Served(call'[p], taken', ended') /\ InFlight(call[p])'
             /\ result'[call'[p].rec] = None
  <2>1. CASE p = g
    <3>1. InFlight(call[p])'
      BY <1>2, <1>4, <1>7, <1>8, <2>1 DEF InFlight
    <3> QED
      BY <1>1, <1>2, <1>4, <1>6, <1>8, <2>1, <3>1 DEF setupVars
  <2>2. CASE p # g
    BY <1>2, <1>7, <1>8, <1>9, <2>2 DEF IInv, CallsStand, InFlight, setupVars
  <2> QED
    BY <2>1, <2>2
<1>10. \A p, q \in Goroutines :
         call'[p] # None /\ call'[q] # None /\ call'[p].rec = call'[q].rec => p = q
  BY <1>1, <1>4, <1>8 DEF IInv, CallsStand
<1>11. \A h \in Handlers, q \in Records :
         TookIn(taken', h, q) # {} => result'[q] # None \/ InCall(q)'
  BY <1>2, <1>8 DEF IInv, CallsStand, InCall, setupVars
<1>12. CallsStand'
  BY <1>2, <1>9, <1>10, <1>11 DEF IInv, CallsStand, setupVars
<1>13. FanoutTyped'
  BY <1>2, <1>3, <1>4 DEF IInv, FanoutTyped, Ready, setupVars
<1> QED
  BY <1>2, <1>12, <1>13, SetupRest DEF IInv, setupVars

(* The handlers that were enabled throughout a call may become fewer, and  *)
(* those that were enabled at some time may become more.                   *)
LEMMA SetLevelStep ==
  ASSUME IInv, SetLevel
  PROVE  IInv'
<1>1. PICK value \in VarLevels :
        /\ levelVar' = value
        /\ call' = [g \in Goroutines |->
             IF call[g] = None THEN None
             ELSE [call[g] EXCEPT
                     !.always = @ \cap EnabledNow(call[g].rec, value),
                     !.ever = @ \cup EnabledNow(call[g].rec, value)]]
  BY DEF SetLevel
<1>2. Ready /\ UNCHANGED <<setupVars, ended, result>>
  BY DEF SetLevel
<1>3. \A q, v : /\ EnabledNow(q, v)' = EnabledNow(q, v)
                /\ EnabledNow(q, v) \subseteq Handlers
  BY <1>2 DEF EnabledNow, EnabledAt, setupVars
<1>4. ASSUME NEW g \in Goroutines, call[g] # None
      PROVE  /\ call'[g] \in Calls /\ call'[g] # None
             /\ call'[g].rec = call[g].rec
             /\ Served(call'[g], taken', ended') /\ InFlight(call[g])'
  <2> DEFINE c == call[g]
             now == EnabledNow(c.rec, value)
             d == [c EXCEPT !.always = @ \cap now, !.ever = @ \cup now]
  <2>1. /\ c \in Calls /\ Served(c, taken, ended) /\ InFlight(c)
        /\ now \subseteq Handlers /\ call'[g] = d
    BY <1>1, <1>3, <1>4, InCallFacts
  <2>2. /\ d \in Calls /\ d.rec = c.rec /\ d.point = c.point /\ d.at = c.at
        /\ d.errs = c.errs /\ d.always = c.always \cap now /\ d.ever = c.ever \cup now
    BY <2>1 DEF Calls
  <2>3. InFlight(call[g])'
    BY <1>1, <1>3, <2>1, <2>2 DEF InFlight
  <2> HIDE DEF d
  <2>4. ASSUME NEW k \in 1..Len(Members), Stands(c, k, Members[k], taken, ended)
        PROVE  Stands(d, k, Members[k], taken, ended)
    BY <2>2, <2>4 DEF Stands, Passed
  <2>5. Served(d, taken, ended)
    BY <2>1, <2>2, <2>4 DEF Served
  <2> QED
    BY <1>2, <2>1, <2>2, <2>3, <2>5, CallAssumption DEF CallAssumption, setupVars
<1>5. \A g \in Goroutines : call'[g] = None <=> call[g] = None
  BY <1>1, <1>4
<1>6. \A r \in Records : InCall(r)' <=> InCall(r)
  BY <1>4, <1>5 DEF InCall
<1>7. CallsStand'
  <2>1. \A g \in Goroutines : call'[g] # None =>
          /\ Served(call'[g], taken', ended') /\ InFlight(call[g])'
          /\ result'[call'[g].rec] = None
    BY <1>2, <1>4, <1>5 DEF IInv, CallsStand
  <2>2. \A g, p \in Goroutines :
          call'[g] # None /\ call'[p] # None /\ call'[g].rec = call'[p].rec => g = p
    BY <1>4, <1>5 DEF IInv, CallsStand
  <2> QED
    BY <1>2, <1>6, <2>1, <2>2 DEF IInv, CallsStand, setupVars
<1>8. FanoutTyped'
  <2>1. call' \in [Goroutines -> Calls \cup {None}]
    BY <1>1, <1>4
  <2> QED
    BY <1>1, <1>2, <2>1 DEF IInv, FanoutTyped, Ready, setupVars
<1> QED
  BY <1>2, <1>7, <1>8, SetupRest DEF IInv, setupVars

LEMMA EndTestStep ==
  ASSUME IInv, EndTest
  PROVE  IInv'
<1>1. /\ Ready /\ ended' = TRUE
      /\ UNCHANGED <<setupVars, levelVar, call, result>>
  BY DEF EndTest
<1>2. FanoutTyped'
  BY <1>1 DEF IInv, FanoutTyped, Ready, setupVars
<1>3. \A q, v : EnabledNow(q, v)' = EnabledNow(q, v)
  BY <1>1 DEF EnabledNow, EnabledAt, setupVars
<1>4. ASSUME NEW c, Served(c, taken, ended) PROVE Served(c, taken', ended')
  BY <1>1, <1>4, StillServed DEF setupVars
<1>5. \A g \in Goroutines : InFlight(call[g]) => InFlight(call[g])'
  BY <1>1, <1>3 DEF InFlight
<1>6. \A r : InCall(r)' <=> InCall(r)
  BY <1>1 DEF InCall
<1>7. CallsStand'
  BY <1>1, <1>4, <1>5, <1>6 DEF IInv, CallsStand, setupVars
<1> QED
  BY <1>1, <1>2, <1>7, SetupRest DEF IInv, setupVars

(* While handlers are made nothing is logged but the reports of invalid    *)
(* values.                                                                 *)
LEMMA SetupStep ==
  ASSUME IInv, Setup
  PROVE  IInv' /\ \A h \in Handlers \ Failing : Reports(h)
<1>1. /\ SetupInv' /\ \A h \in Handlers \ Failing : Reports(h)
  BY SetupSteps DEF Setup, IInv
<1>2. /\ ~Ready /\ UNCHANGED <<levelVar, ended, call, result>>
      /\ \A g \in Goroutines : call[g] = None
      /\ \A r \in Records : result[r] = None
  BY DEF Setup, ApplyOption, NewHandler, IInv, FanoutTyped
<1>3. \A h \in Handlers, r \in Records : TookIn(taken, h, r) = {}
  BY <1>2 DEF IInv, CallsStand, InCall
<1>4. ASSUME NEW h \in Handlers
      PROVE  /\ taken'[h] \in Seq(Entries(h))
             /\ \A r \in Records : TookIn(taken', h, r) = {}
  <2>1. CASE taken'[h] = taken[h]
    BY <1>3, <2>1 DEF IInv, FanoutTyped, TookIn
  <2>2. CASE taken'[h] # taken[h]
    <3>1. NewHandler
      BY <2>2 DEF Setup, ApplyOption
    <3>2. /\ taken' = [taken EXCEPT ![Order[made + 1]] = Reported(config.levelErr)]
          /\ config.levelErr # None
      BY <2>2, <3>1 DEF NewHandler
    <3>3. /\ taken'[h] = Reported(config.levelErr)
          /\ config.levelErr \in {o.value : o \in Options}
      BY <2>2, <3>2 DEF IInv, SetupInv, SetupTyped, Configs
    <3> DEFINE e == [rec |-> Report, attrs |-> <<config.levelErr>>]
    <3>4. taken'[h] = <<e>> /\ e \in Entries(h) /\ e.rec = Report
      BY <3>3 DEF Reported, Entries
    <3> HIDE DEF e
    <3> QED
      BY <3>4, FanoutAssumption DEF FanoutAssumption, TookIn
  <2> QED
    BY <2>1, <2>2
<1>5. FanoutTyped'
  BY <1>2, <1>4 DEF IInv, FanoutTyped
<1>6. CallsStand'
  BY <1>2, <1>4 DEF CallsStand
<1> QED
  BY <1>1, <1>5, <1>6 DEF IInv

LEMMA NextInv ==
  IInv /\ [Next]_vars => IInv' /\ \A h \in Handlers \ Failing : Reports(h)
<1> SUFFICES ASSUME IInv, [Next]_vars
             PROVE  IInv' /\ \A h \in Handlers \ Failing : Reports(h)
  OBVIOUS
<1>1. ASSUME UNCHANGED leveler PROVE \A h \in Handlers : Reports(h)
  BY <1>1 DEF Reports
<1>2. CASE Setup
  BY <1>2, SetupStep
<1>3. CASE SetLevel
  BY <1>1, <1>3, SetLevelStep DEF SetLevel, setupVars
<1>4. CASE EndTest
  BY <1>1, <1>4, EndTestStep DEF EndTest, setupVars
<1>5. ASSUME NEW g \in Goroutines, Step(g)
      PROVE  IInv' /\ UNCHANGED leveler
  <2>1. IInv'
    BY <1>5, LogStep, AskStep, CheckStep, DeliverStep, ReturnStep DEF Step
  <2>2. UNCHANGED leveler
    BY <1>5 DEF Step, Log, AskEnabled, Check, Deliver, Return, setupVars
  <2> QED
    BY <2>1, <2>2
<1>6. CASE UNCHANGED vars
  <2>1. SetupInv' /\ UNCHANGED leveler
    BY <1>6, SetupRest DEF IInv, vars
  <2>2. FanoutTyped'
    BY <1>6 DEF IInv, FanoutTyped, Ready, vars
  <2>3. CallsStand'
    BY <1>6 DEF IInv, CallsStand, InFlight, EnabledNow, EnabledAt, InCall, vars
  <2> QED
    BY <1>1, <2>1, <2>2, <2>3 DEF IInv
<1> QED
  BY <1>1, <1>2, <1>3, <1>4, <1>5, <1>6 DEF Next

LEMMA Invariance == Spec => []IInv
<1>1. IInv /\ [Next]_vars => IInv'
  BY NextInv
<1> QED
  BY <1>1, InitInv, PTL DEF Spec

-----------------------------------------------------------------------------
(* Setups and calls are type correct.                                      *)
THEOREM TypeCorrect == Spec => []TypeOK
<1>1. ASSUME IInv PROVE TypeOK
  <2>1. \A c \in Calls : Served(c, taken, ended) => CallOK(c)
    BY DEF Served, CallOK
  <2>2. /\ \A g \in Goroutines : call[g] # None => CallOK(call[g])
        /\ \A r \in Records : result[r] # None => CallOK(result[r])
    BY <1>1, <2>1 DEF IInv, FanoutTyped, CallsStand
  <2>3. ASSUME NEW h \in Handlers, NEW n \in DOMAIN taken[h]
        PROVE  taken[h][n].rec \in Records \cup {Report}
    <3>1. taken[h][n] \in Entries(h)
      BY <1>1 DEF IInv, FanoutTyped
    <3> QED
      BY <3>1 DEF Entries
  <2> QED
    BY <1>1, <2>2, <2>3
       DEF TypeOK, IInv, FanoutTyped, SetupInv, SetupTyped, Configs, Levelers
<1> QED
  BY <1>1, Invariance, PTL

(* Handlers that add attributes do so each to a copy of its own.           *)
THEOREM OwnCopies == Spec => []OwnCopy
<1>1. ASSUME IInv, NEW h \in Handlers, NEW n \in DOMAIN taken[h],
             taken[h][n].rec \in Records
      PROVE  taken[h][n].attrs = IF h \in Adders THEN <<h>> ELSE <<>>
  <2>1. taken[h][n] \in Entries(h)
    BY <1>1 DEF IInv, FanoutTyped
  <2> QED
    BY <1>1, <2>1, FanoutAssumption DEF FanoutAssumption, Entries
<1>2. IInv => OwnCopy
  BY <1>1 DEF OwnCopy
<1> QED
  BY <1>2, Invariance, PTL

(* Every handler is accounted for when Handle has returned, whatever fails *)
(* and however levels change meanwhile: it has the record once, or an      *)
(* error, or its test is over, or it was not enabled all the time.         *)
THEOREM AllAccounted == Spec => []Accounted
<1>1. ASSUME IInv PROVE Accounted
  <2>1. TestLoggersNeverFail
    BY <1>1 DEF IInv, CallsStand, Served, HasEnded, TestLoggersNeverFail
  <2>2. ASSUME NEW r \in Records, NEW h \in Handlers
        PROVE  /\ Times(h, r) \in {0, 1}
               /\ Times(h, r) = 0 <=> TookIn(taken, h, r) = {}
    <3>1. \A m, n \in TookIn(taken, h, r) : m = n
      BY <1>1 DEF IInv, CallsStand
    <3>2. TookIn(taken, h, r) = {} \/ \E n : TookIn(taken, h, r) = {n}
      BY <3>1
    <3>3. Took(h, r) = TookIn(taken, h, r)
      BY DEF Took, TookIn
    <3> QED
      BY <3>2, <3>3, FS_EmptySet, FS_Singleton DEF Times
  <2>3. ASSUME NEW r \in Records, NEW h \in Handlers,
               result[r] # None, result[r].point # "panic"
        PROVE  /\ h \in result[r].always =>
                    \/ Times(h, r) = 1
                    \/ h \in result[r].errs
                    \/ h \in TestLoggers /\ ended
               /\ h \notin result[r].ever => Times(h, r) = 0 /\ h \notin result[r].errs
    <3>1. PICK k \in 1..Len(Members) : Members[k] = h
      BY MembersAre
    <3>2. /\ Stands(result[r], k, h, taken, ended) /\ result[r].rec = r
          /\ result[r].point \in {"done", "disabled"}
          /\ result[r].at = Len(Members) + 1 /\ k < Len(Members) + 1
      BY <1>1, <2>3, <3>1, MembersAre DEF IInv, CallsStand, Served, HasEnded
    <3> QED
      BY <2>2, <3>2 DEF Stands, Passed
  <2> QED
    BY <2>1, <2>2, <2>3 DEF Accounted
<1> QED
  BY <1>1, Invariance, PTL

(* The level of a new handler is the last valid one of its options.        *)
THEOREM LastLevelCounts == Spec => []LastLevelWins
<1>1. IInv => LastLevelWins
  BY DEF IInv, SetupInv
<1> QED
  BY <1>1, Invariance, PTL

(* A new handler reports one invalid value at most, and the last one if no *)
(* valid level comes after it.                                             *)
THEOREM InvalidReported == Spec => InvalidIsReported
<1> DEFINE Body ==
      \A h \in Handlers \ Failing : IsMade(h) =>
        /\ \/ taken'[h] = <<>>
           \/ \E i \in AskInvalid : taken'[h] = Reported(given[i].value)
        /\ \A i \in AskInvalid :
             IsLast(i, AskValid \cup AskInvalid) => taken'[h] = Reported(given[i].value)
<1>1. ASSUME IInv, NEW h \in Handlers \ Failing, Reports(h), IsMade(h)
      PROVE  /\ \/ taken'[h] = <<>>
                \/ \E i \in AskInvalid : taken'[h] = Reported(given[i].value)
             /\ \A i \in AskInvalid :
                  IsLast(i, AskValid \cup AskInvalid) => taken'[h] = Reported(given[i].value)
  <2>1. CASE Pending = {}
    BY <1>1, <2>1 DEF Reports, Pending, IsMade
  <2>2. CASE Pending # {}
    <3>1. PICK j \in Pending : taken'[h] = Reported(given[j].value)
      BY <1>1, <2>2 DEF Reports, IsMade
    <3>2. \A i \in Pending : i = j
      <4>1. \A i \in AskInvalid : i \in Int
        BY <1>1 DEF AskInvalid, IInv, SetupInv, SetupTyped
      <4> QED
        BY <4>1 DEF Pending, IsLast
    <3> QED
      BY <3>1, <3>2 DEF Pending
  <2> QED
    BY <2>1, <2>2
<1>2. IInv /\ [Next]_vars => [Body]_setupVars
  BY <1>1, NextInv
<1> QED
  BY <1>2, Invariance, PTL DEF Spec, InvalidIsReported
=============================================================================
