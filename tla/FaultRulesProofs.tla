-------------------------- MODULE FaultRulesProofs --------------------------
(***************************************************************************)
(* Faults hit what they name, follow their windows and fire as often as    *)
(* their triggers say, for every session and any number of notification    *)
(* handlers (FaultRules).                                                   *)
(***************************************************************************)
EXTENDS FaultRules, FiniteSetTheorems, TLAPS

----------------------------------------------------------------------------
(* The rules of a session *)

FromStatic(x, r) == \E c \in Filtered : r \in Range(x.static[c])

LEMMA RulesOfSession ==
  ASSUME setup \in Setups
  PROVE  /\ AllRules \subseteq RuleType
         /\ \A r, q \in AllRules : r.id = q.id => r = q
         /\ \A r \in AllRules : r.id \in Ids /\ r.id \notin {"none", "allow"}
         /\ \A r \in AllRules : r.trigger = "nth" => r.n > 0
         /\ \A r \in AllRules : r.sys \in Syscalls
<1>1. IsSetup(setup)
  BY SetupsAssumption
<1>2. ASSUME NEW r \in AllRules PROVE r \in RuleType
  <2>1. CASE \E c \in Filtered : r \in Range(setup.static[c])
    BY <1>1, <2>1 DEF IsSetup, Range
  <2>2. CASE \E w \in DOMAIN setup.rulesOf : r \in UNION Range(setup.rulesOf[w])
    BY <1>1, <2>2 DEF IsSetup, Range
  <2>3. QED
    BY <1>2, <2>1, <2>2 DEF AllRules, RulesIn
<1>3. QED
  BY <1>1, <1>2, Zenon DEF IsSetup, AllRules, Ids, Syscalls

LEMMA StaticRules ==
  ASSUME setup \in Setups, NEW c \in Filtered
  PROVE  /\ Static[c] \in Seq(AllRules)
         /\ \A i \in DOMAIN Static[c] : FromStatic(setup, Static[c][i])
<1>1. Static[c] \in Seq(RuleType)
  BY SetupsAssumption DEF IsSetup, Static
<1>2. \A i \in DOMAIN Static[c] : Static[c][i] \in Range(Static[c])
  BY Zenon DEF Range
<1>3. \A r \in Range(Static[c]) : r \in AllRules
  BY Zenon DEF AllRules, RulesIn, Static
<1>4. QED
  BY <1>1, <1>2, <1>3 DEF FromStatic, Static

LEMMA RulesOfWindow ==
  ASSUME setup \in Setups, NEW w \in Windows
  PROVE  /\ Len(RulesOf[w]) \in Nat /\ Len(RulesOf[w]) > 0
         /\ WindowRules(w) \subseteq AllRules
         /\ \A r \in WindowRules(w) : ~FromStatic(setup, r)
         /\ \A i \in 1..Len(RulesOf[w]) :
               IsFiniteSet(RulesOf[w][i]) /\ RulesOf[w][i] \subseteq WindowRules(w)
<1>1. /\ RulesOf[w] \in Seq(SUBSET RuleType) /\ RulesOf[w] # <<>>
      /\ \A i \in DOMAIN RulesOf[w] : IsFiniteSet(RulesOf[w][i])
      /\ \A c \in Filtered : Range(Static[c]) \cap UNION Range(RulesOf[w]) = {}
  BY SetupsAssumption, Zenon DEF IsSetup, RulesOf, Windows, Static
<1>2. Len(RulesOf[w]) \in Nat /\ Len(RulesOf[w]) > 0 /\ DOMAIN RulesOf[w] = 1..Len(RulesOf[w])
  BY <1>1
<1>3. WindowRules(w) \subseteq AllRules
  BY Zenon DEF WindowRules, AllRules, RulesIn, Windows, RulesOf
<1>4. \A r \in WindowRules(w) : ~FromStatic(setup, r)
  BY <1>1, Zenon DEF WindowRules, FromStatic, Static
<1>5. \A i \in DOMAIN RulesOf[w] : RulesOf[w][i] \subseteq WindowRules(w)
  BY Zenon DEF WindowRules, Range
<1>6. QED
  BY <1>1, <1>2, <1>3, <1>4, <1>5, Zenon

(* A session is the same from one step to the next. *)
LEMMA SameSession ==
  ASSUME UNCHANGED setup
  PROVE  /\ AllRules' = AllRules /\ Ids' = Ids /\ Syscalls' = Syscalls /\ Nothing' = Nothing
         /\ Windows' = Windows /\ RulesOf' = RulesOf /\ Static' = Static /\ Decider' = Decider /\ Calls' = Calls
         /\ \A w : WindowRules(w)' = WindowRules(w)
         /\ \A r : Vector(r)' = Vector(r)
  BY DEF AllRules, RulesIn, Ids, Syscalls, Nothing, Windows, RulesOf, Static, Decider, Calls, WindowRules, Vector

----------------------------------------------------------------------------
(* Windows: what is installed is one rule set of one window *)

WindowStates == {"idle", "applying", "open", "reported", "closed", "refused"}

WindowTypes ==
    /\ setup \in Setups
    /\ dynamic \in [Syscalls -> Seq(AllRules)]
    /\ window \in [Windows -> WindowStates]
    /\ applied \in [Windows -> Nat]

(* A window applies its rule sets one by one and is open once it has        *)
(* applied all of them.                                                     *)
Progress(w) ==
    /\ applied[w] <= Len(RulesOf[w])
    /\ window[w] = "idle" => applied[w] = 0
    /\ window[w] = "applying" => 0 < applied[w] /\ applied[w] < Len(RulesOf[w])
    /\ window[w] \in {"open", "reported"} => applied[w] = Len(RulesOf[w])

Owned ==
    \/ DynamicRules = {}
    \/ \E w \in UnderWay \cup LeftBehind :
          applied[w] > 0 /\ DynamicRules = RulesOf[w][applied[w]]

(* Windows that do not overlap do not disturb each other.                   *)
Undisturbed ==
    ~setup.overlap =>
        \A w \in UnderWay : UnderWay = {w} /\ DynamicRules = RulesOf[w][applied[w]]

WindowInv == WindowTypes /\ (\A w \in Windows : Progress(w)) /\ Owned /\ Undisturbed

LEMMA ListsAreSequences ==
  ASSUME NEW S, IsFiniteSet(S), NEW l \in Lists(S)
  PROVE  l \in Seq(S) /\ Range(l) = S
<1>1. Cardinality(S) \in Nat
  BY FS_CardinalityType
<1>2. l \in [1..Cardinality(S) -> S] /\ \A r \in S : \E i \in 1..Cardinality(S) : l[i] = r
  BY DEF Lists, Bijection, Injection, Surjection
<1>3. QED
  BY <1>1, <1>2 DEF Range

LEMMA InstalledRules ==
  ASSUME setup \in Setups, NEW w \in Windows, applied[w] + 1 \in 1..Len(RulesOf[w]),
         NEW d \in Installed(w)
  PROVE  /\ d \in [Syscalls -> Seq(AllRules)]
         /\ UNION {Range(d[c]) : c \in Syscalls} = NextRules(w)
<1> DEFINE S == NextRules(w)
<1>1. IsFiniteSet(S) /\ S \subseteq AllRules
  BY RulesOfWindow, Zenon DEF NextRules
<1>2. \A r \in S : r.sys \in Syscalls
  BY <1>1, RulesOfSession, Zenon
<1>3. ASSUME NEW c \in Syscalls
      PROVE  d[c] \in Seq(AllRules) /\ Range(d[c]) = RulesFor(S, c)
  <2>1. RulesFor(S, c) \in SUBSET S
    BY DEF RulesFor
  <2>2. IsFiniteSet(RulesFor(S, c))
    BY <1>1, <2>1, FS_Subset
  <2>3. d[c] \in Lists(RulesFor(S, c))
    BY <1>3 DEF Installed
  <2>4. d[c] \in Seq(RulesFor(S, c)) /\ Range(d[c]) = RulesFor(S, c)
    BY <2>2, <2>3, ListsAreSequences, Zenon
  <2>5. QED
    BY <1>1, <2>1, <2>4
<1>4. DOMAIN d = Syscalls /\ d = [c \in Syscalls |-> d[c]]
  BY DEF Installed
<1>5. d \in [Syscalls -> Seq(AllRules)]
  BY <1>3, <1>4
<1>6. \A r : r \in UNION {Range(d[c]) : c \in Syscalls} <=> \E c \in Syscalls : r \in RulesFor(S, c)
  BY <1>3, Zenon
<1>7. \A r : (\E c \in Syscalls : r \in RulesFor(S, c)) <=> r \in S
  BY <1>2, Zenon DEF RulesFor
<1>8. QED
  BY <1>5, <1>6, <1>7, Zenon

LEMMA ApplyKeepsWindows ==
  ASSUME WindowInv, UNCHANGED setup, NEW w \in Windows, ApplyFaults(w)
  PROVE  WindowInv'
<1> DEFINE k == applied[w] + 1
<1>1. setup \in Setups /\ \A v \in Windows : Progress(v)
  BY DEF WindowInv, WindowTypes
<1>2. /\ window \in [Windows -> WindowStates] /\ applied \in [Windows -> Nat]
      /\ applied' = [applied EXCEPT ![w] = k]
      /\ window' = [window EXCEPT ![w] = IF k = Len(RulesOf[w]) THEN "open" ELSE "applying"]
  BY DEF ApplyFaults, WindowInv, WindowTypes
<1>3. window[w] \in {"idle", "applying"} /\ (setup.overlap \/ UnderWay \subseteq {w})
  BY DEF ApplyFaults, MayApply
<1>4. \A v \in Windows : Len(RulesOf[v]) \in Nat /\ Len(RulesOf[v]) > 0
  BY <1>1, RulesOfWindow, Zenon
<1>5. applied[w] \in Nat /\ k \in 1..Len(RulesOf[w])
  BY <1>1, <1>2, <1>3, <1>4 DEF Progress
<1>6. dynamic' \in [Syscalls -> Seq(AllRules)] /\ DynamicRules' = RulesOf[w][k]
  BY <1>1, <1>5, InstalledRules, SameSession, Zenon DEF ApplyFaults, DynamicRules, NextRules
<1>7. WindowTypes'
  <2>1. window' \in [Windows -> WindowStates] /\ applied' \in [Windows -> Nat]
    BY <1>2, <1>5 DEF WindowStates
  <2>2. QED
    BY <1>1, <1>6, <2>1, SameSession, Zenon DEF WindowTypes
<1>8. applied'[w] = k /\ window'[w] \in {"open", "applying"} /\ w \in UnderWay'
  BY <1>2, SameSession, Zenon DEF UnderWay
<1>9. ASSUME NEW v \in Windows PROVE Progress(v)'
  <2>1. CASE v = w
    BY <1>2, <1>4, <1>5, <2>1, SameSession DEF Progress
  <2>2. CASE v # w
    BY <1>1, <1>2, <2>2, SameSession DEF Progress
  <2>3. QED
    BY <2>1, <2>2
<1>10. Owned'
  BY <1>5, <1>6, <1>8, SameSession DEF Owned
<1>11. Undisturbed'
  <2>1. UnderWay' \subseteq UnderWay \cup {w}
    BY <1>2, SameSession, Zenon DEF UnderWay
  <2>2. QED
    BY <1>3, <1>6, <1>8, <2>1, SameSession DEF Undisturbed
<1>12. QED
  BY <1>7, <1>9, <1>10, <1>11, SameSession, Zenon DEF WindowInv

LEMMA RefuseKeepsWindows ==
  ASSUME WindowInv, UNCHANGED setup, NEW w \in Windows, RefuseFaults(w)
  PROVE  WindowInv'
<1>1. /\ WindowTypes /\ Owned /\ Undisturbed /\ \A v \in Windows : Progress(v)
      /\ window[w] \in {"idle", "applying"} /\ Progress(w)
  BY DEF WindowInv, RefuseFaults, MayApply
<1>2. /\ window \in [Windows -> WindowStates] /\ applied \in [Windows -> Nat]
      /\ window' = [window EXCEPT ![w] = "refused"] /\ applied' = applied /\ dynamic' = dynamic
  BY <1>1 DEF RefuseFaults, WindowTypes
<1>3. DynamicRules' = DynamicRules
  BY <1>2, SameSession DEF DynamicRules
<1>4. WindowTypes'
  BY <1>1, <1>2, SameSession, Zenon DEF WindowTypes, WindowStates
<1>5. \A v \in Windows : Progress(v)'
  BY <1>1, <1>2, SameSession DEF Progress
<1>6. UnderWay' = UnderWay \ {w}
  BY <1>2, SameSession, Zenon DEF UnderWay
<1>7. \A v \in UnderWay \cup LeftBehind : applied[v] > 0 => v \in UnderWay' \cup LeftBehind'
  BY <1>2, SameSession, Zenon DEF UnderWay, LeftBehind
<1>8. Owned'
  BY <1>1, <1>2, <1>3, <1>7, SameSession DEF Owned
<1>9. Undisturbed'
  BY <1>1, <1>2, <1>3, <1>6, SameSession DEF Undisturbed
<1>10. QED
  BY <1>4, <1>5, <1>8, <1>9, SameSession, Zenon DEF WindowInv

LEMMA ReportKeepsWindows ==
  ASSUME WindowInv, UNCHANGED setup, NEW w \in Windows, ReportActivity(w)
  PROVE  WindowInv'
<1>1. /\ WindowTypes /\ Owned /\ Undisturbed /\ \A v \in Windows : Progress(v)
      /\ window[w] = "open"
  BY DEF WindowInv, ReportActivity
<1>2. /\ window \in [Windows -> WindowStates] /\ applied \in [Windows -> Nat]
      /\ window' = [window EXCEPT ![w] = "reported"] /\ applied' = applied /\ dynamic' = dynamic
  BY <1>1 DEF ReportActivity, WindowTypes
<1>3. DynamicRules' = DynamicRules
  BY <1>2, SameSession DEF DynamicRules
<1>4. WindowTypes'
  BY <1>1, <1>2, SameSession, Zenon DEF WindowTypes, WindowStates
<1>5. \A v \in Windows : Progress(v)'
  BY <1>1, <1>2, SameSession DEF Progress
<1>6. UnderWay' = UnderWay /\ LeftBehind' = LeftBehind
  BY <1>1, <1>2, SameSession, Zenon DEF UnderWay, LeftBehind
<1>7. Owned' /\ Undisturbed'
  BY <1>1, <1>2, <1>3, <1>6, SameSession DEF Owned, Undisturbed
<1>8. QED
  BY <1>4, <1>5, <1>7, SameSession, Zenon DEF WindowInv

LEMMA NothingIsEmpty ==
  ASSUME setup \in Setups
  PROVE  Nothing \in [Syscalls -> Seq(AllRules)] /\ UNION {Range(Nothing[c]) : c \in Syscalls} = {}
<1>1. Nothing \in [Syscalls -> Seq(AllRules)] /\ \A c \in Syscalls : Nothing[c] = <<>>
  BY DEF Nothing
<1>2. \A c \in Syscalls : Range(Nothing[c]) = {}
  BY <1>1 DEF Range
<1>3. QED
  BY <1>1, <1>2

LEMMA ClearKeepsWindows ==
  ASSUME WindowInv, UNCHANGED setup, NEW w \in Windows, ClearFaults(w)
  PROVE  WindowInv'
<1>1. /\ WindowTypes /\ Undisturbed /\ \A v \in Windows : Progress(v)
      /\ window[w] \in {"open", "reported"}
  BY DEF WindowInv, ClearFaults, MayClear
<1>2. /\ window \in [Windows -> WindowStates] /\ applied \in [Windows -> Nat]
      /\ window' = [window EXCEPT ![w] = "closed"] /\ applied' = applied /\ dynamic' = Nothing
  BY <1>1 DEF ClearFaults, WindowTypes
<1>3. dynamic' \in [Syscalls -> Seq(AllRules)] /\ DynamicRules' = {}
  BY <1>1, <1>2, NothingIsEmpty, SameSession, Zenon DEF DynamicRules, WindowTypes
<1>4. WindowTypes'
  BY <1>1, <1>2, <1>3, SameSession, Zenon DEF WindowTypes, WindowStates
<1>5. \A v \in Windows : Progress(v)'
  BY <1>1, <1>2, SameSession DEF Progress
<1>6. UnderWay' = UnderWay \ {w} /\ w \in UnderWay
  BY <1>1, <1>2, SameSession, Zenon DEF UnderWay
<1>7. Undisturbed'
  BY <1>1, <1>6 DEF Undisturbed
<1>8. QED
  BY <1>3, <1>4, <1>5, <1>7, SameSession, Zenon DEF WindowInv, Owned

LEMMA QuietKeepsWindows ==
  ASSUME WindowInv, UNCHANGED <<setup, dynamic, window, applied>>
  PROVE  WindowInv'
<1>1. DynamicRules' = DynamicRules /\ UnderWay' = UnderWay /\ LeftBehind' = LeftBehind
  BY SameSession DEF DynamicRules, UnderWay, LeftBehind
<1>2. \A w : Progress(w)' = Progress(w)
  BY SameSession DEF Progress
<1>3. WindowTypes' /\ Owned' /\ Undisturbed'
  BY <1>1, SameSession DEF WindowInv, WindowTypes, Owned, Undisturbed
<1>4. QED
  BY <1>2, <1>3, SameSession, Zenon DEF WindowInv

LEMMA InitWindows == Init => WindowInv
<1> SUFFICES ASSUME Init PROVE WindowInv
  OBVIOUS
<1>1. setup \in Setups /\ dynamic = Nothing
  BY DEF Init
<1>2. window = [w \in Windows |-> "idle"] /\ applied = [w \in Windows |-> 0]
  BY DEF Init
<1>3. \A w \in Windows : Len(RulesOf[w]) \in Nat
  BY <1>1, RulesOfWindow, Zenon
<1>4. dynamic \in [Syscalls -> Seq(AllRules)] /\ DynamicRules = {}
  BY <1>1, NothingIsEmpty, Zenon DEF DynamicRules
<1>5. WindowTypes
  BY <1>1, <1>2, <1>4 DEF WindowTypes, WindowStates
<1>6. \A w \in Windows : Progress(w)
  BY <1>2, <1>3 DEF Progress
<1>7. UnderWay = {}
  BY <1>2 DEF UnderWay
<1>8. QED
  BY <1>4, <1>5, <1>6, <1>7, Zenon DEF WindowInv, Owned, Undisturbed

----------------------------------------------------------------------------
(* Handlers: what one considers, it was due to consider *)

HandlerTypes ==
    /\ counter \in [Ids -> Nat] /\ occurrences \in [Ids -> Nat]
    /\ handler \in [Handlers -> {"idle", "deciding", "done"}]
    /\ req \in [Handlers -> Calls \cup {NoCall}]
    /\ rules \in [Handlers -> Seq(AllRules)]
    /\ outcome \in [Handlers -> Ids \cup {"none", "allow"}]
    /\ arrival \in [Handlers -> SUBSET Windows]

(* A rule of the configuration, or of a window of those given.              *)
Due(x, r, ws) == FromStatic(x, r) \/ \E w \in ws : r \in UNION Range(x.rulesOf[w])

(* What FaultsHitTheirTarget asks of a rule and a syscall.                  *)
Aimed(r, c) ==
    PathOf(c) # "" => IF r.glob = "none" THEN c.path # "system" ELSE c.path = r.glob

Considers(h) == \A i \in DOMAIN rules[h] : Due(setup, rules[h][i], arrival[h])

Justified(h) ==
    \E r \in AllRules : r.id = outcome[h] /\ Due(setup, r, arrival[h]) /\ Aimed(r, req[h])

HandlerInv ==
    /\ HandlerTypes
    /\ \A h \in Handlers : handler[h] # "done" => outcome[h] = "none"
    /\ \A h \in Handlers : Considers(h)
    /\ \A h \in Faulted : Justified(h)

LEMMA MatchIsAimed ==
  ASSUME NEW r, NEW c, Filter(r, c) = "match"
  PROVE  Aimed(r, c)
<1>1. PathOf(c) # "" => PathOf(c) = c.path
  BY Zenon DEF PathOf
<1>2. QED
  BY <1>1, Zenon DEF Aimed, Filter

(* No handler moves.                                                        *)
LEMMA QuietKeepsHandlers ==
  ASSUME HandlerInv, UNCHANGED <<setup, counter, occurrences, handlerVars>>
  PROVE  HandlerInv'
<1>1. UNCHANGED <<handler, req, rules, outcome, arrival>>
  BY DEF handlerVars
<1>2. HandlerTypes'
  BY <1>1, SameSession, Zenon DEF HandlerInv, HandlerTypes
<1>3. \A h \in Handlers : (handler[h] # "done" => outcome[h] = "none")'
  BY <1>1, Zenon DEF HandlerInv
<1>4. \A h \in Handlers : Considers(h)'
  BY <1>1, SameSession, Zenon DEF HandlerInv, Considers
<1>5. Faulted' = Faulted /\ \A h : Justified(h)' = Justified(h)
  BY <1>1, SameSession, Zenon DEF Faulted, Justified, Aimed
<1>6. QED
  BY <1>2, <1>3, <1>4, <1>5, Zenon DEF HandlerInv

(* A handler looks its rules up: those of the configuration and what is     *)
(* installed.                                                               *)
LEMMA LookupIsDue ==
  ASSUME WindowInv, NEW c \in Filtered
  PROVE  /\ Static[c] \o dynamic[c] \in Seq(AllRules)
         /\ \A i \in DOMAIN (Static[c] \o dynamic[c]) :
               Due(setup, (Static[c] \o dynamic[c])[i], UnderWay \cup LeftBehind)
<1>1. setup \in Setups /\ dynamic \in [Syscalls -> Seq(AllRules)] /\ c \in Syscalls
  BY DEF WindowInv, WindowTypes, Syscalls
<1>2. Static[c] \in Seq(AllRules) /\ \A i \in DOMAIN Static[c] : FromStatic(setup, Static[c][i])
  BY <1>1, StaticRules, Zenon
<1>3. dynamic[c] \in Seq(AllRules)
  BY <1>1
<1>4. ASSUME NEW i \in DOMAIN dynamic[c] PROVE dynamic[c][i] \in DynamicRules
  <2>1. dynamic[c][i] \in Range(dynamic[c])
    BY Zenon DEF Range
  <2>2. QED
    BY <1>1, <2>1, Zenon DEF DynamicRules
<1>5. ASSUME NEW r \in DynamicRules
      PROVE  \E w \in UnderWay \cup LeftBehind : r \in WindowRules(w)
  <2>1. PICK w \in UnderWay \cup LeftBehind :
               applied[w] > 0 /\ DynamicRules = RulesOf[w][applied[w]]
    BY <1>5, Zenon DEF WindowInv, Owned
  <2>2. w \in Windows
    BY DEF UnderWay, LeftBehind
  <2>3. applied[w] \in 1..Len(RulesOf[w])
    BY <1>1, <2>1, <2>2, RulesOfWindow DEF WindowInv, WindowTypes, Progress
  <2>4. QED
    BY <1>1, <1>5, <2>1, <2>2, <2>3, RulesOfWindow, Zenon
<1>6. \A i \in DOMAIN dynamic[c] : Due(setup, dynamic[c][i], UnderWay \cup LeftBehind)
  BY <1>4, <1>5, Zenon DEF Due, WindowRules, RulesOf
<1>7. \A i \in DOMAIN Static[c] : Due(setup, Static[c][i], UnderWay \cup LeftBehind)
  BY <1>2, Zenon DEF Due
<1>8. /\ Static[c] \o dynamic[c] \in Seq(AllRules)
      /\ \A i \in DOMAIN (Static[c] \o dynamic[c]) :
            \/ \E j \in DOMAIN Static[c] : (Static[c] \o dynamic[c])[i] = Static[c][j]
            \/ \E j \in DOMAIN dynamic[c] : (Static[c] \o dynamic[c])[i] = dynamic[c][j]
  <2>1. PICK s, d : s = Static[c] /\ d = dynamic[c]
    OBVIOUS
  <2>2. s \in Seq(AllRules) /\ d \in Seq(AllRules)
    BY <1>2, <1>3, <2>1
  <2>3. s \o d \in Seq(AllRules) /\ DOMAIN (s \o d) = 1..(Len(s) + Len(d))
    BY <2>2
  <2>4. ASSUME NEW i \in DOMAIN (s \o d)
        PROVE  \/ \E j \in DOMAIN s : (s \o d)[i] = s[j]
               \/ \E j \in DOMAIN d : (s \o d)[i] = d[j]
    <3>1. CASE i <= Len(s)
      BY <2>2, <2>3, <3>1
    <3>2. CASE i > Len(s)
      <4>1. i - Len(s) \in DOMAIN d /\ (s \o d)[i] = d[i - Len(s)]
        BY <2>2, <2>3, <3>2
      <4>2. QED
        BY <4>1, Zenon
    <3>3. QED
      BY <2>2, <2>3, <3>1, <3>2
  <2>5. QED
    BY <2>1, <2>3, <2>4, Zenon
<1>9. QED
  BY <1>6, <1>7, <1>8, Zenon

LEMMA ArriveKeepsHandlers ==
  ASSUME WindowInv, HandlerInv, UNCHANGED setup, NEW h \in Handlers, NEW c \in Calls, Arrive(h, c)
  PROVE  HandlerInv'
<1> DEFINE l == Static[c.sys] \o dynamic[c.sys]
           ws == UnderWay \cup LeftBehind
<1>1. /\ handler[h] = "idle" /\ handler' = [handler EXCEPT ![h] = "deciding"]
      /\ req' = [req EXCEPT ![h] = c] /\ rules' = [rules EXCEPT ![h] = l]
      /\ arrival' = [arrival EXCEPT ![h] = ws]
      /\ UNCHANGED <<counter, occurrences, outcome>>
  BY DEF Arrive
<1>2. setup \in Setups /\ c.sys \in Filtered
  BY SetupsAssumption, Zenon DEF WindowInv, WindowTypes, IsSetup, Calls
<1>3. l \in Seq(AllRules) /\ \A i \in DOMAIN l : Due(setup, l[i], ws)
  BY <1>2, LookupIsDue, Zenon
<1>4. ws \in SUBSET Windows
  BY DEF UnderWay, LeftBehind
<1> HIDE DEF l, ws
<1>5. /\ handler \in [Handlers -> {"idle", "deciding", "done"}] /\ req \in [Handlers -> Calls \cup {NoCall}]
      /\ rules \in [Handlers -> Seq(AllRules)] /\ arrival \in [Handlers -> SUBSET Windows]
  BY DEF HandlerInv, HandlerTypes
<1>6. HandlerTypes'
  <2>1. /\ handler' \in [Handlers -> {"idle", "deciding", "done"}]
        /\ req' \in [Handlers -> Calls \cup {NoCall}]
    BY <1>1, <1>2, <1>5
  <2>2. rules' \in [Handlers -> Seq(AllRules)] /\ arrival' \in [Handlers -> SUBSET Windows]
    BY <1>1, <1>3, <1>4, <1>5
  <2>3. QED
    BY <1>1, <2>1, <2>2, SameSession, Zenon DEF HandlerInv, HandlerTypes
<1>7. /\ rules'[h] = l /\ arrival'[h] = ws /\ handler'[h] = "deciding"
      /\ \A k \in Handlers : k # h => /\ rules'[k] = rules[k] /\ arrival'[k] = arrival[k]
                                      /\ req'[k] = req[k] /\ handler'[k] = handler[k]
  BY <1>1, <1>5
<1>8. outcome[h] = "none"
  BY <1>1, Zenon DEF HandlerInv
<1>9. \A k \in Handlers : handler'[k] # "done" => outcome'[k] = "none"
  BY <1>1, <1>7, <1>8, Zenon DEF HandlerInv
<1>10. ASSUME NEW k \in Handlers PROVE Considers(k)'
  <2>1. CASE k = h
    BY <1>3, <1>7, <2>1, Zenon DEF Considers
  <2>2. CASE k # h
    BY <1>7, <2>2, Zenon DEF HandlerInv, Considers
  <2>3. QED
    BY <2>1, <2>2
<1>11. \A k \in Faulted' : k \in Faulted /\ k # h /\ k \in Handlers
  BY <1>1, <1>2, <1>8, RulesOfSession, SameSession, Zenon DEF Faulted, Ids
<1>12. ASSUME NEW k \in Faulted' PROVE Justified(k)'
  <2>1. k \in Faulted /\ k # h /\ k \in Handlers
    BY <1>11, <1>12, Zenon
  <2>2. Justified(k) /\ outcome'[k] = outcome[k]
    BY <1>1, <2>1, Zenon DEF HandlerInv
  <2>3. QED
    BY <1>7, <2>1, <2>2, SameSession, Zenon DEF Justified
<1>13. QED
  BY <1>6, <1>9, <1>10, <1>12, Zenon DEF HandlerInv

(* A handler goes on to its next rule.                                      *)
LEMMA NextRuleKeepsHandlers ==
  ASSUME HandlerInv, UNCHANGED setup, NEW h \in Handlers, rules[h] # <<>>, NextRule(h),
         counter' \in [Ids -> Nat], occurrences' \in [Ids -> Nat]
  PROVE  HandlerInv'
<1>1. rules' = [rules EXCEPT ![h] = Tail(rules[h])] /\ UNCHANGED <<handler, req, outcome, arrival>>
  BY DEF NextRule
<1>2. rules \in [Handlers -> Seq(AllRules)]
  BY DEF HandlerInv, HandlerTypes
<1>3. /\ Tail(rules[h]) \in Seq(AllRules)
      /\ \A i \in DOMAIN Tail(rules[h]) : i + 1 \in DOMAIN rules[h] /\ Tail(rules[h])[i] = rules[h][i + 1]
  <2>1. PICK l \in Seq(AllRules) : l = rules[h]
    BY <1>2
  <2>2. Tail(l) \in Seq(AllRules) /\ \A i \in DOMAIN Tail(l) : i + 1 \in DOMAIN l /\ Tail(l)[i] = l[i + 1]
    BY <2>1
  <2>3. QED
    BY <2>1, <2>2, Zenon
<1>4. rules' \in [Handlers -> Seq(AllRules)]
  BY <1>1, <1>2, <1>3
<1>5. rules'[h] = Tail(rules[h]) /\ \A k \in Handlers : k # h => rules'[k] = rules[k]
  BY <1>1, <1>2
<1>6. HandlerTypes'
  BY <1>1, <1>4, SameSession, Zenon DEF HandlerInv, HandlerTypes
<1>7. ASSUME NEW k \in Handlers PROVE Considers(k)'
  <2>1. CASE k = h
    <3>1. \A i \in DOMAIN rules[h] : Due(setup, rules[h][i], arrival[h])
      BY Zenon DEF HandlerInv, Considers
    <3>2. \A i \in DOMAIN rules'[h] : Due(setup, rules'[h][i], arrival[h])
      BY <1>3, <1>5, <3>1, Zenon
    <3>3. QED
      BY <1>1, <2>1, <3>2, Zenon DEF Considers
  <2>2. CASE k # h
    BY <1>1, <1>5, <2>2, Zenon DEF HandlerInv, Considers
  <2>3. QED
    BY <2>1, <2>2
<1>8. Faulted' = Faulted /\ \A k : Justified(k)' = Justified(k)
  BY <1>1, SameSession, Zenon DEF Faulted, Justified
<1>9. QED
  BY <1>1, <1>6, <1>7, <1>8, Zenon DEF HandlerInv

(* A handler answers with a rule that was due and is aimed at its syscall,  *)
(* or lets the syscall through.                                             *)
LEMMA AnswerKeepsHandlers ==
  ASSUME HandlerInv, UNCHANGED setup, setup \in Setups, NEW h \in Handlers, NEW o, Answer(h, o),
         \/ o = "allow"
         \/ \E r \in AllRules : r.id = o /\ Due(setup, r, arrival[h]) /\ Aimed(r, req[h]),
         counter' \in [Ids -> Nat], occurrences' \in [Ids -> Nat]
  PROVE  HandlerInv'
<1>1. /\ handler' = [handler EXCEPT ![h] = "done"] /\ outcome' = [outcome EXCEPT ![h] = o]
      /\ rules' = [rules EXCEPT ![h] = <<>>] /\ UNCHANGED <<req, arrival>>
  BY DEF Answer
<1>2. /\ handler \in [Handlers -> {"idle", "deciding", "done"}] /\ rules \in [Handlers -> Seq(AllRules)]
      /\ outcome \in [Handlers -> Ids \cup {"none", "allow"}]
  BY DEF HandlerInv, HandlerTypes
<1>3. o \in Ids \cup {"none", "allow"}
  BY RulesOfSession, Zenon
<1>4. /\ handler' \in [Handlers -> {"idle", "deciding", "done"}] /\ rules' \in [Handlers -> Seq(AllRules)]
      /\ outcome' \in [Handlers -> Ids \cup {"none", "allow"}]
  BY <1>1, <1>2, <1>3
<1>5. /\ handler'[h] = "done" /\ rules'[h] = <<>> /\ outcome'[h] = o
      /\ \A k \in Handlers : k # h => /\ handler'[k] = handler[k] /\ rules'[k] = rules[k]
                                      /\ outcome'[k] = outcome[k]
  BY <1>1, <1>2
<1>6. HandlerTypes'
  BY <1>1, <1>4, SameSession, Zenon DEF HandlerInv, HandlerTypes
<1>7. \A k \in Handlers : handler'[k] # "done" => outcome'[k] = "none"
  BY <1>5, Zenon DEF HandlerInv
<1>8. ASSUME NEW k \in Handlers PROVE Considers(k)'
  <2>1. CASE k = h
    <3>1. DOMAIN rules'[k] = {}
      BY <1>5, <2>1
    <3>2. QED
      BY <3>1, Zenon DEF Considers
  <2>2. CASE k # h
    BY <1>1, <1>5, <2>2, Zenon DEF HandlerInv, Considers
  <2>3. QED
    BY <2>1, <2>2
<1>9. ASSUME NEW k \in Faulted' PROVE Justified(k)'
  <2>1. CASE k = h
    <3>1. outcome'[h] \in Ids
      BY <1>9, <2>1, SameSession, Zenon DEF Faulted
    <3>2. o # "allow"
      BY <1>5, <3>1, RulesOfSession, Zenon DEF Ids
    <3>3. QED
      BY <1>1, <1>5, <2>1, <3>2, SameSession, Zenon DEF Justified
  <2>2. CASE k # h
    <3>1. k \in Faulted /\ k \in Handlers
      BY <1>5, <1>9, <2>2, SameSession, Zenon DEF Faulted
    <3>2. QED
      BY <1>1, <1>5, <2>2, <3>1, SameSession, Zenon DEF HandlerInv, Justified
  <2>3. QED
    BY <2>1, <2>2
<1>10. QED
  BY <1>6, <1>7, <1>8, <1>9, Zenon DEF HandlerInv

LEMMA CountsAreTyped ==
  ASSUME HandlerInv, NEW i \in Ids
  PROVE  /\ [counter EXCEPT ![i] = @ + 1] \in [Ids -> Nat]
         /\ [occurrences EXCEPT ![i] = IF Decider THEN @ + 1 ELSE @] \in [Ids -> Nat]
         /\ counter \in [Ids -> Nat] /\ occurrences \in [Ids -> Nat]
  BY DEF HandlerInv, HandlerTypes

(* The rule a handler considers is one it was due to consider.              *)
LEMMA HeadIsDue ==
  ASSUME HandlerInv, setup \in Setups, NEW h \in Handlers, rules[h] # <<>>
  PROVE  Head(rules[h]) \in AllRules /\ Due(setup, Head(rules[h]), arrival[h])
<1>1. PICK l \in Seq(AllRules) : l = rules[h]
  BY DEF HandlerInv, HandlerTypes
<1>2. 1 \in DOMAIN l /\ Head(l) = l[1] /\ l[1] \in AllRules
  BY <1>1
<1>3. QED
  BY <1>1, <1>2, Zenon DEF HandlerInv, Considers

(* What becomes of the rule a handler considers.                            *)
Passes(h, r) ==
    /\ Filter(r, req[h]) = "skip" /\ NextRule(h) /\ UNCHANGED <<counter, occurrences>>

Spares(h, r) ==
    /\ Filter(r, req[h]) = "allow" /\ Answer(h, "allow") /\ UNCHANGED <<counter, occurrences>>

Counts(h, r) ==
    /\ Filter(r, req[h]) = "match" /\ ~ShouldFire(r, counter[r.id] + 1)
    /\ Count(r) /\ NextRule(h) /\ UNCHANGED occurrences

Draws(h, r, fire) ==
    /\ Filter(r, req[h]) = "match" /\ ShouldFire(r, counter[r.id] + 1)
    /\ Count(r)
    /\ occurrences' = [occurrences EXCEPT ![r.id] = IF Decider THEN @ + 1 ELSE @]
    /\ fire \in FireDecisions(r)
    /\ IF fire THEN Answer(h, r.id) ELSE NextRule(h)

LEMMA ConsiderCases ==
  ASSUME NEW h, Consider(h), NEW r, r = Head(rules[h])
  PROVE  \/ Passes(h, r) \/ Spares(h, r) \/ Counts(h, r) \/ \E fire : Draws(h, r, fire)
<1> DEFINE x == Head(rules[h])
<1>1. \/ Passes(h, x) \/ Spares(h, x) \/ Counts(h, x)
      \/ /\ Filter(x, req[h]) = "match" /\ ShouldFire(x, counter[x.id] + 1)
         /\ Count(x)
         /\ occurrences' = [occurrences EXCEPT ![x.id] = IF Decider THEN @ + 1 ELSE @]
         /\ \E fire \in FireDecisions(x) : IF fire THEN Answer(h, x.id) ELSE NextRule(h)
  BY Zenon DEF Consider, Passes, Spares, Counts
<1>2. ASSUME /\ Filter(x, req[h]) = "match" /\ ShouldFire(x, counter[x.id] + 1)
             /\ Count(x)
             /\ occurrences' = [occurrences EXCEPT ![x.id] = IF Decider THEN @ + 1 ELSE @],
             NEW fire \in FireDecisions(x), IF fire THEN Answer(h, x.id) ELSE NextRule(h)
      PROVE  Draws(h, x, fire)
  BY <1>2, Zenon DEF Draws
<1>3. Passes(h, x) \/ Spares(h, x) \/ Counts(h, x) \/ \E fire : Draws(h, x, fire)
  BY <1>1, <1>2, Zenon
<1>4. QED
  BY <1>3, Zenon

LEMMA ConsiderKeepsHandlers ==
  ASSUME HandlerInv, UNCHANGED setup, setup \in Setups, NEW h \in Handlers, Consider(h)
  PROVE  HandlerInv'
<1>1. PICK r : r = Head(rules[h])
  OBVIOUS
<1>2. rules[h] # <<>>
  BY DEF Consider
<1>3. r \in AllRules /\ Due(setup, r, arrival[h]) /\ r.id \in Ids
  BY <1>1, <1>2, HeadIsDue, RulesOfSession, Zenon
<1>4. counter \in [Ids -> Nat] /\ occurrences \in [Ids -> Nat]
  BY <1>3, CountsAreTyped, Zenon
<1>5. CASE Passes(h, r)
  BY <1>2, <1>4, <1>5, NextRuleKeepsHandlers DEF Passes
<1>6. CASE Spares(h, r)
  BY <1>4, <1>6, AnswerKeepsHandlers DEF Spares
<1>7. CASE Counts(h, r)
  <2>1. counter' \in [Ids -> Nat]
    BY <1>3, <1>7, CountsAreTyped DEF Counts, Count
  <2>2. QED
    BY <1>2, <1>4, <1>7, <2>1, NextRuleKeepsHandlers DEF Counts
<1>8. ASSUME NEW fire, Draws(h, r, fire) PROVE HandlerInv'
  <2>1. counter' \in [Ids -> Nat] /\ occurrences' \in [Ids -> Nat]
    BY <1>3, <1>8, CountsAreTyped DEF Draws, Count
  <2>2. Aimed(r, req[h])
    BY <1>8, MatchIsAimed, Zenon DEF Draws
  <2>3. CASE fire
    BY <1>3, <1>8, <2>1, <2>2, <2>3, AnswerKeepsHandlers, Zenon DEF Draws
  <2>4. CASE ~fire
    BY <1>2, <1>8, <2>1, <2>4, NextRuleKeepsHandlers, Zenon DEF Draws
  <2>5. QED
    BY <2>3, <2>4
<1>9. Passes(h, r) \/ Spares(h, r) \/ Counts(h, r) \/ \E fire : Draws(h, r, fire)
  BY <1>1, ConsiderCases
<1>10. QED
  BY <1>5, <1>6, <1>7, <1>8, <1>9, Zenon

LEMMA InitHandlers == Init => HandlerInv
<1> SUFFICES ASSUME Init PROVE HandlerInv
  OBVIOUS
<1>1. setup \in Setups
  BY DEF Init
<1>2. /\ counter = [i \in Ids |-> 0] /\ occurrences = [i \in Ids |-> 0]
      /\ handler = [h \in Handlers |-> "idle"] /\ req = [h \in Handlers |-> NoCall]
      /\ rules = [h \in Handlers |-> <<>>] /\ outcome = [h \in Handlers |-> "none"]
      /\ arrival = [h \in Handlers |-> {}]
  BY DEF Init
<1>3. HandlerTypes
  BY <1>1, <1>2 DEF HandlerTypes
<1>4. \A h \in Handlers : outcome[h] = "none" /\ rules[h] = <<>>
  BY <1>2
<1>5. \A h \in Handlers : DOMAIN rules[h] = {}
  BY <1>4
<1>6. Faulted = {}
  BY <1>1, <1>4, RulesOfSession, Zenon DEF Faulted, Ids
<1>7. QED
  BY <1>3, <1>4, <1>5, <1>6, Zenon DEF HandlerInv, Considers

----------------------------------------------------------------------------
(* Triggers: the fires of a rule are a function of its counters *)

(* n matching calls of a rule without probability gave f fires.             *)
TriggerExact(r, n, f) ==
    /\ r.trigger = "nth" => f = (IF n >= r.n THEN 1 ELSE 0)
    /\ r.trigger = "after" => f = (IF n > r.n THEN n - r.n ELSE 0)

(* k occurrences of a pinned rule gave f fires.                             *)
VectorExact(v, k, f) ==
    v # <<>> /\ k <= Len(v) => f = Cardinality({i \in 1..k : v[i]})

RuleExact(r) ==
    /\ r.prob = "one" => TriggerExact(r, counter[r.id], Cardinality(Fired(r.id)))
    /\ VectorExact(Vector(r), occurrences[r.id], Cardinality(Fired(r.id)))

ExactInv == \A r \in AllRules : RuleExact(r)

LEMMA ExactInvIsExact == ExactInv <=> TriggersAreExact
  BY Zenon DEF ExactInv, RuleExact, TriggerExact, VectorExact, TriggersAreExact,
               RuleTriggersAreExact, LeafVectorIsRealised

LEMMA TriggerStep ==
  ASSUME NEW r \in RuleType, r.trigger = "nth" => r.n > 0, NEW n \in Nat, NEW f \in Nat,
         TriggerExact(r, n, f)
  PROVE  /\ ShouldFire(r, n + 1) => TriggerExact(r, n + 1, f + 1)
         /\ ~ShouldFire(r, n + 1) => TriggerExact(r, n + 1, f)
<1>1. PICK m \in Nat : m = r.n
  BY DEF RuleType
<1>2. CASE r.trigger = "always"
  BY <1>2, Zenon DEF TriggerExact
<1>3. CASE r.trigger = "nth"
  <2>1. m > 0 /\ f = (IF n >= m THEN 1 ELSE 0) /\ (ShouldFire(r, n + 1) <=> n + 1 = m)
    BY <1>1, <1>3 DEF TriggerExact, ShouldFire
  <2>2. /\ n + 1 = m => f + 1 = (IF n + 1 >= m THEN 1 ELSE 0)
        /\ n + 1 # m => f = (IF n + 1 >= m THEN 1 ELSE 0)
    BY <2>1
  <2>3. QED
    BY <1>1, <1>3, <2>1, <2>2 DEF TriggerExact
<1>4. CASE r.trigger = "after"
  <2>1. f = (IF n > m THEN n - m ELSE 0) /\ (ShouldFire(r, n + 1) <=> n + 1 > m)
    BY <1>1, <1>4 DEF TriggerExact, ShouldFire
  <2>2. /\ n + 1 > m => f + 1 = n + 1 - m
        /\ ~(n + 1 > m) => f = 0
    BY <2>1
  <2>3. QED
    BY <1>1, <1>4, <2>1, <2>2 DEF TriggerExact
<1>5. QED
  BY <1>2, <1>3, <1>4 DEF RuleType

LEMMA VectorStep ==
  ASSUME NEW v \in Seq(BOOLEAN), NEW k \in Nat, NEW f \in Nat, VectorExact(v, k, f)
  PROVE  /\ k < Len(v) /\ v[k + 1] => VectorExact(v, k + 1, f + 1)
         /\ k < Len(v) /\ ~v[k + 1] => VectorExact(v, k + 1, f)
         /\ k >= Len(v) => \A g : VectorExact(v, k + 1, g)
<1> DEFINE A == {i \in 1..k : v[i]}
           B == {i \in 1..(k + 1) : v[i]}
<1>1. Len(v) \in Nat
  OBVIOUS
<1>2. IsFiniteSet(1..k) /\ A \in SUBSET (1..k)
  BY FS_Interval
<1>3. IsFiniteSet(A)
  BY <1>2, FS_Subset, Zenon
<1>4. k + 1 \notin A
  OBVIOUS
<1>5. ASSUME k < Len(v), v[k + 1] PROVE VectorExact(v, k + 1, f + 1)
  <2>1. B = A \cup {k + 1}
    BY <1>5
  <2>2. Cardinality(A \cup {k + 1}) = Cardinality(A) + 1
    BY <1>3, <1>4, FS_AddElement, Zenon
  <2>3. v # <<>> => f = Cardinality(A)
    BY <1>1, <1>5 DEF VectorExact
  <2> HIDE DEF A, B
  <2>4. v # <<>> => f + 1 = Cardinality(B)
    BY <2>1, <2>2, <2>3
  <2>5. QED
    BY <2>4, Zenon DEF VectorExact, B
<1>6. ASSUME k < Len(v), ~v[k + 1] PROVE VectorExact(v, k + 1, f)
  <2>1. B = A
    BY <1>6
  <2>2. v # <<>> => f = Cardinality(A)
    BY <1>1, <1>6 DEF VectorExact
  <2>3. QED
    BY <2>1, <2>2, Zenon DEF VectorExact
<1>7. k >= Len(v) => ~(k + 1 <= Len(v))
  BY <1>1
<1>8. QED
  BY <1>5, <1>6, <1>7, Zenon DEF VectorExact

(* Who fired is a set of handlers.                                          *)
LEMMA FiresAreNat == \A i : IsFiniteSet(Fired(i)) /\ Cardinality(Fired(i)) \in Nat
<1> TAKE i
<1>1. Fired(i) \in SUBSET Handlers
  BY DEF Fired
<1>2. IsFiniteSet(Fired(i))
  BY <1>1, SetupsAssumption, FS_Subset, Zenon
<1>3. QED
  BY <1>2, FS_CardinalityType, Zenon

(* One more handler fired a rule, and none another rule.                    *)
LEMMA FireCounts ==
  ASSUME HandlerInv, NEW h \in Handlers, NEW o, outcome[h] = "none", o # "none",
         outcome' = [outcome EXCEPT ![h] = o]
  PROVE  /\ Cardinality(Fired(o)') = Cardinality(Fired(o)) + 1
         /\ \A i : i \notin {o, "none"} => Fired(i)' = Fired(i)
<1>1. /\ outcome'[h] = o
      /\ \A k \in Handlers : k # h => outcome'[k] = outcome[k]
  BY DEF HandlerInv, HandlerTypes
<1>2. Fired(o)' = Fired(o) \cup {h} /\ h \notin Fired(o)
  BY <1>1 DEF Fired
<1>3. Cardinality(Fired(o) \cup {h}) = Cardinality(Fired(o)) + 1
  BY <1>2, FiresAreNat, FS_AddElement, Zenon
<1>4. \A i : i \notin {o, "none"} => Fired(i)' = Fired(i)
  BY <1>1 DEF Fired
<1>5. QED
  BY <1>2, <1>3, <1>4, Zenon

LEMMA QuietKeepsExact ==
  ASSUME ExactInv, UNCHANGED <<setup, counter, occurrences, outcome>>
  PROVE  ExactInv'
<1>1. \A i : Fired(i)' = Fired(i)
  BY Zenon DEF Fired
<1>2. ASSUME NEW r \in AllRules PROVE RuleExact(r)'
  <2>1. Fired(r.id)' = Fired(r.id) /\ Vector(r)' = Vector(r)
    BY <1>1, SameSession, Zenon
  <2>2. RuleExact(r)
    BY Zenon DEF ExactInv
  <2>3. QED
    BY <2>1, <2>2 DEF RuleExact
<1>3. QED
  BY <1>2, SameSession, Zenon DEF ExactInv

(* The counters of the other rules do not move.                             *)
LEMMA OthersStayExact ==
  ASSUME ExactInv, setup \in Setups, UNCHANGED setup, NEW r \in AllRules,
         counter \in [Ids -> Nat], occurrences \in [Ids -> Nat],
         \A i \in Ids : i # r.id => /\ counter'[i] = counter[i]
                                    /\ occurrences'[i] = occurrences[i]
                                    /\ Fired(i)' = Fired(i),
         RuleExact(r)'
  PROVE  ExactInv'
<1>1. ASSUME NEW q \in AllRules, q # r PROVE RuleExact(q)'
  <2>1. q.id \in Ids /\ q.id # r.id
    BY <1>1, RulesOfSession, Zenon
  <2>2. /\ Fired(q.id)' = Fired(q.id) /\ Vector(q)' = Vector(q)
        /\ counter'[q.id] = counter[q.id] /\ occurrences'[q.id] = occurrences[q.id]
    BY <2>1, SameSession, Zenon
  <2>3. RuleExact(q)
    BY Zenon DEF ExactInv
  <2>4. QED
    BY <2>2, <2>3 DEF RuleExact
<1>2. QED
  BY <1>1, SameSession, Zenon DEF ExactInv

LEMMA VectorIsPinned ==
  ASSUME setup \in Setups, NEW r \in AllRules
  PROVE  /\ Vector(r) \in Seq(BOOLEAN)
         /\ r.prob = "one" => Vector(r) = <<>>
         /\ ~Decider => Vector(r) = <<>>
<1>1. r.prob = "one" => r.key \notin DOMAIN setup.leaf
  BY SetupsAssumption, Zenon DEF IsSetup, AllRules
<1>2. r.key \in DOMAIN setup.leaf => setup.leaf[r.key] \in Seq(BOOLEAN)
  BY SetupsAssumption, Zenon DEF IsSetup
<1>3. <<>> \in Seq(BOOLEAN)
  OBVIOUS
<1>4. CASE Decider /\ r.key \in DOMAIN setup.leaf
  BY <1>1, <1>2, <1>4, Zenon DEF Vector
<1>5. CASE ~(Decider /\ r.key \in DOMAIN setup.leaf)
  <2>1. Vector(r) = <<>>
    BY <1>5, Zenon DEF Vector
  <2>2. QED
    BY <1>3, <2>1, Zenon
<1>6. QED
  BY <1>4, <1>5, Zenon

LEMMA FireDecides ==
  ASSUME setup \in Setups, NEW r \in AllRules, occurrences[r.id] \in Nat,
         NEW fire \in FireDecisions(r)
  PROVE  /\ r.prob = "one" => fire
         /\ occurrences[r.id] < Len(Vector(r)) => fire = Vector(r)[occurrences[r.id] + 1]
<1>1. FireDecisions(r) =
         IF occurrences[r.id] < Len(Vector(r)) THEN {Vector(r)[occurrences[r.id] + 1]}
         ELSE CASE r.prob = "one" -> {TRUE} [] r.prob = "zero" -> {FALSE}
                [] r.prob = "some" -> BOOLEAN
  BY Zenon DEF FireDecisions, NextProbabilityOccurrence
<1>2. occurrences[r.id] < Len(Vector(r)) => fire = Vector(r)[occurrences[r.id] + 1]
  BY <1>1, Zenon
<1>3. ASSUME r.prob = "one" PROVE fire
  <2>1. ~(occurrences[r.id] < Len(Vector(r)))
    BY <1>3, VectorIsPinned
  <2>2. FireDecisions(r) = CASE r.prob = "one" -> {TRUE} [] r.prob = "zero" -> {FALSE}
                             [] r.prob = "some" -> BOOLEAN
    BY <1>1, <2>1, Zenon
  <2>3. FireDecisions(r) = {TRUE}
    BY <1>3, <2>2
  <2>4. QED
    BY <2>3, Zenon
<1>4. QED
  BY <1>2, <1>3, Zenon

(* A syscall is let through.                                                *)
LEMMA AllowKeepsExact ==
  ASSUME HandlerInv, ExactInv, setup \in Setups, UNCHANGED <<setup, counter, occurrences>>,
         NEW h \in Handlers, handler[h] = "deciding", Answer(h, "allow")
  PROVE  ExactInv'
<1>1. outcome[h] = "none" /\ outcome' = [outcome EXCEPT ![h] = "allow"]
  BY DEF HandlerInv, Answer
<1>2. \A i : i \notin {"allow", "none"} => Fired(i)' = Fired(i)
  BY <1>1, FireCounts, Zenon
<1>3. ASSUME NEW r \in AllRules PROVE RuleExact(r)'
  <2>1. r.id \notin {"none", "allow"}
    BY RulesOfSession, Zenon
  <2>2. Fired(r.id)' = Fired(r.id) /\ Vector(r)' = Vector(r)
    BY <1>2, <2>1, SameSession, Zenon
  <2>3. RuleExact(r)
    BY Zenon DEF ExactInv
  <2>4. QED
    BY <2>2, <2>3 DEF RuleExact
<1>4. QED
  BY <1>3, SameSession, Zenon DEF ExactInv

LEMMA CountsKeepsExact ==
  ASSUME HandlerInv, ExactInv, setup \in Setups, UNCHANGED setup,
         NEW h \in Handlers, NEW r \in AllRules, Counts(h, r)
  PROVE  ExactInv'
<1>1. /\ counter \in [Ids -> Nat] /\ occurrences \in [Ids -> Nat] /\ r.id \in Ids
      /\ r \in RuleType /\ (r.trigger = "nth" => r.n > 0)
  BY RulesOfSession, Zenon DEF HandlerInv, HandlerTypes
<1>2. /\ counter' = [counter EXCEPT ![r.id] = @ + 1]
      /\ UNCHANGED <<occurrences, outcome>> /\ ~ShouldFire(r, counter[r.id] + 1)
  BY DEF Counts, Count, NextRule
<1>3. \A i : Fired(i)' = Fired(i)
  BY <1>2, Zenon DEF Fired
<1>4. PICK n \in Nat, f \in Nat : n = counter[r.id] /\ f = Cardinality(Fired(r.id))
  BY <1>1, FiresAreNat
<1>5. counter'[r.id] = n + 1 /\ \A i \in Ids : i # r.id => counter'[i] = counter[i]
  BY <1>1, <1>2, <1>4
<1>6. RuleExact(r)
  BY Zenon DEF ExactInv
<1>7. r.prob = "one" => TriggerExact(r, n + 1, f)
  BY <1>1, <1>2, <1>4, <1>6, TriggerStep, Zenon DEF RuleExact
<1>8. Vector(r)' = Vector(r) /\ Fired(r.id)' = Fired(r.id) /\ occurrences' = occurrences
  BY <1>2, <1>3, SameSession, Zenon
<1>9. RuleExact(r)'
  BY <1>4, <1>5, <1>6, <1>7, <1>8, Zenon DEF RuleExact
<1>10. QED
  BY <1>1, <1>2, <1>3, <1>5, <1>9, OthersStayExact, Zenon

LEMMA DrawsKeepsExact ==
  ASSUME HandlerInv, ExactInv, setup \in Setups, UNCHANGED setup,
         NEW h \in Handlers, handler[h] = "deciding", NEW r \in AllRules,
         NEW fire, Draws(h, r, fire)
  PROVE  ExactInv'
<1>1. /\ counter \in [Ids -> Nat] /\ occurrences \in [Ids -> Nat] /\ r.id \in Ids
      /\ r \in RuleType /\ (r.trigger = "nth" => r.n > 0) /\ r.id \notin {"none", "allow"}
  BY RulesOfSession, Zenon DEF HandlerInv, HandlerTypes
<1>2. /\ counter' = [counter EXCEPT ![r.id] = @ + 1]
      /\ occurrences' = [occurrences EXCEPT ![r.id] = IF Decider THEN @ + 1 ELSE @]
      /\ ShouldFire(r, counter[r.id] + 1) /\ fire \in FireDecisions(r)
      /\ IF fire THEN Answer(h, r.id) ELSE NextRule(h)
  BY Zenon DEF Draws, Count
<1>3. PICK n \in Nat, k \in Nat, f \in Nat :
         n = counter[r.id] /\ k = occurrences[r.id] /\ f = Cardinality(Fired(r.id))
  BY <1>1, FiresAreNat
<1>4. /\ counter'[r.id] = n + 1 /\ occurrences'[r.id] = IF Decider THEN k + 1 ELSE k
      /\ \A i \in Ids : i # r.id => counter'[i] = counter[i] /\ occurrences'[i] = occurrences[i]
  BY <1>1, <1>2, <1>3
<1>5. /\ r.prob = "one" => TriggerExact(r, n, f)
      /\ VectorExact(Vector(r), k, f)
  BY <1>3, Zenon DEF ExactInv, RuleExact
<1>6. outcome[h] = "none"
  BY Zenon DEF HandlerInv
<1>7. PICK v \in Seq(BOOLEAN) : v = Vector(r) /\ Vector(r)' = v /\ (~Decider => v = <<>>)
  BY VectorIsPinned, SameSession, Zenon
<1>8. /\ r.prob = "one" => fire
      /\ k < Len(v) => fire = v[k + 1]
  BY <1>1, <1>2, <1>3, <1>7, FireDecides, Zenon
<1>9. k < Len(v) \/ k >= Len(v)
  BY <1>7
<1>10. VectorExact(v, IF Decider THEN k + 1 ELSE k, IF fire THEN f + 1 ELSE f)
  <2>1. CASE ~Decider
    BY <1>7, <2>1, Zenon DEF VectorExact
  <2>2. CASE Decider
    BY <1>5, <1>7, <1>8, <1>9, <2>2, VectorStep, Zenon
  <2>3. QED
    BY <2>1, <2>2
<1>11. CASE fire
  <2>1. outcome' = [outcome EXCEPT ![h] = r.id]
    BY <1>2, <1>11, Zenon DEF Answer
  <2>2. Cardinality(Fired(r.id)') = f + 1 /\ \A i : i \notin {r.id, "none"} => Fired(i)' = Fired(i)
    BY <1>1, <1>3, <1>6, <2>1, FireCounts, Zenon
  <2>3. r.prob = "one" => TriggerExact(r, n + 1, f + 1)
    BY <1>1, <1>2, <1>3, <1>5, TriggerStep, Zenon
  <2>4. VectorExact(v, IF Decider THEN k + 1 ELSE k, f + 1)
    BY <1>10, <1>11, Zenon
  <2>5. RuleExact(r)'
    BY <1>4, <1>7, <2>2, <2>3, <2>4, Zenon DEF RuleExact
  <2>6. \A i \in Ids : i # r.id => Fired(i)' = Fired(i)
    BY <2>2, RulesOfSession, Zenon DEF Ids
  <2>7. QED
    BY <1>1, <1>4, <2>5, <2>6, OthersStayExact, Zenon
<1>12. CASE ~fire
  <2>1. \A i : Fired(i)' = Fired(i)
    BY <1>2, <1>12, Zenon DEF NextRule, Fired
  <2>2. r.prob # "one"
    BY <1>8, <1>12, Zenon
  <2>3. VectorExact(v, IF Decider THEN k + 1 ELSE k, f)
    BY <1>10, <1>12, Zenon
  <2>4. RuleExact(r)'
    BY <1>3, <1>4, <1>7, <2>1, <2>2, <2>3, Zenon DEF RuleExact
  <2>5. QED
    BY <1>1, <1>4, <2>1, <2>4, OthersStayExact, Zenon
<1>13. QED
  BY <1>11, <1>12

LEMMA ConsiderKeepsExact ==
  ASSUME HandlerInv, ExactInv, UNCHANGED setup, setup \in Setups, NEW h \in Handlers, Consider(h)
  PROVE  ExactInv'
<1>1. PICK r : r = Head(rules[h])
  OBVIOUS
<1>2. handler[h] = "deciding" /\ rules[h] # <<>>
  BY DEF Consider
<1>3. r \in AllRules
  BY <1>1, <1>2, HeadIsDue, Zenon
<1>4. CASE Passes(h, r)
  BY <1>4, QuietKeepsExact DEF Passes, NextRule
<1>5. CASE Spares(h, r)
  BY <1>2, <1>5, AllowKeepsExact DEF Spares
<1>6. CASE Counts(h, r)
  BY <1>3, <1>6, CountsKeepsExact, Zenon
<1>7. ASSUME NEW fire, Draws(h, r, fire) PROVE ExactInv'
  BY <1>2, <1>3, <1>7, DrawsKeepsExact, Zenon
<1>8. Passes(h, r) \/ Spares(h, r) \/ Counts(h, r) \/ \E fire : Draws(h, r, fire)
  BY <1>1, ConsiderCases
<1>9. QED
  BY <1>4, <1>5, <1>6, <1>7, <1>8, Zenon

LEMMA InitExact == Init => ExactInv
<1> SUFFICES ASSUME Init, NEW r \in AllRules PROVE RuleExact(r)
  BY DEF ExactInv
<1>1. /\ setup \in Setups /\ \A h \in Handlers : outcome[h] = "none"
      /\ \A i \in Ids : counter[i] = 0 /\ occurrences[i] = 0
  BY DEF Init
<1>2. /\ r.id \in Ids /\ r.id \notin {"none", "allow"} /\ r \in RuleType
      /\ (r.trigger = "nth" => r.n > 0)
  BY <1>1, RulesOfSession, Zenon
<1>3. Fired(r.id) = {}
  BY <1>1, <1>2, Zenon DEF Fired
<1>4. Cardinality(Fired(r.id)) = 0
  BY <1>3, FS_EmptySet, Zenon
<1>5. counter[r.id] = 0 /\ occurrences[r.id] = 0
  BY <1>1, <1>2, Zenon
<1>6. TriggerExact(r, 0, 0)
  BY <1>2 DEF TriggerExact, RuleType
<1>7. VectorExact(Vector(r), 0, 0)
  <2>1. {i \in 1..0 : Vector(r)[i]} = {}
    OBVIOUS
  <2>2. QED
    BY <2>1, FS_EmptySet, Zenon DEF VectorExact
<1>8. QED
  BY <1>4, <1>5, <1>6, <1>7, Zenon DEF RuleExact

----------------------------------------------------------------------------
(* The theorems *)

(* The inductive invariant.                                                 *)
IInv == WindowInv /\ HandlerInv /\ ExactInv

LEMMA StepKeeps == IInv /\ [Next]_vars => IInv'
<1> SUFFICES ASSUME IInv, [Next]_vars PROVE IInv'
  OBVIOUS
<1>1. WindowInv /\ HandlerInv /\ ExactInv /\ setup \in Setups
  BY Zenon DEF IInv, WindowInv, WindowTypes
<1>2. ASSUME NEW w \in Windows, UNCHANGED setup,
             ApplyFaults(w) \/ RefuseFaults(w) \/ ReportActivity(w) \/ ClearFaults(w)
      PROVE  IInv'
  <2>1. WindowInv'
    BY <1>1, <1>2, ApplyKeepsWindows, RefuseKeepsWindows, ReportKeepsWindows, ClearKeepsWindows, Zenon
  <2>2. UNCHANGED <<counter, occurrences, handlerVars>>
    BY <1>2, Zenon DEF ApplyFaults, RefuseFaults, ReportActivity, ClearFaults
  <2>3. HandlerInv' /\ ExactInv'
    BY <1>1, <1>2, <2>2, QuietKeepsHandlers, QuietKeepsExact DEF handlerVars
  <2>4. QED
    BY <2>1, <2>3, Zenon DEF IInv
<1>3. ASSUME NEW h \in Handlers, UNCHANGED setup, Consider(h) PROVE IInv'
  <2>1. UNCHANGED windowVars
    <3>1. PICK r : r = Head(rules[h])
      OBVIOUS
    <3>2. Passes(h, r) \/ Spares(h, r) \/ Counts(h, r) \/ \E fire : Draws(h, r, fire)
      BY <1>3, <3>1, ConsiderCases
    <3>3. QED
      BY <3>2, Zenon DEF Passes, Spares, Counts, Draws, Answer, NextRule
  <2>2. WindowInv'
    BY <1>1, <1>3, <2>1, QuietKeepsWindows DEF windowVars
  <2>3. QED
    BY <1>1, <1>3, <2>2, ConsiderKeepsHandlers, ConsiderKeepsExact, Zenon DEF IInv
<1>4. ASSUME NEW h \in Handlers, UNCHANGED setup, Allow(h) PROVE IInv'
  <2>1. /\ handler[h] = "deciding" /\ Answer(h, "allow") /\ UNCHANGED <<counter, occurrences>>
        /\ UNCHANGED windowVars
    BY <1>4, Zenon DEF Allow, Answer
  <2>2. WindowInv'
    BY <1>1, <1>4, <2>1, QuietKeepsWindows DEF windowVars
  <2>3. counter \in [Ids -> Nat] /\ occurrences \in [Ids -> Nat]
    BY <1>1, Zenon DEF HandlerInv, HandlerTypes
  <2>4. HandlerInv'
    BY <1>1, <1>4, <2>1, <2>3, AnswerKeepsHandlers
  <2>5. ExactInv'
    BY <1>1, <1>4, <2>1, AllowKeepsExact
  <2>6. QED
    BY <2>2, <2>4, <2>5, Zenon DEF IInv
<1>5. ASSUME NEW h \in Handlers, NEW c \in Calls, UNCHANGED setup, Arrive(h, c) PROVE IInv'
  <2>1. UNCHANGED <<windowVars, counter, occurrences, outcome>>
    BY <1>5, Zenon DEF Arrive
  <2>2. WindowInv' /\ ExactInv'
    BY <1>1, <1>5, <2>1, QuietKeepsWindows, QuietKeepsExact DEF windowVars
  <2>3. QED
    BY <1>1, <1>5, <2>2, ArriveKeepsHandlers, Zenon DEF IInv
<1>6. CASE UNCHANGED vars
  <2>1. UNCHANGED <<setup, windowVars, counter, occurrences, handlerVars>>
    BY <1>6, Zenon DEF vars
  <2>2. QED
    BY <1>1, <2>1, QuietKeepsWindows, QuietKeepsHandlers, QuietKeepsExact DEF IInv, windowVars, handlerVars
<1>7. CASE Next
  <2>1. UNCHANGED setup /\ (WindowNext \/ HandlerNext \/ UNCHANGED vars)
    BY <1>7, Zenon DEF Next, Over
  <2>2. CASE WindowNext
    BY <1>2, <2>1, <2>2, Zenon DEF WindowNext
  <2>3. CASE HandlerNext
    BY <1>3, <1>4, <1>5, <2>1, <2>3, Zenon DEF HandlerNext
  <2>4. QED
    BY <1>6, <2>1, <2>2, <2>3, Zenon
<1>8. QED
  BY <1>6, <1>7, Zenon

LEMMA Invariance == Spec => []IInv
<1>1. Init => IInv
  BY InitWindows, InitHandlers, InitExact, Zenon DEF IInv
<1>2. QED
  BY <1>1, StepKeeps, PTL DEF Spec

(* Every rule that fires was aimed at the syscall it fired on: when the     *)
(* supervisor could read the path, the rule's glob names it, and a rule     *)
(* without a glob spares system paths (handleNotification), whatever rules  *)
(* stand around it and however windows and handlers interleave.             *)
THEOREM FaultsAreAimed == Spec => []FaultsHitTheirTarget
<1>1. ASSUME IInv PROVE FaultsHitTheirTarget
  <2> SUFFICES ASSUME NEW h \in Faulted PROVE Aimed(RuleNamed(outcome[h]), req[h])
    BY Zenon DEF FaultsHitTheirTarget, Aimed
  <2>1. setup \in Setups
    BY <1>1, Zenon DEF IInv, WindowInv, WindowTypes
  <2>2. PICK r \in AllRules : r.id = outcome[h] /\ Aimed(r, req[h])
    BY <1>1, Zenon DEF IInv, HandlerInv, Justified
  <2>3. RuleNamed(outcome[h]) \in AllRules /\ RuleNamed(outcome[h]).id = outcome[h]
    BY <2>2, Zenon DEF RuleNamed
  <2>4. RuleNamed(outcome[h]) = r
    BY <2>1, <2>2, <2>3, RulesOfSession, Zenon
  <2>5. QED
    BY <2>2, <2>4, Zenon
<1>2. QED
  BY <1>1, Invariance, PTL

(* A window's faults hit only syscalls that looked their rules up while the *)
(* window was under way or after it was refused halfway, and a window that  *)
(* no other one overlaps has its last rule set installed for as long as it  *)
(* is open (applyFaults, removeFaults, SetDynamicFaultRules).               *)
THEOREM FaultsStayInTheirWindows == Spec => []FaultsFollowWindows
<1>1. ASSUME IInv PROVE FaultsFollowWindows
  <2>1. WindowInv /\ HandlerInv /\ setup \in Setups
    BY <1>1, Zenon DEF IInv, WindowInv, WindowTypes
  <2>2. ASSUME NEW h \in Faulted, NEW w \in WindowsOf(outcome[h])
        PROVE  WindowsOf(outcome[h]) \cap arrival[h] # {}
    <3>1. PICK r \in AllRules : r.id = outcome[h] /\ Due(setup, r, arrival[h])
      BY <2>1, Zenon DEF HandlerInv, Justified
    <3>2. w \in Windows /\ \E q \in WindowRules(w) : q.id = outcome[h]
      BY <2>2, Zenon DEF WindowsOf
    <3>3. r \in WindowRules(w)
      BY <2>1, <3>1, <3>2, RulesOfWindow, RulesOfSession, Zenon
    <3>4. ~FromStatic(setup, r)
      BY <2>1, <3>2, <3>3, RulesOfWindow, Zenon
    <3>5. PICK v \in arrival[h] : r \in WindowRules(v)
      BY <3>1, <3>4, Zenon DEF Due, WindowRules, RulesOf
    <3>6. v \in Windows
      BY <2>1, <2>2 DEF HandlerInv, HandlerTypes, Faulted
    <3>7. v \in WindowsOf(outcome[h])
      BY <3>1, <3>5, <3>6, Zenon DEF WindowsOf
    <3>8. QED
      BY <3>5, <3>7, Zenon
  <2>3. ASSUME NEW w \in Windows, window[w] \in {"open", "reported"}, ~setup.overlap
        PROVE  DynamicRules = RulesOf[w][Len(RulesOf[w])]
    <3>1. w \in UnderWay /\ applied[w] = Len(RulesOf[w])
      BY <2>1, <2>3 DEF UnderWay, WindowInv, Progress
    <3>2. QED
      BY <2>1, <2>3, <3>1, Zenon DEF WindowInv, Undisturbed
  <2>4. QED
    BY <2>2, <2>3, Zenon DEF FaultsFollowWindows
<1>2. QED
  BY <1>1, Invariance, PTL

(* However handlers race for the counters of a rule (ShouldFire,            *)
(* NextProbabilityOccurrence), nth=N fires once, on the Nth matching call,  *)
(* after=N spares exactly N calls, and a rule that the plan leaf pins fires *)
(* on exactly the occurrences its vector says.                              *)
THEOREM RulesFireExactly == Spec => []TriggersAreExact
<1>1. IInv => TriggersAreExact
  BY ExactInvIsExact, Zenon DEF IInv
<1>2. QED
  BY <1>1, Invariance, PTL
=============================================================================
