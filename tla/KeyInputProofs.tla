--------------------------- MODULE KeyInputProofs ---------------------------
(* What KeyInput guarantees for every set of boxes, keys and macros.       *)
EXTENDS KeyInput, WellFoundedInduction, SequenceTheorems, TLAPS

USE DEF boxVars, clickVars, fingers, macroVars

(* The reports of keys are reports.                                        *)
LEMMA ReportsOfKeys == \A key \in Keys : ReportOf[key] \in Reports
BY DEF Reports

(* The next item of a macro that is not a delay is a key.                  *)
LEMMA NextItem ==
  ASSUME NEW items \in Seq(Keys \cup {"delay"}), items # <<>>
  PROVE  /\ Head(items) \in Keys \cup {"delay"}
         /\ Rest(items) \in Seq(Keys \cup {"delay"})
         /\ ~IsDelay(Head(items)) => Head(items) \in Keys
BY DEF Rest, IsDelay

(* Macros are sequences of items.                                          *)
LEMMA MacroItems ==
  ASSUME NEW items \in Macros
  PROVE  items \in Seq(Keys \cup {"delay"}) /\ items # <<>>
<1>1. ClickKeys \cup TouchKeys \cup {"delay"} \subseteq Keys \cup {"delay"}
  BY DEF Keys
<1>2. items \in Seq(ClickKeys \cup TouchKeys \cup {"delay"}) /\ items # <<>>
  BY KeyInputAssumption
<1> QED BY <1>1, <1>2

(* What presses and releases do to the reports.                            *)
LEMMA DownType ==
  ASSUME down \in [Reports -> Keys \cup {"none"}], NEW key \in Keys
  PROVE  /\ AfterPress(key) \in [Reports -> Keys \cup {"none"}]
         /\ AfterRelease(key) \in [Reports -> Keys \cup {"none"}]
         /\ AfterClick(key) = AfterRelease(key)
         /\ \A report \in Reports : AfterPress(key)[report] \in {down[report], key}
         /\ \A report \in Reports : AfterRelease(key)[report] \in {down[report], "none"}
BY ReportsOfKeys DEF AfterPress, AfterRelease, AfterClick

(* AllUp is what a new session starts with.                                *)
LEMMA AllUpType ==
  /\ AllUp \in [Reports -> Keys \cup {"none"}]
  /\ \A report \in Reports : AllUp[report] = "none"
BY DEF AllUp

(* Selections are locked out, onPause stops the macro, and a detection is  *)
(* recorded.                                                               *)
LEMMA MacroStep == MacroOnOneBox /\ [Next]_vars => MacroOnOneBox'
<1> SUFFICES ASSUME MacroOnOneBox, [Next]_vars PROVE MacroOnOneBox'
  OBVIOUS
<1> USE DEF MacroOnOneBox
<1>1. ASSUME NEW box \in Boxes \cup {"none"}, Resume(box) PROVE MacroOnOneBox'
  BY <1>1 DEF Resume
<1>2. CASE Pause
  BY <1>2 DEF Pause, StopMacro
<1>3. ASSUME NEW box \in Boxes, Select(box) PROVE MacroOnOneBox'
  BY <1>3 DEF Select, Unlocked
<1>4. ASSUME NEW box \in Boxes, Detect(box) PROVE MacroOnOneBox'
  BY <1>4, KeyInputAssumption DEF Detect, ConnectFreebox
<1>5. ASSUME NEW items \in Macros, StartMacro(items) PROVE MacroOnOneBox'
  BY <1>5 DEF StartMacro, Unlocked
<1>6. CASE RunMacro
  BY <1>6 DEF RunMacro, StopMacro, Continue
<1>7. ASSUME UNCHANGED <<resumed, active, running, macroVars>> PROVE MacroOnOneBox'
  BY <1>7
<1> QED
  BY <1>1, <1>2, <1>3, <1>4, <1>5, <1>6, <1>7
     DEF Next, Report, Click, Press, Release, Cancel, vars

(* Only a detection moves a macro to another box: MainActivity.java.       *)
THEOREM MacroStaysOnBox == SafeSpec => []MacroOnOneBox
<1>1. Init => MacroOnOneBox
  BY DEF Init, MacroOnOneBox
<1> QED BY <1>1, MacroStep, PTL DEF SafeSpec

(* Types. *)
LEMMA TypeInit == Init => TypeOK
<1> SUFFICES ASSUME Init PROVE TypeOK
  OBVIOUS
<1>1. down \in [Reports -> Keys \cup {"none"}]
  BY AllUpType DEF Init
<1>2. remaining \in Seq(Keys \cup {"delay"}) /\ macro \in Seq(Keys \cup {"delay"})
      /\ typed \in Seq(Keys)
  BY DEF Init
<1> QED BY <1>1, <1>2 DEF Init, TypeOK

(* Types are kept by every step. *)
LEMMA TypeStep == TypeOK /\ MacroOnOneBox /\ [Next]_vars => TypeOK'
<1> SUFFICES ASSUME TypeOK, MacroOnOneBox, [Next]_vars PROVE TypeOK'
  OBVIOUS
<1> USE DEF TypeOK
<1>1. ASSUME NEW box \in Boxes \cup {"none"}, Resume(box) PROVE TypeOK'
  BY <1>1, AllUpType DEF Resume, ConnectFreebox
<1>2. CASE Pause
  <2>1. down' \in [Reports -> Keys \cup {"none"}]
    BY <1>2, AllUpType DEF Pause, ConnectFreebox
  <2>2. remaining' \in Seq(Keys \cup {"delay"}) /\ callbacks' \in Nat
    BY <1>2 DEF Pause, StopMacro, RemainingCallbacks
  <2> QED BY <1>2, <2>1, <2>2 DEF Pause, ConnectFreebox, StopMacro
<1>3. ASSUME NEW box \in Boxes, Select(box) PROVE TypeOK'
  BY <1>3, AllUpType DEF Select, ConnectFreebox
<1>4. ASSUME NEW box \in Boxes, Detect(box) PROVE TypeOK'
  BY <1>4, AllUpType DEF Detect, ConnectFreebox
<1>5. ASSUME NEW connected \in BOOLEAN, Report(connected) PROVE TypeOK'
  BY <1>5 DEF Report
<1>6. ASSUME NEW key \in Keys PROVE Recorded(key) \in Seq(Keys)
  BY <1>6 DEF Recorded
<1>7. ASSUME NEW key \in ClickKeys, Click(key) PROVE TypeOK'
  <2>1. key \in Keys
    BY DEF Keys
  <2> QED BY <1>6, <1>7, <2>1, DownType DEF Click
<1>8. ASSUME NEW key \in HoldKeys, Press(key) PROVE TypeOK'
  <2>1. key \in Keys
    BY DEF Keys, HoldKeys
  <2>2. down' \in [Reports -> Keys \cup {"none"}] /\ typed' \in Seq(Keys)
    BY <1>6, <1>8, <2>1, DownType DEF Press
  <2> QED BY <1>8, <2>2 DEF Press
<1>9. ASSUME NEW key \in HoldKeys, Release(key) PROVE TypeOK'
  <2>1. key \in Keys
    BY DEF Keys, HoldKeys
  <2>2. down' \in [Reports -> Keys \cup {"none"}]
    BY <1>9, <2>1, DownType DEF Release
  <2> QED BY <1>9, <2>2 DEF Release
<1>10. ASSUME NEW key \in TouchKeys, Cancel(key) PROVE TypeOK'
  BY <1>10 DEF Cancel, HoldKeys
<1>11. ASSUME NEW items \in Macros, StartMacro(items) PROVE TypeOK'
  <2>1. items \in Seq(Keys \cup {"delay"}) /\ items # <<>>
    BY MacroItems
  <2>2. running' \in BOOLEAN /\ remaining' \in Seq(Keys \cup {"delay"})
        /\ callbacks' \in Nat
    BY <1>11, <2>1, NextItem DEF StartMacro, Continue
  <2>3. down' \in [Reports -> Keys \cup {"none"}] /\ typed' \in Seq(Keys)
        /\ macroBoxes' \subseteq Boxes
    <3>1. CASE PlayDelay(items) /\ typed' = <<>> /\ macroBoxes' = {}
      BY <3>1 DEF PlayDelay
    <3>2. CASE PlayKey(items) /\ typed' = <<Head(items)>> /\ macroBoxes' = {active}
      <4>1. Head(items) \in Keys
        BY <2>1, <3>2, NextItem DEF PlayKey
      <4>2. down' = AfterClick(Head(items))
        BY <3>2 DEF PlayKey
      <4> HIDE DEF TypeOK
      <4>3. down' \in [Reports -> Keys \cup {"none"}]
        BY <4>1, <4>2, DownType DEF TypeOK
      <4>4. active \in Boxes
        BY <1>11 DEF TypeOK, StartMacro, Unlocked
      <4> QED BY <3>2, <4>1, <4>3, <4>4
    <3> QED BY <1>11, <3>1, <3>2 DEF StartMacro
  <2> QED BY <1>11, <2>1, <2>2, <2>3 DEF StartMacro
<1>12. CASE RunMacro
  <2>1. CASE remaining = <<>> /\ StopMacro /\ UNCHANGED <<down, typed, macroBoxes>>
    BY <1>12, <2>1 DEF RunMacro, StopMacro, RemainingCallbacks
  <2>2. CASE remaining # <<>> /\ Continue(remaining, callbacks - 1)
             /\ PlayDelay(remaining) /\ UNCHANGED <<typed, macroBoxes>>
    BY <1>12, <2>2, NextItem DEF RunMacro, Continue, PlayDelay
  <2>3. CASE /\ remaining # <<>> /\ Continue(remaining, callbacks - 1)
             /\ PlayKey(remaining) /\ typed' = Append(typed, Head(remaining))
             /\ macroBoxes' = macroBoxes \cup {active}
    <3>1. Head(remaining) \in Keys
      BY <2>3, NextItem DEF PlayKey
    <3>2. down' \in [Reports -> Keys \cup {"none"}] /\ typed' \in Seq(Keys)
      BY <2>3, <3>1, DownType DEF PlayKey
    <3>3. active \in Boxes
      BY <1>12 DEF RunMacro, MacroOnOneBox
    <3> QED BY <1>12, <2>3, <3>2, <3>3, NextItem DEF RunMacro, Continue
  <2> QED BY <1>12, <2>1, <2>2, <2>3 DEF RunMacro
<1>13. CASE UNCHANGED vars
  BY <1>13 DEF vars
<1> QED
  BY <1>1, <1>2, <1>3, <1>4, <1>5, <1>7, <1>8, <1>9, <1>10, <1>11, <1>12, <1>13
     DEF Next

(* Types of every variable: MainActivity.java, MultiClicker.java.          *)
THEOREM TypeCorrect == SafeSpec => []TypeOK
BY TypeInit, TypeStep, MacroStaysOnBox, PTL DEF SafeSpec

(* The callback that runs is the one that is posted next, and stop removes *)
(* it.                                                                     *)
LEMMA CallbackStep == TypeOK /\ OneCallback /\ [Next]_vars => OneCallback'
<1> SUFFICES ASSUME TypeOK, OneCallback, [Next]_vars PROVE OneCallback'
  OBVIOUS
<1> USE DEF OneCallback
<1>1. ASSUME NEW items \in Macros, StartMacro(items) PROVE OneCallback'
  BY <1>1 DEF StartMacro, Unlocked, Continue
<1>2. CASE RunMacro
  BY <1>2 DEF RunMacro, Continue, StopMacro, RemainingCallbacks
<1>3. CASE Pause
  BY <1>3 DEF Pause, StopMacro, RemainingCallbacks
<1>4. ASSUME UNCHANGED clickVars PROVE OneCallback'
  BY <1>4
<1> QED
  BY <1>1, <1>2, <1>3, <1>4 DEF Next, Resume, Select, Detect, Report, Click,
     Press, Release, Cancel, vars

(* MultiClicker.run never finds its iterator null: MultiClicker.java.      *)
THEOREM AlwaysOneCallback == SafeSpec => []OneCallback
<1>1. Init => OneCallback
  BY DEF Init, OneCallback
<1> QED BY <1>1, CallbackStep, TypeCorrect, PTL DEF SafeSpec

(* The reports after each kind of call.                                    *)
LEMMA DownStep ==
  ASSUME TypeOK, DownInv, NEW key \in Keys, UNCHANGED active
  PROVE  /\ down' = AfterPress(key) => DownInv'
         /\ down' = AfterRelease(key) => DownInv'
         /\ down' = AfterClick(key) => DownInv'
         /\ down' = down => DownInv'
<1>1. down \in [Reports -> Keys \cup {"none"}]
  BY DEF TypeOK
<1>2. InSession' = InSession
  BY DEF InSession
<1>3. ASSUME down' = AfterPress(key) PROVE DownInv'
  BY <1>1, <1>2, <1>3, KeyInputAssumption, ReportsOfKeys DEF DownInv, AfterPress
<1>4. ASSUME down' = AfterRelease(key) PROVE DownInv'
  BY <1>1, <1>2, <1>4, ReportsOfKeys DEF DownInv, AfterRelease
<1>5. ASSUME down' = down PROVE DownInv'
  BY <1>2, <1>5 DEF DownInv
<1> QED BY <1>3, <1>4, <1>5 DEF AfterClick

(* DownInv and NoStuckKey together are inductive.                         *)
LEMMA StuckStep ==
  TypeOK /\ DownInv /\ NoStuckKey /\ [Next]_vars => DownInv' /\ NoStuckKey'
<1> SUFFICES ASSUME TypeOK, DownInv, NoStuckKey, [Next]_vars
             PROVE  DownInv' /\ NoStuckKey'
  OBVIOUS
<1>1. down \in [Reports -> Keys \cup {"none"}]
  BY DEF TypeOK
<1>2. ASSUME NEW box, ConnectFreebox(box) PROVE DownInv' /\ NoStuckKey'
  BY <1>2, AllUpType DEF ConnectFreebox, DownInv, NoStuckKey
<1>3. ASSUME UNCHANGED <<active, down, fingers>> PROVE DownInv' /\ NoStuckKey'
  BY <1>3 DEF DownInv, NoStuckKey, InSession
<1>4. ASSUME NEW key \in Keys, down' = AfterClick(key), UNCHANGED <<active, fingers>>
      PROVE  DownInv' /\ NoStuckKey'
  BY <1>1, <1>4, DownStep, DownType DEF NoStuckKey
<1>5. ASSUME NEW key \in HoldKeys, Press(key) PROVE DownInv' /\ NoStuckKey'
  <2>1. key \in Keys
    BY DEF Keys, HoldKeys
  <2>2. DownInv'
    BY <1>5, <2>1, DownStep DEF Press
  <2>3. held \cup forgotten \cup {key} = held' \cup forgotten'
    BY <1>5 DEF Press
  <2>4. \A report \in Reports : down'[report] \in {down[report], key}
    BY <1>1, <1>5, <2>1, DownType DEF Press
  <2> QED BY <2>2, <2>3, <2>4 DEF NoStuckKey
<1>6. ASSUME NEW key \in HoldKeys, Release(key) PROVE DownInv' /\ NoStuckKey'
  <2>1. key \in Keys
    BY DEF Keys, HoldKeys
  <2>2. DownInv'
    BY <1>6, <2>1, DownStep DEF Release
  <2>3. CASE Unlocked
    <3>1. down' = AfterRelease(key) /\ held' = held \ {key} /\ forgotten' = forgotten
      BY <1>6, <2>3 DEF Release
    <3>2. \A report \in Reports : down'[report] # key
      <4>1. key # "none"
        BY <2>1, KeyInputAssumption
      <4>2. CASE InSession
        BY <1>1, <2>1, <3>1, <4>1, <4>2, ReportsOfKeys DEF AfterRelease, DownInv
      <4>3. CASE ~InSession
        BY <3>1, <4>1, <4>3, AllUpType DEF AfterRelease, DownInv
      <4> QED BY <4>2, <4>3
    <3>3. \A report \in Reports : down'[report] \in {down[report], "none"}
      BY <1>1, <2>1, <3>1, DownType
    <3> QED BY <2>2, <3>1, <3>2, <3>3 DEF NoStuckKey
  <2>4. CASE ~Unlocked
    BY <1>6, <2>2, <2>4 DEF Release, NoStuckKey
  <2> QED BY <2>3, <2>4
<1>7. ASSUME NEW key \in TouchKeys, Cancel(key) PROVE DownInv' /\ NoStuckKey'
  <2>1. held \cup forgotten \cup {key} = held' \cup forgotten' \cup {key}
        /\ key \in forgotten' /\ down' = down /\ active' = active
    BY <1>7 DEF Cancel
  <2> QED BY <2>1 DEF NoStuckKey, DownInv, InSession
<1>8. ASSUME NEW items \in Macros, StartMacro(items) PROVE DownInv' /\ NoStuckKey'
  <2>1. items \in Seq(Keys \cup {"delay"}) /\ items # <<>>
    BY MacroItems
  <2>2. CASE PlayDelay(items)
    BY <1>3, <1>8, <2>2 DEF StartMacro, PlayDelay
  <2>3. CASE PlayKey(items)
    BY <1>4, <1>8, <2>1, <2>3, NextItem DEF StartMacro, PlayKey
  <2> QED BY <1>8, <2>2, <2>3 DEF StartMacro
<1>9. CASE RunMacro
  <2>1. CASE UNCHANGED down
    BY <1>3, <1>9, <2>1 DEF RunMacro
  <2>2. CASE remaining # <<>> /\ PlayKey(remaining)
    BY <1>4, <1>9, <2>2, NextItem DEF RunMacro, PlayKey, TypeOK
  <2> QED BY <1>9, <2>1, <2>2 DEF RunMacro, PlayDelay
<1>10. ASSUME NEW key \in ClickKeys, Click(key) PROVE DownInv' /\ NoStuckKey'
  <2>1. key \in Keys
    BY DEF Keys
  <2> QED BY <1>4, <1>10, <2>1 DEF Click
<1> QED
  BY <1>2, <1>3, <1>5, <1>6, <1>7, <1>8, <1>9, <1>10
     DEF Next, Resume, Pause, Select, Detect, Report, vars

(* A key down on the active box is one the user holds, or one whose        *)
(* release was swallowed in this session: MainActivity.java, onTouch and   *)
(* dispatchKeyEvent.                                                       *)
THEOREM NeverStuck == SafeSpec => []NoStuckKey
<1>1. Init => DownInv /\ NoStuckKey
  BY AllUpType DEF Init, DownInv, NoStuckKey
<1> QED BY <1>1, StuckStep, TypeCorrect, PTL DEF SafeSpec

-----------------------------------------------------------------------------
(* A set of numbers that is not empty has a least one.                     *)
LEMMA LeastNumber ==
  ASSUME NEW T, T \subseteq Nat, T # {}
  PROVE  \E n \in T : \A m \in T : n <= m
<1>1. PICK n \in T : \A m \in T : ~(<<m, n>> \in OpToRel(<, Nat))
  BY NatLessThanWellFounded, WFMin
<1>2. \A m \in T : ~(m < n)
  BY <1>1 DEF OpToRel
<1> QED BY <1>2

(* One step of the recursion of KeysOf.                                    *)
LastStep(items, last, i) ==
  IF i = 0 THEN <<>> ELSE KeyIn(items[Len(items) - i + 1]) \o last[i - 1]

(* The keys in one item of a macro, if any.                                *)
LEMMA KeyInType ==
  ASSUME NEW item \in Keys \cup {"delay"} PROVE KeyIn(item) \in Seq(Keys)
BY DEF KeyIn

(* The function that KeysOf defines exists.                                *)
LEMMA LastExists ==
  ASSUME NEW items \in Seq(Keys \cup {"delay"})
  PROVE  \E last : /\ last = [i \in 0..Len(items) |-> LastStep(items, last, i)]
                  /\ last \in [0..Len(items) -> Seq(Keys)]
<1> DEFINE N == Len(items)
           Good(n, g) == /\ g = [i \in 0..n |-> LastStep(items, g, i)]
                         /\ g \in [0..n -> Seq(Keys)]
           T == {n \in 0..N : ~ \E g : Good(n, g)}
<1>0. N \in Nat
  OBVIOUS
<1>1. T = {}
  <2> SUFFICES ASSUME T # {} PROVE FALSE
    OBVIOUS
  <2>1. T \subseteq Nat
    BY <1>0
  <2>2. PICK n \in T : \A m \in T : n <= m
    BY <2>1, LeastNumber
  <2>3. n \in 0..N
    OBVIOUS
  <2>4. CASE n = 0
    <3> DEFINE g == [i \in 0..0 |-> <<>>]
    <3>1. g \in [0..0 -> Seq(Keys)]
      OBVIOUS
    <3>2. g = [i \in 0..0 |-> LastStep(items, g, i)]
      BY DEF LastStep
    <3>3. Good(n, g)
      BY <2>4, <3>1, <3>2
    <3> QED BY <2>2, <3>3
  <2>5. CASE n > 0
    <3>1. n - 1 \in 0..N /\ ~(n <= n - 1) /\ N - n + 1 \in 1..N
      BY <1>0, <2>3, <2>5
    <3>2. n - 1 \notin T
      BY <2>2, <3>1
    <3>3. PICK h : Good(n - 1, h)
      BY <3>1, <3>2
    <3> DEFINE end == KeyIn(items[N - n + 1]) \o h[n - 1]
               g == [i \in 0..n |-> IF i = n THEN end ELSE h[i]]
    <3>4. h[n - 1] \in Seq(Keys) /\ KeyIn(items[N - n + 1]) \in Seq(Keys)
      BY <2>3, <2>5, <3>1, <3>3, KeyInType
    <3>5. end \in Seq(Keys)
      BY <3>4, ConcatProperties
    <3>6. \A i \in 0..(n - 1) : h[i] \in Seq(Keys) /\ h[i] = LastStep(items, h, i)
      BY <3>3
    <3> HIDE DEF end
    <3>7. g \in [0..n -> Seq(Keys)]
      BY <2>3, <3>5, <3>6
    <3>8. \A i \in 0..n : g[i] = LastStep(items, g, i)
      <4> SUFFICES ASSUME NEW i \in 0..n PROVE g[i] = LastStep(items, g, i)
        OBVIOUS
      <4>1. CASE i = n
        <5>1. g[n - 1] = h[n - 1] /\ g[i] = end /\ i # 0
          BY <2>3, <2>5, <4>1
        <5> HIDE DEF g
        <5> QED BY <4>1, <5>1 DEF LastStep, end
      <4>2. CASE i # n
        <5>1. i \in 0..(n - 1) /\ g[i] = h[i]
          BY <2>3, <4>2
        <5>2. i # 0 => g[i - 1] = h[i - 1]
          BY <2>3, <4>2
        <5> HIDE DEF g
        <5> QED BY <3>6, <5>1, <5>2 DEF LastStep
      <4> QED BY <4>1, <4>2
    <3>9. g = [i \in 0..n |-> LastStep(items, g, i)]
      BY <3>8
    <3> HIDE DEF g
    <3>10. Good(n, g)
      BY <3>7, <3>9
    <3> QED BY <2>2, <3>10
  <2> QED BY <2>3, <2>4, <2>5
<1>2. N \in 0..N
  BY <1>0
<1> HIDE DEF Good
<1>3. \E g : Good(N, g)
  BY <1>1, <1>2
<1> QED BY <1>3 DEF Good

(* The keys of a macro are those of its first item and then those of the   *)
(* rest; none are left at its end.                                         *)
LEMMA KeysOfIs ==
  ASSUME NEW items \in Seq(Keys \cup {"delay"})
  PROVE  /\ KeysOf(items) \in Seq(Keys)
         /\ items = <<>> => KeysOf(items) = <<>>
         /\ items # <<>> => KeysOf(items) = KeyIn(Head(items)) \o KeysOf(Tail(items))
<1> DEFINE Last(row) == CHOOSE last : last = [i \in 0..Len(row) |-> LastStep(row, last, i)]
<1>1. ASSUME NEW row \in Seq(Keys \cup {"delay"})
      PROVE  /\ Len(row) \in Nat
             /\ KeysOf(row) = Last(row)[Len(row)]
             /\ \A i \in 0..Len(row) : Last(row)[i] = LastStep(row, Last(row), i)
  <2>1. Last(row) = [i \in 0..Len(row) |-> LastStep(row, Last(row), i)]
    BY LastExists
  <2>2. KeysOf(row) = Last(row)[Len(row)]
    BY DEF KeysOf, LastStep
  <2> DEFINE last == Last(row)
  <2>3. last = [i \in 0..Len(row) |-> LastStep(row, last, i)] /\ KeysOf(row) = last[Len(row)]
    BY <2>1, <2>2
  <2>4. Len(row) \in Nat
    OBVIOUS
  <2> HIDE DEF Last, last
  <2>5. \A i \in 0..Len(row) : last[i] = LastStep(row, last, i)
    BY <2>3
  <2> QED BY <2>3, <2>4, <2>5 DEF last
<1> HIDE DEF Last
<1>2. CASE items = <<>>
  <2>1. Len(items) = 0 /\ 0 \in 0..Len(items)
    BY <1>2
  <2>2. KeysOf(items) = LastStep(items, Last(items), 0)
    BY <1>1, <2>1
  <2>3. KeysOf(items) = <<>>
    BY <2>2 DEF LastStep
  <2>4. KeysOf(items) \in Seq(Keys)
    BY <2>3
  <2> QED BY <1>2, <2>3, <2>4
<1>3. CASE items # <<>>
  <2> DEFINE q == Tail(items)
             N == Len(items)
             one == Last(items)
             other == Last(q)
             T == {i \in 0..N - 1 : ~(one[i] = other[i] /\ other[i] \in Seq(Keys))}
  <2>1. /\ q \in Seq(Keys \cup {"delay"}) /\ N \in Nat \ {0} /\ Len(q) = N - 1
        /\ \A i \in 1..N - 1 : q[i] = items[i + 1]
        /\ Head(items) = items[1] /\ Head(items) \in Keys \cup {"delay"}
    BY <1>3
  <2>2. /\ \A i \in 0..N : one[i] = LastStep(items, one, i)
        /\ \A i \in 0..N - 1 : other[i] = LastStep(q, other, i)
        /\ KeysOf(items) = one[N] /\ KeysOf(q) = other[N - 1]
    BY <1>1, <2>1
  <2> HIDE DEF q, one, other
  <2>3. T = {}
    <3> SUFFICES ASSUME T # {} PROVE FALSE
      OBVIOUS
    <3>1. T \subseteq Nat
      BY <2>1
    <3>2. PICK n \in T : \A m \in T : n <= m
      BY <3>1, LeastNumber
    <3>3. n \in 0..N - 1 /\ n \in 0..N
      BY <2>1
    <3>4. CASE n = 0
      <4>1. one[n] = <<>> /\ other[n] = <<>>
        BY <2>2, <3>3, <3>4 DEF LastStep
      <4>2. one[n] = other[n] /\ other[n] \in Seq(Keys)
        BY <4>1
      <4> QED BY <4>2
    <3>5. CASE n > 0
      <4>1. n - 1 \in 0..N - 1 /\ ~(n <= n - 1) /\ (N - 1) - n + 1 \in 1..N - 1
            /\ ((N - 1) - n + 1) + 1 = N - n + 1
        BY <2>1, <3>3, <3>5
      <4>2. n - 1 \notin T
        BY <3>2, <4>1
      <4>3. one[n - 1] = other[n - 1] /\ other[n - 1] \in Seq(Keys)
        BY <4>1, <4>2
      <4>4. q[(N - 1) - n + 1] = items[N - n + 1] /\ q[(N - 1) - n + 1] \in Keys \cup {"delay"}
        <5> DEFINE k == (N - 1) - n + 1
        <5>1. k \in 1..N - 1 /\ k \in 1..Len(q) /\ k + 1 = N - n + 1
          BY <2>1, <4>1
        <5> HIDE DEF k
        <5>2. q[k] = items[k + 1] /\ q[k] \in Keys \cup {"delay"}
          BY <2>1, <5>1
        <5> QED BY <5>1, <5>2 DEF k
      <4>5. one[n] = KeyIn(items[N - n + 1]) \o one[n - 1]
        <5>1. one[n] = LastStep(items, one, n) /\ n # 0
          BY <2>2, <3>3, <3>5
        <5> QED BY <5>1 DEF LastStep
      <4>6. other[n] = KeyIn(q[(N - 1) - n + 1]) \o other[n - 1]
        <5>1. other[n] = LastStep(q, other, n) /\ n # 0 /\ Len(q) = N - 1
          BY <2>1, <2>2, <3>3, <3>5
        <5> QED BY <5>1 DEF LastStep
      <4>7. KeyIn(items[N - n + 1]) \in Seq(Keys)
        BY <4>4, KeyInType
      <4>8. one[n] = other[n] /\ other[n] \in Seq(Keys)
        BY <4>3, <4>4, <4>5, <4>6, <4>7, ConcatProperties
      <4> QED BY <3>2, <4>8
    <3> QED BY <3>3, <3>4, <3>5
  <2>4. one[N - 1] = other[N - 1] /\ other[N - 1] \in Seq(Keys)
    <3>1. N - 1 \in 0..N - 1
      BY <2>1
    <3> QED BY <2>3, <3>1
  <2>5. one[N] = KeyIn(items[1]) \o one[N - 1]
    <3>1. N \in 0..N /\ N # 0 /\ N - N + 1 = 1
      BY <2>1
    <3> QED BY <2>2, <3>1 DEF LastStep
  <2>6. KeyIn(Head(items)) \in Seq(Keys)
    BY <2>1, KeyInType
  <2>7. KeysOf(items) = KeyIn(Head(items)) \o KeysOf(q)
    BY <2>1, <2>2, <2>4, <2>5
  <2>8. KeysOf(items) \in Seq(Keys)
    BY <2>2, <2>4, <2>6, <2>7, ConcatProperties
  <2> QED BY <1>3, <2>7, <2>8 DEF q
<1> QED BY <1>2, <1>3

(* Input is locked while a macro is played, so that the keys sent are its. *)
LEMMA MacroKeys ==
  TypeOK /\ MacroUninterrupted /\ [Next]_vars => MacroUninterrupted'
<1> SUFFICES ASSUME TypeOK, MacroUninterrupted, [Next]_vars PROVE MacroUninterrupted'
  OBVIOUS
<1>1. ASSUME NEW items \in Macros, StartMacro(items) PROVE MacroUninterrupted'
  <2> DEFINE h == Head(items)
             rest == KeysOf(Tail(items))
  <2>1. items \in Seq(Keys \cup {"delay"}) /\ items # <<>>
    BY MacroItems
  <2>2. macro' = items /\ remaining' = Tail(items)
    BY <1>1 DEF StartMacro, Continue, Rest
  <2>3. KeysOf(items) = KeyIn(h) \o rest /\ rest \in Seq(Keys)
    BY <2>1, KeysOfIs, HeadTailProperties
  <2>4. CASE h = "delay"
    <3>1. typed' = <<>> /\ KeyIn(h) = <<>>
      BY <1>1, <2>4 DEF StartMacro, PlayKey, IsDelay, KeyIn
    <3> QED BY <2>2, <2>3, <3>1 DEF MacroUninterrupted
  <2>5. CASE h # "delay"
    <3>1. typed' = <<h>> /\ KeyIn(h) = <<h>>
      BY <1>1, <2>5 DEF StartMacro, PlayDelay, IsDelay, KeyIn
    <3> QED BY <2>2, <2>3, <3>1 DEF MacroUninterrupted
  <2> QED BY <2>4, <2>5
<1>2. CASE RunMacro
  <2> DEFINE h == Head(remaining)
             rest == KeysOf(Tail(remaining))
  <2>1. CASE remaining = <<>>
    BY <1>2, <2>1 DEF RunMacro, StopMacro, MacroUninterrupted
  <2>2. CASE remaining # <<>>
    <3>1. macro' = macro /\ remaining' = Tail(remaining) /\ running
      BY <1>2, <2>2 DEF RunMacro, Continue, Rest
    <3>2. KeysOf(macro) = typed \o KeysOf(remaining)
      BY <3>1 DEF MacroUninterrupted
    <3>3. /\ KeysOf(remaining) = KeyIn(h) \o rest /\ rest \in Seq(Keys)
          /\ typed \in Seq(Keys) /\ h \in Keys \cup {"delay"}
      BY <2>2, KeysOfIs, HeadTailProperties DEF TypeOK
    <3>4. CASE h = "delay"
      <4>1. typed' = typed /\ KeyIn(h) = <<>>
        BY <1>2, <2>2, <3>4 DEF RunMacro, PlayKey, IsDelay, KeyIn
      <4>2. <<>> \o rest = rest
        BY <3>3
      <4> QED BY <3>1, <3>2, <3>3, <4>1, <4>2 DEF MacroUninterrupted
    <3>5. CASE h # "delay"
      <4>1. typed' = Append(typed, h) /\ KeyIn(h) = <<h>> /\ h \in Keys
        BY <1>2, <2>2, <3>3, <3>5 DEF RunMacro, PlayDelay, IsDelay, KeyIn
      <4> HIDE DEF h, rest
      <4>2. <<h>> \in Seq(Keys)
        BY <4>1
      <4>3. typed \o (<<h>> \o rest) = (typed \o <<h>>) \o rest
        BY <3>3, <4>2, ConcatAssociative
      <4>4. typed \o <<h>> = Append(typed, h)
        BY <3>3, <4>1, AppendIsConcat
      <4>5. KeysOf(macro) = typed' \o rest
        BY <3>2, <3>3, <4>1, <4>3, <4>4
      <4> QED BY <3>1, <4>5 DEF MacroUninterrupted, rest
    <3> QED BY <3>4, <3>5
  <2> QED BY <2>1, <2>2
<1>3. CASE Pause
  BY <1>3 DEF Pause, StopMacro, MacroUninterrupted
<1>4. ASSUME NEW key \in ClickKeys, Click(key) PROVE MacroUninterrupted'
  BY <1>4 DEF Click, Unlocked, MacroUninterrupted
<1>5. ASSUME NEW key \in HoldKeys, Press(key) PROVE MacroUninterrupted'
  BY <1>5 DEF Press, Unlocked, MacroUninterrupted
<1>6. ASSUME UNCHANGED <<running, remaining, macro, typed>> PROVE MacroUninterrupted'
  BY <1>6 DEF MacroUninterrupted
<1> QED
  BY <1>1, <1>2, <1>3, <1>4, <1>5, <1>6 DEF Next, Resume, Select, Detect,
     Report, Release, Cancel, vars

(* While a macro is played nothing else is sent, and it is sent in its     *)
(* order: MultiClicker.java and the locks on mMultiClicker.stopped ().     *)
THEOREM NeverInterrupted == SafeSpec => []MacroUninterrupted
<1>1. Init => MacroUninterrupted
  BY DEF Init, MacroUninterrupted
<1> QED BY <1>1, MacroKeys, TypeCorrect, PTL DEF SafeSpec

-----------------------------------------------------------------------------
(* Each run of the posted callback ends the macro or takes an item of it;  *)
(* nothing else that happens meanwhile adds to what is left, starts it     *)
(* again or leaves it without its callback: only onPause stops it.         *)
MacroGoesOn ==
  [][running =>
       \/ ~running' /\ callbacks' = 0
       \/ RunMacro /\ running' /\ Len(remaining') < Len(remaining) /\ callbacks' > 0
       \/ ~RunMacro /\ UNCHANGED <<clickVars, macro>> /\ callbacks > 0]_vars

(* What one step does to the macro that is being played. *)
LEMMA MacroGoes ==
  ASSUME TypeOK, OneCallback, Next, running
  PROVE  \/ ~running' /\ callbacks' = 0
         \/ RunMacro /\ running' /\ Len(remaining') < Len(remaining) /\ callbacks' > 0
         \/ ~RunMacro /\ UNCHANGED <<clickVars, macro>> /\ callbacks > 0
<1>0. callbacks = 1
  BY DEF OneCallback
<1>1. CASE RunMacro
  <2>1. CASE remaining = <<>>
    BY <1>1, <2>1 DEF RunMacro, StopMacro, RemainingCallbacks
  <2>2. CASE remaining # <<>>
    <3>1. running' = TRUE /\ remaining' = Tail(remaining) /\ callbacks' = (callbacks - 1) + 1
      BY <1>1, <2>2 DEF RunMacro, Continue, Rest
    <3>2. remaining \in Seq(Keys \cup {"delay"})
      BY DEF TypeOK
    <3>3. Len(Tail(remaining)) < Len(remaining)
      BY <2>2, <3>2
    <3> QED BY <1>0, <1>1, <3>1, <3>3
  <2> QED BY <2>1, <2>2
<1>2. CASE Pause
  BY <1>2 DEF Pause, StopMacro, RemainingCallbacks
<1>3. ~(\E items \in Macros : StartMacro(items))
  BY DEF StartMacro, Unlocked
<1>4. ASSUME ~RunMacro, UNCHANGED <<clickVars, macro>>
      PROVE  ~RunMacro /\ UNCHANGED <<clickVars, macro>> /\ callbacks > 0
  BY <1>0, <1>4
<1>5. (\E box \in Boxes \cup {"none"} : Resume(box))
      \/ (\E box \in Boxes : Select(box) \/ Detect(box))
      \/ (\E connected \in BOOLEAN : Report(connected))
        => UNCHANGED <<clickVars, macro>>
  BY DEF Resume, Select, Detect, Report
<1>6. (\E key \in ClickKeys : Click(key))
      \/ (\E key \in HoldKeys : Press(key) \/ Release(key))
      \/ (\E key \in TouchKeys : Cancel(key))
        => UNCHANGED <<clickVars, macro>>
  BY DEF Click, Press, Release, Cancel
<1> QED BY <1>1, <1>2, <1>3, <1>4, <1>5, <1>6 DEF Next

(* A macro comes to its end after as many callbacks as it has items left,  *)
(* and one, whatever the user does meanwhile: MultiClicker.run posts       *)
(* itself until the iterator is at its end, and only start, which input    *)
(* locks out, sets it.                                                     *)
THEOREM MacroAlwaysGoesOn == SafeSpec => MacroGoesOn
<1>1. TypeOK /\ OneCallback /\ [Next]_vars
        => [running =>
              \/ ~running' /\ callbacks' = 0
              \/ RunMacro /\ running' /\ Len(remaining') < Len(remaining) /\ callbacks' > 0
              \/ ~RunMacro /\ UNCHANGED <<clickVars, macro>> /\ callbacks > 0]_vars
  BY MacroGoes
<1> QED BY <1>1, TypeCorrect, AlwaysOneCallback, PTL DEF SafeSpec, MacroGoesOn

=============================================================================
