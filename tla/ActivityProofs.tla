--------------------------- MODULE ActivityProofs ---------------------------
(* What MainActivity and Home keep to, for any boxes, colors, texts and    *)
(* bounds.                                                                 *)
EXTENDS Activity, WellFoundedInduction, TLAPS

USE DEF homeVars, sessionVars, ghostVars

AllColors == {Colors[i] : i \in DOMAIN Colors}

-----------------------------------------------------------------------------
(* A set of numbers that is not empty has a least one.                     *)
LEMMA LeastNumber ==
  ASSUME NEW T, T \subseteq Nat, T # {}
  PROVE  \E n \in T : \A m \in T : n <= m
<1>1. PICK n \in T : \A m \in T : ~(<<m, n>> \in OpToRel(<, Nat))
  BY NatLessThanWellFounded, WFMin
<1>2. \A m \in T : ~(m < n)
  BY <1>1 DEF OpToRel
<1> QED BY <1>2

(* The first of some elements of a list is one of them.                    *)
LEMMA LeastIs ==
  ASSUME NEW n \in Nat, NEW S, S \subseteq 1..n, S # {}
  PROVE  /\ Least(S) \in S /\ Least(S) \in 1..n
         /\ \A i \in S : Least(S) <= i
<1>0. S \subseteq Nat
  OBVIOUS
<1>1. \E i \in S : \A j \in S : i <= j
  BY <1>0, LeastNumber
<1> QED BY <1>1 DEF Least

(* The last of some elements of a list is one of them.                     *)
LEMMA GreatestIs ==
  ASSUME NEW n \in Nat, NEW S, S \subseteq 1..n, S # {}
  PROVE  /\ Greatest(S) \in S /\ Greatest(S) \in 1..n
         /\ \A i \in S : i <= Greatest(S)
<1> DEFINE T == {n - i : i \in S}
<1>1. T \subseteq Nat /\ T # {}
  OBVIOUS
<1>2. PICK t \in T : \A m \in T : t <= m
  BY <1>1, LeastNumber
<1>3. PICK i \in S : t = n - i
  OBVIOUS
<1>4. \A j \in S : n - i <= n - j
  BY <1>2, <1>3
<1>5. \A j \in S : j <= i
  BY <1>4
<1>6. \E k \in S : \A j \in S : j <= k
  BY <1>5
<1> QED BY <1>6 DEF Greatest

-----------------------------------------------------------------------------
(* One step of the recursion of Statuses.                                  *)
KeptStep(messages, kept, i) ==
  IF i = 0 THEN <<>>
  ELSE IF IsStatus(messages[i]) THEN Append(kept[i - 1], messages[i])
  ELSE kept[i - 1]


(* The function that Statuses defines exists.                              *)
LEMMA KeptExists ==
  ASSUME NEW M, NEW messages \in Seq(M)
  PROVE  \E kept : kept = [i \in 0..Len(messages) |-> KeptStep(messages, kept, i)]
<1> DEFINE N == Len(messages)
           Good(n, g) == /\ g \in [0..n -> Seq(M)]
                         /\ g = [i \in 0..n |-> KeptStep(messages, g, i)]
           T == {n \in 0..N : ~ \E g : Good(n, g)}
<1>0. N \in Nat
  OBVIOUS
<1>1. T = {}
  <2> SUFFICES ASSUME T # {} PROVE FALSE
    OBVIOUS
  <2>1. T \subseteq Nat
    BY <1>0
  <2>2. PICK n \in T : \A m \in T : n <= m
    BY <2>1, LeastNumber
  <2>3. n \in 0..N
    OBVIOUS
  <2>4. CASE n = 0
    <3> DEFINE g == [i \in 0..0 |-> <<>>]
    <3>1. g \in [0..0 -> Seq(M)]
      OBVIOUS
    <3>2. g = [i \in 0..0 |-> KeptStep(messages, g, i)]
      BY DEF KeptStep
    <3>3. Good(n, g)
      BY <2>4, <3>1, <3>2
    <3> QED BY <2>2, <3>3
  <2>5. CASE n > 0
    <3>1. n - 1 \in 0..N /\ ~(n <= n - 1)
      BY <1>0, <2>3, <2>5
    <3>2. n - 1 \notin T
      BY <2>2, <3>1
    <3>3. PICK h : Good(n - 1, h)
      BY <3>1, <3>2
    <3> DEFINE last == IF IsStatus(messages[n]) THEN Append(h[n - 1], messages[n])
                       ELSE h[n - 1]
               g == [i \in 0..n |-> IF i = n THEN last ELSE h[i]]
    <3>4. h[n - 1] \in Seq(M) /\ messages[n] \in M
      BY <1>0, <2>3, <2>5, <3>3
    <3>5. last \in Seq(M)
      BY <3>4
    <3>6. \A i \in 0..(n - 1) : h[i] \in Seq(M) /\ h[i] = KeptStep(messages, h, i)
      BY <3>3
    <3>7. g \in [0..n -> Seq(M)]
      BY <2>3, <3>5, <3>6
    <3>8. \A i \in 0..n : g[i] = KeptStep(messages, g, i)
      <4> SUFFICES ASSUME NEW i \in 0..n PROVE g[i] = KeptStep(messages, g, i)
        OBVIOUS
      <4>1. CASE i = n
        <5>1. g[n - 1] = h[n - 1] /\ g[i] = last /\ i # 0
          BY <2>3, <2>5, <4>1
        <5> QED BY <4>1, <5>1 DEF KeptStep
      <4>2. CASE i # n
        <5>1. i \in 0..(n - 1) /\ g[i] = h[i]
          BY <2>3, <4>2
        <5>2. i # 0 => g[i - 1] = h[i - 1]
          BY <2>3, <4>2
        <5> QED BY <3>6, <5>1, <5>2 DEF KeptStep
      <4> QED BY <4>1, <4>2
    <3>9. g = [i \in 0..n |-> KeptStep(messages, g, i)]
      BY <3>8
    <3> HIDE DEF g
    <3>10. Good(n, g)
      BY <3>7, <3>9
    <3> QED BY <2>2, <3>10
  <2> QED BY <2>3, <2>4, <2>5
<1>2. N \in 0..N
  BY <1>0
<1> HIDE DEF Good
<1>3. \E g : Good(N, g)
  BY <1>1, <1>2
<1> QED BY <1>3 DEF Good

(* The last text among messages, or before them, is not "connected".       *)
NotConnected(messages, connected) ==
  \/ /\ ~connected
     /\ \A i \in DOMAIN messages : ~IsStatus(messages[i])
  \/ \E j \in DOMAIN messages :
       /\ IsStatus(messages[j])
       /\ messages[j].value # "connected"
       /\ \A i \in DOMAIN messages : i > j => ~IsStatus(messages[i])

(* Removing the detections leaves the statuses, and the last one last.     *)
LEMMA StatusesKept ==
  ASSUME NEW M, NEW messages \in Seq(M)
  PROVE  /\ Statuses(messages) \in Seq(M)
         /\ \A k \in DOMAIN Statuses(messages) : IsStatus(Statuses(messages)[k])
         /\ \A connected : NotConnected(messages, connected)
                            => NotConnected(Statuses(messages), connected)
<1> DEFINE N == Len(messages)
           kept == CHOOSE kept : kept = [i \in 0..N |-> KeptStep(messages, kept, i)]
<1>0. N \in Nat /\ DOMAIN messages = 1..N
  OBVIOUS
<1>1. kept = [i \in 0..N |-> KeptStep(messages, kept, i)]
  BY KeptExists
<1>2. Statuses(messages) = kept[N]
  BY DEF Statuses, KeptStep
<1> HIDE DEF kept
<1>3. \A i \in 0..N : kept[i] = KeptStep(messages, kept, i)
  BY <1>1
(* Nothing kept and no status so far, or the last status so far kept last. *)
<1> DEFINE Last(i) ==
      \/ kept[i] = <<>> /\ \A j \in 1..i : ~IsStatus(messages[j])
      \/ \E j \in 1..i :
           /\ IsStatus(messages[j]) /\ Len(kept[i]) > 0
           /\ kept[i][Len(kept[i])] = messages[j]
           /\ \A k \in 1..i : k > j => ~IsStatus(messages[k])
    Good(i) == /\ kept[i] \in Seq(M)
               /\ \A k \in 1..Len(kept[i]) : IsStatus(kept[i][k])
               /\ Last(i)
    T == {i \in 0..N : ~Good(i)}
<1>4. T = {}
  <2> SUFFICES ASSUME T # {} PROVE FALSE
    OBVIOUS
  <2>1. T \subseteq Nat
    BY <1>0
  <2>2. PICK n \in T : \A m \in T : n <= m
    BY <2>1, LeastNumber
  <2>3. n \in 0..N
    OBVIOUS
  <2>4. CASE n = 0
    <3>1. kept[n] = <<>>
      BY <1>3, <2>3, <2>4 DEF KeptStep
    <3>2. Good(n)
      BY <2>4, <3>1
    <3> QED BY <2>2, <3>2
  <2>5. CASE n > 0
    <3>1. n - 1 \in 0..N /\ ~(n <= n - 1) /\ n \in 1..N
      BY <1>0, <2>3, <2>5
    <3>2. n - 1 \notin T
      BY <2>2, <3>1
    <3>3. Good(n - 1)
      BY <3>1, <3>2
    <3>4. messages[n] \in M
      BY <1>0, <3>1
    <3>5. CASE IsStatus(messages[n])
      <4>1. kept[n] = Append(kept[n - 1], messages[n])
        <5>1. n # 0 /\ kept[n] = KeptStep(messages, kept, n)
          BY <1>3, <2>3, <2>5
        <5> QED BY <3>5, <5>1 DEF KeptStep
      <4>2. /\ kept[n] \in Seq(M)
            /\ Len(kept[n]) = Len(kept[n - 1]) + 1
            /\ kept[n][Len(kept[n])] = messages[n]
            /\ \A k \in 1..Len(kept[n - 1]) : kept[n][k] = kept[n - 1][k]
            /\ Len(kept[n - 1]) \in Nat
        BY <3>3, <3>4, <4>1
      <4>3. \A k \in 1..Len(kept[n]) : IsStatus(kept[n][k])
        <5> SUFFICES ASSUME NEW k \in 1..Len(kept[n]) PROVE IsStatus(kept[n][k])
          OBVIOUS
        <5>1. k \in 1..Len(kept[n - 1]) \/ k = Len(kept[n])
          BY <4>2
        <5> QED BY <3>3, <3>5, <4>2, <5>1
      <4>4. Len(kept[n]) > 0
        BY <4>2
      <4>5. n \in 1..n /\ \A k \in 1..n : ~(k > n)
        BY <3>1
      <4>6. Last(n)
        BY <3>5, <4>2, <4>4, <4>5
      <4>7. Good(n)
        BY <4>2, <4>3, <4>6
      <4> QED BY <2>2, <4>7
    <3>6. CASE ~IsStatus(messages[n])
      <4>1. kept[n] = kept[n - 1]
        BY <1>3, <2>3, <2>5, <3>6 DEF KeptStep
      <4>2. \A k \in 1..n : k \in 1..(n - 1) \/ k = n
        BY <3>1
      <4>3. CASE kept[n - 1] = <<>> /\ \A j \in 1..(n - 1) : ~IsStatus(messages[j])
        <5>1. Last(n)
          BY <3>6, <4>1, <4>2, <4>3
        <5> QED BY <2>2, <3>3, <4>1, <5>1
      <4>4. ASSUME NEW j \in 1..(n - 1), IsStatus(messages[j]),
                   Len(kept[n - 1]) > 0,
                   kept[n - 1][Len(kept[n - 1])] = messages[j],
                   \A k \in 1..(n - 1) : k > j => ~IsStatus(messages[k])
            PROVE  FALSE
        <5>1. j \in 1..n
          BY <3>1
        <5>2. \A k \in 1..n : k > j => ~IsStatus(messages[k])
          BY <3>6, <4>2, <4>4
        <5>3. Last(n)
          BY <4>1, <4>4, <5>1, <5>2
        <5> QED BY <2>2, <3>3, <4>1, <5>3
      <4> QED BY <3>3, <4>3, <4>4
    <3> QED BY <3>5, <3>6
  <2> QED BY <2>3, <2>4, <2>5
<1>5. Good(N)
  BY <1>0, <1>4
<1>6. ASSUME NEW connected, NotConnected(messages, connected)
      PROVE  NotConnected(kept[N], connected)
  <2>1. CASE kept[N] = <<>> /\ \A j \in 1..N : ~IsStatus(messages[j])
    <3>1. ~connected
      BY <1>0, <1>6, <2>1 DEF NotConnected
    <3> QED BY <2>1, <3>1 DEF NotConnected
  <2>2. ASSUME NEW j \in 1..N, IsStatus(messages[j]), Len(kept[N]) > 0,
               kept[N][Len(kept[N])] = messages[j],
               \A k \in 1..N : k > j => ~IsStatus(messages[k])
        PROVE  NotConnected(kept[N], connected)
    <3>1. PICK i \in 1..N : /\ IsStatus(messages[i]) /\ messages[i].value # "connected"
                            /\ \A k \in 1..N : k > i => ~IsStatus(messages[k])
      BY <1>0, <1>6, <2>2 DEF NotConnected
    <3>2. i = j
      <4>1. ~(i > j) /\ ~(j > i)
        BY <2>2, <3>1
      <4> QED BY <4>1
    <3>3. /\ Len(kept[N]) \in DOMAIN kept[N]
          /\ \A k \in DOMAIN kept[N] : ~(k > Len(kept[N]))
      BY <1>5, <2>2
    <3> QED BY <2>2, <3>1, <3>2, <3>3 DEF NotConnected
  <2> QED BY <1>5, <2>1, <2>2
<1>7. DOMAIN kept[N] = 1..Len(kept[N])
  BY <1>5
<1> QED BY <1>2, <1>5, <1>6, <1>7

-----------------------------------------------------------------------------
(* What a list of boxes holds. *)
LEMMA BoxIs ==
  ASSUME NEW boxes \in Seq(Boxes), NEW i \in DOMAIN boxes
  PROVE  /\ boxes[i] \in Boxes
         /\ boxes[i].endpoint \in Endpoints /\ boxes[i].endpoint # "none"
         /\ boxes[i].reachable \in BOOLEAN /\ boxes[i].focus \in BOOLEAN
         /\ boxes[i].color \in AllColors
<1>1. boxes[i] \in Boxes
  OBVIOUS
<1>2. "none" \notin Endpoints
  BY ActivityAssumption
<1> QED BY <1>1, <1>2 DEF Boxes, AllColors

(* Lists of the same length that agree on the endpoints. *)
SameEndpoints(one, other) ==
  /\ DOMAIN one = DOMAIN other /\ Len(one) = Len(other)
  /\ \A i \in DOMAIN one : one[i].endpoint = other[i].endpoint

(* Setting a focus changes nothing but the focus of the boxes it is for.   *)
LEMMA SetFocusIs ==
  ASSUME NEW boxes \in Seq(Boxes), NEW endpoint, NEW focus \in BOOLEAN
  PROVE  /\ SetFocus(boxes, endpoint, focus) \in Seq(Boxes)
         /\ SameEndpoints(SetFocus(boxes, endpoint, focus), boxes)
         /\ \A i \in DOMAIN boxes :
              /\ SetFocus(boxes, endpoint, focus)[i].color = boxes[i].color
              /\ boxes[i].endpoint = endpoint
                   => SetFocus(boxes, endpoint, focus)[i].focus = focus
              /\ boxes[i].endpoint # endpoint
                   => SetFocus(boxes, endpoint, focus)[i].focus = boxes[i].focus
<1> DEFINE set == SetFocus(boxes, endpoint, focus)
<1>1. ASSUME NEW i \in DOMAIN boxes
      PROVE  /\ set[i] \in Boxes
             /\ set[i].endpoint = boxes[i].endpoint
             /\ set[i].color = boxes[i].color
             /\ boxes[i].endpoint = endpoint => set[i].focus = focus
             /\ boxes[i].endpoint # endpoint => set[i].focus = boxes[i].focus
  <2>1. boxes[i] \in Boxes
    BY BoxIs
  <2>2. set[i] = IF boxes[i].endpoint = endpoint
                   THEN [boxes[i] EXCEPT !.focus = focus] ELSE boxes[i]
    BY DEF SetFocus
  <2>3. CASE boxes[i].endpoint = endpoint
    BY <2>1, <2>2, <2>3 DEF Boxes
  <2>4. CASE boxes[i].endpoint # endpoint
    BY <2>1, <2>2, <2>4
  <2> QED BY <2>3, <2>4
<1>2. DOMAIN set = 1..Len(boxes) /\ DOMAIN boxes = 1..Len(boxes) /\ Len(boxes) \in Nat
  BY DEF SetFocus
<1>3. \A i \in 1..Len(boxes) : set[i] \in Boxes
  BY <1>1, <1>2
<1>4. set = [i \in 1..Len(boxes) |-> set[i]]
  BY <1>2 DEF SetFocus
<1> HIDE DEF set
<1>5. set \in Seq(Boxes) /\ Len(set) = Len(boxes)
  BY <1>2, <1>3, <1>4
<1>6. SameEndpoints(set, boxes)
  BY <1>1, <1>2, <1>5 DEF SameEndpoints
<1> QED BY <1>1, <1>5, <1>6 DEF set

(* Home.save and the recovery of what it saved keep all but reachable.     *)
LEMMA SaveIs ==
  ASSUME NEW boxes \in Seq(Boxes)
  PROVE  /\ Save(boxes) \in Seq(Pool)
         /\ SameEndpoints(Save(boxes), boxes)
         /\ \A i \in DOMAIN boxes : /\ Save(boxes)[i].color = boxes[i].color
                                    /\ Save(boxes)[i].focus = boxes[i].focus
<1>1. ASSUME NEW i \in DOMAIN boxes
      PROVE  /\ Save(boxes)[i] \in Pool
             /\ Save(boxes)[i].endpoint = boxes[i].endpoint
             /\ Save(boxes)[i].color = boxes[i].color
             /\ Save(boxes)[i].focus = boxes[i].focus
  <2>1. Save(boxes)[i] = [endpoint |-> boxes[i].endpoint, focus |-> boxes[i].focus,
                          color |-> boxes[i].color]
    BY DEF Save
  <2> QED BY <2>1, BoxIs DEF Pool, AllColors
<1>2. DOMAIN boxes = 1..Len(boxes) /\ Len(boxes) \in Nat
  OBVIOUS
<1>3. Save(boxes) = [i \in 1..Len(boxes) |-> Save(boxes)[i]]
  BY <1>2 DEF Save
<1>4. \A i \in 1..Len(boxes) : Save(boxes)[i] \in Pool
  BY <1>1, <1>2
<1>5. Save(boxes) \in Seq(Pool) /\ Len(Save(boxes)) = Len(boxes)
      /\ DOMAIN Save(boxes) = DOMAIN boxes
  BY <1>2, <1>3, <1>4
<1> QED BY <1>1, <1>5 DEF SameEndpoints

(* Home.recoverSavedBoxes gives back each saved box at its place, with its *)
(* endpoint, color and focus.                                              *)
LEMMA RecoverIs ==
  ASSUME NEW pool \in Seq(Pool)
  PROVE  /\ Recover(pool) \in Seq(Boxes)
         /\ SameEndpoints(Recover(pool), pool)
         /\ \A i \in DOMAIN pool : /\ Recover(pool)[i].color = pool[i].color
                                   /\ Recover(pool)[i].focus = pool[i].focus
         /\ \A i \in DOMAIN pool : pool[i].color \in AllColors
<1>1. ASSUME NEW i \in DOMAIN pool
      PROVE  /\ Recover(pool)[i] \in Boxes
             /\ Recover(pool)[i].endpoint = pool[i].endpoint
             /\ Recover(pool)[i].color = pool[i].color
             /\ Recover(pool)[i].focus = pool[i].focus
             /\ pool[i].color \in AllColors
  <2>1. Recover(pool)[i] = [endpoint |-> pool[i].endpoint, reachable |-> FALSE,
                            focus |-> pool[i].focus, color |-> pool[i].color]
    BY DEF Recover
  <2>2. pool[i] \in Pool
    OBVIOUS
  <2> QED BY <2>1, <2>2 DEF Pool, Boxes, AllColors
<1>2. DOMAIN pool = 1..Len(pool) /\ Len(pool) \in Nat
  OBVIOUS
<1>3. Recover(pool) = [i \in 1..Len(pool) |-> Recover(pool)[i]]
  BY <1>2 DEF Recover
<1>4. \A i \in 1..Len(pool) : Recover(pool)[i] \in Boxes
  BY <1>1, <1>2
<1>5. Recover(pool) \in Seq(Boxes) /\ Len(Recover(pool)) = Len(pool)
      /\ DOMAIN Recover(pool) = DOMAIN pool
  BY <1>2, <1>3, <1>4
<1> QED BY <1>1, <1>5 DEF SameEndpoints

(* Painter.getColor reuses a color only when all are used. *)
LEMMA FreshColorIs ==
  ASSUME usedColors \subseteq AllColors
  PROVE  /\ FreshColor \in AllColors
         /\ FreshColor \in usedColors => usedColors = AllColors
<1> DEFINE unused == {i \in DOMAIN Colors : Colors[i] \notin usedColors}
<1>1. Indices(Colors, LAMBDA color : color \notin usedColors) = unused
  BY DEF Indices
<1>2. FreshColor = IF unused = {} THEN Colors[1] ELSE Colors[Greatest(unused)]
  BY <1>1 DEF FreshColor
<1>3. Len(Colors) \in Nat \ {0} /\ DOMAIN Colors = 1..Len(Colors)
  BY ActivityAssumption
<1>4. CASE unused = {}
  BY <1>2, <1>3, <1>4 DEF AllColors
<1>5. CASE unused # {}
  <2>1. unused \subseteq 1..Len(Colors)
    BY <1>3
  <2>2. Greatest(unused) \in unused
    BY <1>3, <1>5, <2>1, GreatestIs
  <2> QED BY <1>2, <1>5, <2>2 DEF AllColors
<1> QED BY <1>4, <1>5

(* The box that recoverSavedBoxes selects is in the pool, and has the      *)
(* focus if any has.                                                       *)
LEMMA FocusOfIs ==
  ASSUME NEW pool \in Seq(Pool), pool # <<>>
  PROVE  \E i \in DOMAIN pool :
           /\ FocusOf(pool) = pool[i].endpoint
           /\ (\E j \in DOMAIN pool : pool[j].focus) => pool[i].focus
<1> DEFINE focused == {i \in DOMAIN pool : pool[i].focus}
<1>1. Indices(pool, LAMBDA box : box.focus) = focused
  BY DEF Indices
<1>2. FocusOf(pool) = IF focused = {} THEN pool[1].endpoint
                                      ELSE pool[Greatest(focused)].endpoint
  BY <1>1 DEF FocusOf
<1>3. Len(pool) \in Nat \ {0} /\ DOMAIN pool = 1..Len(pool)
  OBVIOUS
<1>4. CASE focused = {}
  BY <1>2, <1>3, <1>4
<1>5. CASE focused # {}
  <2>1. focused \subseteq 1..Len(pool)
    BY <1>3
  <2>2. Greatest(focused) \in focused
    BY <1>3, <1>5, <2>1, GreatestIs
  <2> QED BY <1>2, <1>5, <2>2
<1> QED BY <1>4, <1>5

-----------------------------------------------------------------------------
(* The next button leads to the first reachable box after the given one.   *)
LEMMA NextIs ==
  ASSUME mBoxes \in Seq(Boxes), NEW of, NextReachable(of) # "none"
  PROVE  \E j \in DOMAIN mBoxes :
           /\ NextReachable(of) = mBoxes[j].endpoint /\ mBoxes[j].reachable
           /\ \E i \in 1..(j - 1) : mBoxes[i].endpoint = of
           /\ \A k \in DOMAIN mBoxes :
                (mBoxes[k].reachable /\ \E i \in 1..(k - 1) : mBoxes[i].endpoint = of)
                => j <= k
<1> DEFINE after == {j \in Indices(mBoxes, LAMBDA box : box.reachable) :
                       \E i \in 1..(j - 1) : mBoxes[i].endpoint = of}
<1>1. \A k : k \in after <=> /\ k \in DOMAIN mBoxes /\ mBoxes[k].reachable
                            /\ \E i \in 1..(k - 1) : mBoxes[i].endpoint = of
  BY DEF Indices
<1>2. NextReachable(of) = IF after = {} THEN "none" ELSE mBoxes[Least(after)].endpoint
  BY DEF NextReachable
<1> HIDE DEF after
<1>3. Len(mBoxes) \in Nat /\ DOMAIN mBoxes = 1..Len(mBoxes)
  OBVIOUS
<1>4. after # {} /\ after \subseteq 1..Len(mBoxes)
  BY <1>1, <1>2, <1>3
<1>5. Least(after) \in after /\ \A k \in after : Least(after) <= k
  BY <1>3, <1>4, LeastIs
<1> QED BY <1>1, <1>2, <1>4, <1>5

(* The previous button leads to the last reachable box before the given    *)
(* one.                                                                    *)
LEMMA PreviousIs ==
  ASSUME mBoxes \in Seq(Boxes), NEW of
  PROVE  LET before(j) == /\ j \in DOMAIN mBoxes /\ mBoxes[j].reachable
                          /\ \A i \in 1..j : mBoxes[i].endpoint # of
         IN  /\ (\E j : before(j)) => PreviousReachable(of) # "none"
             /\ PreviousReachable(of) # "none" =>
                  \E j : /\ PreviousReachable(of) = mBoxes[j].endpoint
                         /\ before(j) /\ \A k : before(k) => k <= j
<1> DEFINE before == {j \in Indices(mBoxes, LAMBDA box : box.reachable) :
                        \A i \in 1..j : mBoxes[i].endpoint # of}
<1>1. \A k : k \in before <=> /\ k \in DOMAIN mBoxes /\ mBoxes[k].reachable
                             /\ \A i \in 1..k : mBoxes[i].endpoint # of
  BY DEF Indices
<1>2. PreviousReachable(of) =
        IF before = {} THEN "none" ELSE mBoxes[Greatest(before)].endpoint
  BY DEF PreviousReachable
<1> HIDE DEF before
<1>3. Len(mBoxes) \in Nat /\ DOMAIN mBoxes = 1..Len(mBoxes)
  OBVIOUS
<1>4. before \subseteq 1..Len(mBoxes)
  BY <1>1, <1>3
<1>5. before # {} => /\ Greatest(before) \in before
                     /\ \A k \in before : k <= Greatest(before)
  BY <1>3, <1>4, GreatestIs
<1>6. \A k \in before : mBoxes[k].endpoint # "none"
  BY <1>1, BoxIs
<1> QED BY <1>1, <1>2, <1>5, <1>6

(* A box is selected from the list. *)
LEMMA SelectedIsKnown ==
  ASSUME mBoxes \in Seq(Boxes), NEW of
  PROVE  /\ NextReachable(of) # "none" => Known(mBoxes, NextReachable(of))
         /\ PreviousReachable(of) # "none" => Known(mBoxes, PreviousReachable(of))
<1>1. NextReachable(of) # "none" => Known(mBoxes, NextReachable(of))
  BY NextIs DEF Known
<1>2. PreviousReachable(of) # "none" => Known(mBoxes, PreviousReachable(of))
  BY PreviousIs DEF Known
<1> QED BY <1>1, <1>2

Unique(boxes) ==
  \A i, j \in DOMAIN boxes : boxes[i].endpoint = boxes[j].endpoint => i = j

(* From a reachable box, next and then previous lead back to it.           *)
LEMMA PreviousOfNext ==
  ASSUME mBoxes \in Seq(Boxes), Unique(mBoxes)
  PROVE  PreviousUndoesNext
<1> SUFFICES ASSUME NEW i \in DOMAIN mBoxes, mBoxes[i].reachable,
                    NextReachable(mBoxes[i].endpoint) # "none"
             PROVE  PreviousReachable(NextReachable(mBoxes[i].endpoint))
                      = mBoxes[i].endpoint
  BY DEF PreviousUndoesNext
<1> DEFINE of == mBoxes[i].endpoint
           next == NextReachable(of)
<1>0. Len(mBoxes) \in Nat /\ DOMAIN mBoxes = 1..Len(mBoxes)
  OBVIOUS
<1>1. PICK j \in DOMAIN mBoxes :
        /\ next = mBoxes[j].endpoint /\ mBoxes[j].reachable
        /\ \E h \in 1..(j - 1) : mBoxes[h].endpoint = of
        /\ \A k \in DOMAIN mBoxes :
             (mBoxes[k].reachable /\ \E h \in 1..(k - 1) : mBoxes[h].endpoint = of)
             => j <= k
  BY NextIs
<1>2. i \in 1..(j - 1)
  BY <1>0, <1>1 DEF Unique
<1>3. \A k \in DOMAIN mBoxes : k > i /\ mBoxes[k].reachable => j <= k
  <2> SUFFICES ASSUME NEW k \in DOMAIN mBoxes, k > i, mBoxes[k].reachable
               PROVE  j <= k
    OBVIOUS
  <2>1. i \in 1..(k - 1)
    BY <1>0
  <2> QED BY <1>1, <2>1
<1>4. \A h \in 1..i : mBoxes[h].endpoint # next
  <2> SUFFICES ASSUME NEW h \in 1..i PROVE mBoxes[h].endpoint # next
    OBVIOUS
  <2>1. h \in DOMAIN mBoxes /\ h # j
    BY <1>0, <1>2
  <2> QED BY <1>1, <2>1 DEF Unique
<1> HIDE DEF next, of
<1>5. PreviousReachable(next) # "none"
  BY <1>4, PreviousIs
<1>6. PICK l \in DOMAIN mBoxes :
        /\ PreviousReachable(next) = mBoxes[l].endpoint
        /\ mBoxes[l].reachable
        /\ \A h \in 1..l : mBoxes[h].endpoint # next
        /\ \A k \in DOMAIN mBoxes :
             mBoxes[k].reachable /\ (\A h \in 1..k : mBoxes[h].endpoint # next)
             => k <= l
  BY <1>5, PreviousIs
<1>7. i <= l
  BY <1>4, <1>6
<1>8. ~(l >= j)
  <2> SUFFICES ASSUME l >= j PROVE FALSE
    OBVIOUS
  <2>1. j \in 1..l
    BY <1>0
  <2> QED BY <1>1, <1>6, <2>1
<1>9. ~(l > i)
  BY <1>0, <1>3, <1>6, <1>8
<1>10. l = i
  BY <1>0, <1>7, <1>9
<1> QED BY <1>6, <1>10 DEF next, of

(* A detection keeps the boxes of the list with what they have, and adds   *)
(* one at most, that is new.                                               *)
LEMMA AddOrUpdateIs ==
  ASSUME mBoxes \in Seq(Boxes), usedColors \subseteq AllColors,
         NEW endpoint \in Endpoints
  PROVE  LET list == AddOrUpdate(endpoint)
             n == Len(mBoxes)
         IN  /\ list \in Seq(Boxes)
             /\ Known(mBoxes, endpoint) => DOMAIN list = 1..n
             /\ ~Known(mBoxes, endpoint) =>
                  /\ DOMAIN list = 1..(n + 1)
                  /\ list[n + 1].endpoint = endpoint
                  /\ list[n + 1].focus = FALSE
                  /\ list[n + 1].color = FreshColor
             /\ \A i \in 1..n : /\ list[i].endpoint = mBoxes[i].endpoint
                                /\ list[i].focus = mBoxes[i].focus
                                /\ list[i].color = mBoxes[i].color
<1> DEFINE list == AddOrUpdate(endpoint)
           n == Len(mBoxes)
<1>0. n \in Nat /\ DOMAIN mBoxes = 1..n
  OBVIOUS
<1>1. CASE Known(mBoxes, endpoint)
  <2>1. list = [i \in 1..n |->
                  IF mBoxes[i].endpoint = endpoint
                    THEN [mBoxes[i] EXCEPT !.reachable = TRUE] ELSE mBoxes[i]]
    BY <1>0, <1>1 DEF AddOrUpdate
  <2>2. ASSUME NEW i \in 1..n
        PROVE  /\ list[i] \in Boxes
               /\ list[i].endpoint = mBoxes[i].endpoint
               /\ list[i].focus = mBoxes[i].focus
               /\ list[i].color = mBoxes[i].color
    <3>1. mBoxes[i] \in Boxes
      BY <1>0
    <3>2. list[i] = IF mBoxes[i].endpoint = endpoint
                      THEN [mBoxes[i] EXCEPT !.reachable = TRUE] ELSE mBoxes[i]
      BY <2>1
    <3>3. CASE mBoxes[i].endpoint = endpoint
      BY <3>1, <3>2, <3>3 DEF Boxes
    <3>4. CASE mBoxes[i].endpoint # endpoint
      BY <3>1, <3>2, <3>4
    <3> QED BY <3>3, <3>4
  <2>3. list \in Seq(Boxes) /\ DOMAIN list = 1..n
    <3>1. \A i \in 1..n : list[i] \in Boxes
      BY <2>2
    <3> HIDE DEF list
    <3> QED BY <1>0, <2>1, <3>1
  <2> QED BY <1>1, <2>2, <2>3
<1>2. CASE ~Known(mBoxes, endpoint)
  <2> DEFINE box == [endpoint |-> endpoint, reachable |-> TRUE, focus |-> FALSE,
                     color |-> FreshColor]
  <2>1. list = Append(mBoxes, box)
    BY <1>2 DEF AddOrUpdate
  <2>2. box \in Boxes
    BY FreshColorIs DEF Boxes, AllColors
  <2>3. /\ list \in Seq(Boxes) /\ DOMAIN list = 1..(n + 1)
        /\ list[n + 1] = box
        /\ \A i \in 1..n : list[i] = mBoxes[i]
    <3> HIDE DEF box, list
    <3> QED BY <1>0, <2>1, <2>2
  <2> QED BY <1>2, <2>3
<1> QED BY <1>1, <1>2

(* Every box of the network that is detected is known from then on; no box *)
(* is twice in the list.                                                   *)
LEMMA AddOrUpdateKnown ==
  ASSUME mBoxes \in Seq(Boxes), usedColors \subseteq AllColors,
         NEW endpoint \in Endpoints
  PROVE  /\ Known(AddOrUpdate(endpoint), endpoint)
         /\ \A other : Known(mBoxes, other) => Known(AddOrUpdate(endpoint), other)
         /\ Unique(mBoxes) => Unique(AddOrUpdate(endpoint))
<1> DEFINE list == AddOrUpdate(endpoint)
           n == Len(mBoxes)
<1>0. n \in Nat /\ DOMAIN mBoxes = 1..n
  OBVIOUS
<1>1. /\ Known(mBoxes, endpoint) => DOMAIN list = 1..n
      /\ ~Known(mBoxes, endpoint) =>
           DOMAIN list = 1..(n + 1) /\ list[n + 1].endpoint = endpoint
      /\ \A i \in 1..n : list[i].endpoint = mBoxes[i].endpoint
  BY AddOrUpdateIs
<1> SUFFICES /\ Known(list, endpoint)
             /\ \A other : Known(mBoxes, other) => Known(list, other)
             /\ Unique(mBoxes) => Unique(list)
  OBVIOUS
<1> HIDE DEF list, n
<1>2. CASE Known(mBoxes, endpoint)
  <2>1. DOMAIN list = DOMAIN mBoxes
    BY <1>0, <1>1, <1>2
  <2>2. \A i \in DOMAIN mBoxes : list[i].endpoint = mBoxes[i].endpoint
    BY <1>0, <1>1
  <2> HIDE <1>1
  <2> QED BY <1>2, <2>1, <2>2 DEF Known, Unique
<1>3. CASE ~Known(mBoxes, endpoint)
  <2>0. DOMAIN list = 1..(n + 1) /\ list[n + 1].endpoint = endpoint
    BY <1>1, <1>3
  <2>1. n + 1 \in DOMAIN list /\ \A i \in 1..n : i \in DOMAIN list
    BY <1>0, <2>0
  <2>2. \A i \in 1..n : list[i].endpoint # endpoint
    BY <1>0, <1>1, <1>3 DEF Known
  <2>3. \A i \in DOMAIN list : i \in 1..n \/ i = n + 1
    BY <1>0, <2>0
  <2>4. Known(list, endpoint)
    BY <2>0, <2>1 DEF Known
  <2>5. \A other : Known(mBoxes, other) => Known(list, other)
    BY <1>0, <1>1, <2>1 DEF Known
  <2>6. Unique(mBoxes) => Unique(list)
    <3> SUFFICES ASSUME Unique(mBoxes), NEW i \in DOMAIN list, NEW j \in DOMAIN list,
                        list[i].endpoint = list[j].endpoint
                 PROVE  i = j
      BY DEF Unique
    <3>1. CASE i \in 1..n /\ j \in 1..n
      BY <1>0, <1>1, <3>1 DEF Unique
    <3>2. CASE i = n + 1 \/ j = n + 1
      BY <2>0, <2>2, <2>3, <3>2
    <3> QED BY <2>3, <3>1, <3>2
  <2> QED BY <2>4, <2>5, <2>6
<1> QED BY <1>2, <1>3

-----------------------------------------------------------------------------
(* Types are kept by every step. *)
LEMMA TypeStep ==
  ASSUME TypeOK, target # "none" => Known(mBoxes, target), [Next]_vars
  PROVE  TypeOK'
<1>0. /\ {resumed, listed, mConnected, sniffing, crashed} \subseteq BOOLEAN
      /\ mBoxes \in Seq(Boxes) /\ saved \in Seq(Pool)
      /\ usedColors \subseteq AllColors
      /\ active \in Endpoints \cup {"none"} /\ target \in Endpoints \cup {"none"}
      /\ lastActive \in Endpoints \cup {"none"}
      /\ ui \in {"ready", "disconnect", "connect"}
      /\ phase \in {"closed", "open", "closing", "ended"}
      /\ queue \in Seq(Messages)
      /\ late \in 0..MaxLate /\ restarts \in 0..MaxRestarts
  BY DEF TypeOK, AllColors
<1>a. <<>> \in Seq(Boxes) /\ <<>> \in Seq(Messages)
  OBVIOUS
<1>b. {} \subseteq AllColors /\ "none" \in Endpoints \cup {"none"}
  OBVIOUS
(* The types of the lists and of what the session and the queue are. *)
<1> DEFINE Lists == /\ mBoxes' \in Seq(Boxes) /\ saved' \in Seq(Pool)
                    /\ usedColors' \subseteq AllColors
           Rest == /\ {resumed', listed', mConnected', sniffing', crashed'} \subseteq BOOLEAN
                   /\ active' \in Endpoints \cup {"none"}
                   /\ target' \in Endpoints \cup {"none"}
                   /\ lastActive' \in Endpoints \cup {"none"}
                   /\ ui' \in {"ready", "disconnect", "connect"}
                   /\ phase' \in {"closed", "open", "closing", "ended"}
           Post == queue' \in Seq(Messages)
           Count == late' \in 0..MaxLate /\ restarts' \in 0..MaxRestarts
<1>1. ASSUME Lists, Rest, Post, Count PROVE TypeOK'
  BY <1>1 DEF TypeOK, AllColors
<1>2. CASE Return
  BY <1>0, <1>1, <1>2 DEF Return
<1>3. CASE Connect
  <2>1. mBoxes' \in Seq(Boxes)
    BY <1>0, <1>3, SetFocusIs DEF Connect
  <2> QED BY <1>0, <1>1, <1>3, <2>1 DEF Connect
<1>4. CASE Disconnected
  BY <1>0, <1>1, <1>4 DEF Disconnected
<1>5. CASE DeliverStatus
  <2>1. queue' \in Seq(Messages)
    BY <1>0, <1>5 DEF DeliverStatus
  <2> QED BY <1>0, <1>1, <1>5, <2>1 DEF DeliverStatus
<1>6. CASE Exit
  <2>1. Status("EXIT") \in Messages
    BY DEF Status, Messages
  <2>2. queue' \in Seq(Messages)
    BY <1>0, <1>6, <2>1 DEF Exit
  <2> QED BY <1>0, <1>1, <1>6, <2>2 DEF Exit
<1>7. ASSUME NEW text \in Texts, Report(text) PROVE TypeOK'
  <2>1. Status(text) \in Messages
    BY DEF Status, Messages
  <2>2. queue' \in Seq(Messages)
    BY <1>0, <1>7, <2>1 DEF Report
  <2> QED BY <1>0, <1>1, <1>7, <2>2 DEF Report
<1>8. ASSUME NEW endpoint \in Endpoints, Detect(endpoint) PROVE TypeOK'
  <2>1. Detected(endpoint) \in Messages
    BY DEF Detected, Messages
  <2>2. queue' \in Seq(Messages)
    BY <1>0, <1>8, <2>1 DEF Detect
  <2>3. late' \in 0..MaxLate
    <3>1. MaxLate \in Nat
      BY ActivityAssumption
    <3> QED BY <1>0, <1>8, <3>1 DEF Detect
  <2> QED BY <1>0, <1>1, <1>8, <2>2, <2>3 DEF Detect
<1>9. CASE Restart
  <2>1. restarts' \in 0..MaxRestarts
    <3>1. MaxRestarts \in Nat
      BY ActivityAssumption
    <3> QED BY <1>0, <1>9, <3>1 DEF Restart
  <2> QED BY <1>0, <1>a, <1>b, <1>1, <1>9, <2>1 DEF Restart
<1>10. CASE Resume
  <2>1. mBoxes' \in Seq(Boxes)
    BY <1>0, <1>10, RecoverIs DEF Resume
  <2>2. usedColors' \subseteq AllColors
    <3>1. \A i \in DOMAIN saved : saved[i].color \in AllColors
      BY <1>0, RecoverIs
    <3> QED BY <1>0, <1>10, <3>1 DEF Resume
  <2>3. saved # <<>> => FocusOf(saved) \in Endpoints
    <3> SUFFICES ASSUME saved # <<>> PROVE FocusOf(saved) \in Endpoints
      OBVIOUS
    <3>1. PICK i \in DOMAIN saved : FocusOf(saved) = saved[i].endpoint
      BY <1>0, FocusOfIs
    <3>2. saved[i] \in Pool
      BY <1>0
    <3> QED BY <3>1, <3>2 DEF Pool
  <2> QED BY <1>0, <1>1, <1>10, <2>1, <2>2, <2>3 DEF Resume, Switch
<1>11. CASE Pause
  <2>1. saved' \in Seq(Pool)
    BY <1>0, <1>11, SaveIs DEF Pause, SavedPool
  <2>2. queue' \in Seq(Messages)
    BY <1>0, <1>11, StatusesKept DEF Pause, DropDetections
  <2> QED BY <1>0, <1>a, <1>1, <1>11, <2>1, <2>2 DEF Pause, Switch
<1>12. ASSUME NEW of, NEW endpoint, Select(endpoint), Known(mBoxes, endpoint)
       PROVE  TypeOK'
  <2>1. mBoxes' \in Seq(Boxes)
    BY <1>0, <1>12, SetFocusIs DEF Select, ConnectFreebox, ReleaseFocus
  <2>2. endpoint \in Endpoints
    BY <1>0, <1>12, BoxIs DEF Known
  <2> QED BY <1>0, <1>1, <1>12, <2>1, <2>2 DEF Select, ConnectFreebox, Switch
<1>13. CASE DeliverDetection
  <2> DEFINE endpoint == Head(queue).value
  <2>1. queue' \in Seq(Messages) /\ Head(queue) \in Messages
    BY <1>0, <1>13 DEF DeliverDetection
  <2>2. endpoint \in Endpoints
    BY <1>13, <2>1 DEF DeliverDetection, IsStatus, Messages
  <2>3. AddOrUpdate(endpoint) \in Seq(Boxes)
    BY <1>0, <2>2, AddOrUpdateIs
  <2>4. mBoxes' \in Seq(Boxes)
    <3>1. SetFocus(AddOrUpdate(endpoint), active, FALSE) \in Seq(Boxes)
      BY <2>3, SetFocusIs
    <3>2. mBoxes' \in {AddOrUpdate(endpoint),
                       SetFocus(AddOrUpdate(endpoint), active, FALSE)}
      BY <1>13 DEF DeliverDetection, ConnectFreebox, ReleaseFocus
    <3> QED BY <2>3, <3>1, <3>2
  <2>5. usedColors' \subseteq AllColors
    BY <1>0, <1>13, FreshColorIs DEF DeliverDetection
  <2>6. CASE mConnected
    BY <1>0, <1>1, <1>13, <2>1, <2>4, <2>5, <2>6 DEF DeliverDetection
  <2>7. CASE ~mConnected
    BY <1>0, <1>1, <1>13, <2>1, <2>2, <2>4, <2>5, <2>7
       DEF DeliverDetection, ConnectFreebox, Switch
  <2> QED BY <2>6, <2>7
<1>14. CASE UNCHANGED vars
  BY <1>14 DEF vars, TypeOK
<1> QED
  BY <1>0, <1>2, <1>3, <1>4, <1>5, <1>6, <1>7, <1>8, <1>9, <1>10, <1>11, <1>12,
     <1>13, <1>14, SelectedIsKnown DEF Next, MainNext, Select

-----------------------------------------------------------------------------
(* The main thread, the session and the active box go together.            *)
MainInv ==
  /\ ui = "ready" => target = "none" /\ phase \in {"closed", "open"}
  /\ ui = "disconnect" => phase \in {"closing", "ended"}
  /\ ui = "connect" => phase = "closed"
  /\ SessionIsActive
  /\ active = "none" => phase = "closed"
  /\ (ui # "ready" /\ target = "none") => ~resumed /\ ~listed

(* A list and a pool do not know a box twice; the boxes that matter are    *)
(* known.                                                                  *)
ListInv ==
  /\ Unique(mBoxes) /\ Unique(saved)
  /\ target # "none" => Known(mBoxes, target)
  /\ listed => active # "none" /\ Known(mBoxes, active)

(* What has the focus: the active box, and while the main thread connects  *)
(* to a box at most that one; in the pool, the one to select.              *)
FocusInv ==
  /\ ui = "ready" => \A i \in DOMAIN mBoxes :
                      mBoxes[i].focus <=> (listed /\ mBoxes[i].endpoint = active)
  /\ ui # "ready" => \A i \in DOMAIN mBoxes :
                      mBoxes[i].focus => mBoxes[i].endpoint = target
  /\ \A i, j \in DOMAIN saved :
       saved[i].focus /\ saved[j].focus => saved[i].endpoint = saved[j].endpoint
  /\ lastActive # "none" =>
       \E i \in DOMAIN saved : saved[i].focus /\ saved[i].endpoint = lastActive

(* Lists with the same endpoints know the same boxes. *)
LEMMA SameKnown ==
  ASSUME NEW one, NEW other, SameEndpoints(one, other)
  PROVE  /\ \A endpoint : Known(one, endpoint) <=> Known(other, endpoint)
         /\ Unique(one) <=> Unique(other)
BY DEF SameEndpoints, Known, Unique

(* connectFreebox leaves the list as it is but for the focus of the active *)
(* box.                                                                    *)
LEMMA ConnectList ==
  ASSUME NEW boxes \in Seq(Boxes), listed \in BOOLEAN,
         mBoxes' = ReleaseFocus(boxes)
  PROVE  /\ SameEndpoints(mBoxes', boxes)
         /\ \A i \in DOMAIN boxes : mBoxes'[i].color = boxes[i].color
         /\ \A i \in DOMAIN boxes : mBoxes'[i].focus =>
              boxes[i].focus /\ ~(listed /\ boxes[i].endpoint = active)
<1>1. mBoxes' = IF listed THEN SetFocus(boxes, active, FALSE) ELSE boxes
  BY DEF ReleaseFocus
<1>2. CASE listed
  <2> DEFINE set == SetFocus(boxes, active, FALSE)
  <2>0. mBoxes' = set
    BY <1>1, <1>2
  <2>1. /\ SameEndpoints(set, boxes)
        /\ \A i \in DOMAIN boxes :
             /\ set[i].color = boxes[i].color
             /\ boxes[i].endpoint = active => set[i].focus = FALSE
             /\ boxes[i].endpoint # active => set[i].focus = boxes[i].focus
    BY SetFocusIs, Zenon
  <2> HIDE DEF set
  <2>2. SameEndpoints(mBoxes', boxes)
    BY <2>0, <2>1
  <2>3. \A i \in DOMAIN boxes : mBoxes'[i].color = boxes[i].color
    BY <2>0, <2>1
  <2>4. \A i \in DOMAIN boxes : mBoxes'[i].focus =>
          boxes[i].focus /\ boxes[i].endpoint # active
    BY <2>0, <2>1
  <2> QED BY <1>2, <2>2, <2>3, <2>4
<1>3. CASE ~listed
  BY <1>1, <1>3 DEF SameEndpoints
<1> QED BY <1>2, <1>3

(* What the head of the queue says is about a box of the network.          *)
LEMMA DetectedBox ==
  ASSUME queue \in Seq(Messages), queue # <<>>, ~IsStatus(Head(queue))
  PROVE  Head(queue).value \in Endpoints /\ Head(queue).value # "none"
<1>1. Head(queue) \in Messages
  OBVIOUS
<1>2. Head(queue).value \in Endpoints
  BY <1>1 DEF IsStatus, Messages
<1> QED BY <1>2, ActivityAssumption

(* The box recovered from a pool is one of the list. *)
LEMMA SelectedInPool ==
  ASSUME saved \in Seq(Pool), saved # <<>>
  PROVE  FocusOf(saved) # "none" /\ Known(Recover(saved), FocusOf(saved))
<1>1. PICK i \in DOMAIN saved : FocusOf(saved) = saved[i].endpoint
  BY FocusOfIs
<1>2. saved[i] \in Pool
  OBVIOUS
<1>3. FocusOf(saved) \in Endpoints
  BY <1>1, <1>2 DEF Pool
<1>4. FocusOf(saved) # "none"
  BY <1>3, ActivityAssumption
<1>5. Known(Recover(saved), FocusOf(saved))
  BY <1>1, RecoverIs DEF SameEndpoints, Known
<1> QED BY <1>4, <1>5

(* Sessions are opened and closed for the active box, one at a time.       *)
LEMMA MainStep ==
  ASSUME TypeOK, MainInv, [Next]_vars
  PROVE  MainInv'
<1>0. /\ saved \in Seq(Pool) /\ queue \in Seq(Messages)
      /\ ui \in {"ready", "disconnect", "connect"}
      /\ phase \in {"closed", "open", "closing", "ended"}
  BY DEF TypeOK
<1>n. "none" \notin Connectable
  BY ActivityAssumption
<1> USE DEF MainInv, SessionIsActive
<1>2. CASE Return
  BY <1>2 DEF Return
<1>3. CASE Connect
  BY <1>3 DEF Connect
<1>4. CASE Disconnected
  BY <1>n, <1>4 DEF Disconnected
<1>5. CASE DeliverStatus
  BY <1>5 DEF DeliverStatus
<1>6. CASE Exit
  BY <1>0, <1>6 DEF Exit
<1>7. ASSUME NEW text \in Texts, Report(text) PROVE MainInv'
  BY <1>7 DEF Report
<1>8. ASSUME NEW endpoint \in Endpoints, Detect(endpoint) PROVE MainInv'
  BY <1>8 DEF Detect
<1>9. CASE Restart
  BY <1>n, <1>9 DEF Restart
<1>10. CASE Resume
  <2>1. saved # <<>> => FocusOf(saved) # "none"
    BY <1>0, SelectedInPool
  <2> QED BY <1>0, <1>10, <2>1 DEF Resume, Switch, Ready
<1>11. CASE Pause
  BY <1>0, <1>11 DEF Pause, Switch, Ready
<1>12. ASSUME NEW endpoint, Select(endpoint) PROVE MainInv'
  BY <1>0, <1>12 DEF Select, ConnectFreebox, Switch, Ready
<1>13. CASE DeliverDetection
  <2>1. Head(queue).value # "none"
    BY <1>0, <1>13, DetectedBox DEF DeliverDetection
  <2>2. CASE mConnected
    BY <1>0, <1>13, <2>2 DEF DeliverDetection
  <2>3. CASE ~mConnected
    BY <1>0, <1>13, <2>1, <2>3 DEF DeliverDetection, ConnectFreebox, Switch, Ready
  <2> QED BY <2>2, <2>3
<1>14. CASE UNCHANGED vars
  BY <1>14 DEF vars
<1> QED
  BY <1>2, <1>3, <1>4, <1>5, <1>6, <1>7, <1>8, <1>9, <1>10, <1>11, <1>12,
     <1>13, <1>14 DEF Next, MainNext

(* The list and the pool stay without duplicates, and know the box that is *)
(* or gets active.                                                         *)
LEMMA ListStep ==
  ASSUME TypeOK, MainInv, ListInv, [Next]_vars
  PROVE  ListInv'
<1>0. /\ saved \in Seq(Pool) /\ queue \in Seq(Messages) /\ mBoxes \in Seq(Boxes)
      /\ listed \in BOOLEAN /\ usedColors \subseteq AllColors
  BY DEF TypeOK, AllColors
<1>e. Unique(<<>>)
  BY DEF Unique
<1>1. ASSUME UNCHANGED <<mBoxes, saved, target, listed, active>> PROVE ListInv'
  BY <1>1 DEF ListInv
<1>2. CASE Return \/ DeliverStatus \/ Exit \/ UNCHANGED vars
  BY <1>1, <1>2 DEF Return, DeliverStatus, Exit, vars
<1>3. CASE Connect
  <2>1. mBoxes' = SetFocus(mBoxes, target, TRUE) /\ saved' = saved
        /\ active' = target /\ target # "none" /\ target' = "none"
    BY <1>3 DEF Connect
  <2>2. SameEndpoints(mBoxes', mBoxes)
    BY <1>0, <2>1, SetFocusIs
  <2> QED BY <2>1, <2>2, SameKnown DEF ListInv
<1>4. CASE Disconnected
  BY <1>4 DEF Disconnected, ListInv, MainInv
<1>7. ASSUME NEW text \in Texts, Report(text) PROVE ListInv'
  BY <1>1, <1>7 DEF Report
<1>8. ASSUME NEW endpoint \in Endpoints, Detect(endpoint) PROVE ListInv'
  BY <1>1, <1>8 DEF Detect
<1>9. CASE Restart
  BY <1>9, <1>e DEF Restart, ListInv
<1>10. CASE Resume
  <2>1. /\ mBoxes' = Recover(saved) /\ saved' = saved /\ listed' = FALSE
        /\ target' = IF saved = <<>> THEN target ELSE FocusOf(saved)
        /\ ui = "ready"
    BY <1>10 DEF Resume, Switch, Ready
  <2>2. Unique(mBoxes')
    BY <1>0, <2>1, RecoverIs, SameKnown DEF ListInv
  <2>3. target' # "none" => Known(mBoxes', target')
    BY <1>0, <2>1, SelectedInPool DEF MainInv
  <2> QED BY <2>1, <2>2, <2>3 DEF ListInv
<1>11. CASE Pause
  <2>1. saved' = Save(mBoxes) /\ mBoxes' = <<>> /\ target' = "none" /\ listed' = FALSE
    BY <1>11 DEF Pause, SavedPool, Switch
  <2>2. Unique(saved')
    BY <1>0, <2>1, SaveIs, SameKnown DEF ListInv
  <2> QED BY <1>e, <2>1, <2>2 DEF ListInv
<1>12. ASSUME NEW endpoint, Select(endpoint), Known(mBoxes, endpoint)
       PROVE  ListInv'
  <2>1. ConnectFreebox(mBoxes, endpoint) /\ saved' = saved
    BY <1>12 DEF Select
  <2>2. SameEndpoints(mBoxes', mBoxes)
    <3>1. mBoxes' = ReleaseFocus(mBoxes)
      BY <2>1 DEF ConnectFreebox
    <3> QED BY <1>0, <3>1, ConnectList
  <2>3. target' = endpoint /\ UNCHANGED <<active, listed>>
    BY <2>1 DEF ConnectFreebox, Switch
  <2> QED BY <1>12, <2>1, <2>2, <2>3, SameKnown DEF ListInv
<1>13. CASE DeliverDetection
  <2> DEFINE endpoint == Head(queue).value
             list == AddOrUpdate(endpoint)
  <2>1. endpoint \in Endpoints
    BY <1>0, <1>13, DetectedBox DEF DeliverDetection
  <2>2. /\ Known(list, endpoint)
        /\ \A other : Known(mBoxes, other) => Known(list, other)
        /\ Unique(list)
        /\ list \in Seq(Boxes)
    BY <1>0, <2>1, AddOrUpdateKnown, AddOrUpdateIs DEF ListInv
  <2> HIDE DEF list
  <2>3. CASE mConnected
    <3>1. mBoxes' = list /\ UNCHANGED <<saved, target, listed, active>>
      BY <1>13, <2>3 DEF DeliverDetection, list
    <3> QED BY <2>2, <3>1 DEF ListInv
  <2>4. CASE ~mConnected
    <3>1. ConnectFreebox(list, endpoint) /\ saved' = saved
      BY <1>13, <2>4 DEF DeliverDetection, list
    <3>2. SameEndpoints(mBoxes', list)
      <4>1. mBoxes' = ReleaseFocus(list)
        BY <3>1 DEF ConnectFreebox
      <4> QED BY <1>0, <2>2, <4>1, ConnectList
    <3>3. target' = endpoint /\ UNCHANGED <<active, listed>>
      BY <3>1 DEF ConnectFreebox, Switch
    <3> QED BY <2>2, <3>1, <3>2, <3>3, SameKnown DEF ListInv
  <2> QED BY <2>3, <2>4
<1> QED
  BY <1>0, <1>2, <1>3, <1>4, <1>7, <1>8, <1>9, <1>10, <1>11, <1>12, <1>13,
     SelectedIsKnown DEF Next, MainNext, Select

(* The box that is active when the activity pauses is the one the pool     *)
(* selects, and no box but the active one ever has the focus.              *)
LEMMA FocusStep ==
  ASSUME TypeOK, MainInv, ListInv, FocusInv, [Next]_vars
  PROVE  FocusInv'
<1>0. /\ saved \in Seq(Pool) /\ queue \in Seq(Messages) /\ mBoxes \in Seq(Boxes)
      /\ listed \in BOOLEAN /\ usedColors \subseteq AllColors
  BY DEF TypeOK, AllColors
<1> DEFINE Same == UNCHANGED <<saved, lastActive>>
           NoFocus == \A i \in DOMAIN mBoxes' : ~mBoxes'[i].focus
           Idle == \A i \in DOMAIN mBoxes' :
                     mBoxes'[i].focus <=> (listed' /\ mBoxes'[i].endpoint = active')
           Busy == \A i \in DOMAIN mBoxes' :
                     mBoxes'[i].focus => mBoxes'[i].endpoint = target'
<1>a. ASSUME Same, ui' = "ready" => Idle, ui' # "ready" => Busy PROVE FocusInv'
  BY <1>a DEF FocusInv
<1>b. ASSUME ui = "ready", NEW boxes \in Seq(Boxes), mBoxes' = ReleaseFocus(boxes),
             \A i \in DOMAIN boxes :
               boxes[i].focus => listed /\ boxes[i].endpoint = active
      PROVE  NoFocus
  <2>1. /\ SameEndpoints(mBoxes', boxes)
        /\ \A i \in DOMAIN boxes : mBoxes'[i].focus =>
             boxes[i].focus /\ ~(listed /\ boxes[i].endpoint = active)
    BY <1>0, <1>b, ConnectList
  <2> QED BY <1>b, <2>1 DEF SameEndpoints
<1>1. ASSUME UNCHANGED <<mBoxes, saved, target, listed, active, ui, lastActive>>
      PROVE  FocusInv'
  BY <1>1 DEF FocusInv
<1>2. CASE DeliverStatus \/ Exit \/ UNCHANGED vars
  BY <1>1, <1>2 DEF DeliverStatus, Exit, vars
<1>3. CASE Return
  BY <1>3 DEF Return, FocusInv
<1>4. CASE Connect
  <2>1. /\ mBoxes' = SetFocus(mBoxes, target, TRUE) /\ Same
        /\ ui = "connect" /\ ui' = "ready"
        /\ listed' = TRUE /\ active' = target
    BY <1>4 DEF Connect
  <2> DEFINE set == SetFocus(mBoxes, target, TRUE)
  <2>2. /\ SameEndpoints(set, mBoxes)
        /\ \A i \in DOMAIN mBoxes :
             /\ mBoxes[i].endpoint = target => set[i].focus = TRUE
             /\ mBoxes[i].endpoint # target => set[i].focus = mBoxes[i].focus
    BY <1>0, SetFocusIs, Zenon
  <2> HIDE DEF set
  <2>3. \A i \in DOMAIN mBoxes : mBoxes[i].focus => mBoxes[i].endpoint = target
    BY <2>1 DEF FocusInv
  <2>4. \A i \in DOMAIN set : set[i].focus <=> set[i].endpoint = target
    <3> SUFFICES ASSUME NEW i \in DOMAIN mBoxes
                 PROVE  set[i].focus <=> mBoxes[i].endpoint = target
      BY <2>2 DEF SameEndpoints
    <3>1. CASE mBoxes[i].endpoint = target
      BY <2>2, <3>1
    <3>2. CASE mBoxes[i].endpoint # target
      BY <2>2, <2>3, <3>2
    <3> QED BY <3>1, <3>2
  <2>5. mBoxes' = set
    BY <2>1 DEF set
  <2>6. Idle
    BY <2>1, <2>4, <2>5
  <2> QED BY <1>a, <2>1, <2>6
<1>5. CASE Disconnected
  <2>1. /\ ui = "connect" /\ target = "none" /\ ui' = "ready" /\ Same
        /\ UNCHANGED <<mBoxes, listed>>
    BY <1>5 DEF Disconnected
  <2>2. ~listed
    BY <2>1 DEF MainInv
  <2>3. \A i \in DOMAIN mBoxes : ~mBoxes[i].focus
    BY <1>0, <2>1, BoxIs DEF FocusInv
  <2>4. Idle
    BY <2>1, <2>2, <2>3
  <2> QED BY <1>a, <2>1, <2>4
<1>7. ASSUME NEW text \in Texts, Report(text) PROVE FocusInv'
  BY <1>1, <1>7 DEF Report
<1>8. ASSUME NEW endpoint \in Endpoints, Detect(endpoint) PROVE FocusInv'
  BY <1>1, <1>8 DEF Detect
<1>9. CASE Restart
  <2>1. Same /\ mBoxes' = <<>>
    BY <1>9 DEF Restart
  <2> QED BY <1>a, <2>1
<1>10. CASE Resume
  <2>1. mBoxes' = Recover(saved) /\ Same
    BY <1>10 DEF Resume
  <2>2. CASE saved = <<>>
    <3>1. DOMAIN mBoxes' = {}
      BY <2>1, <2>2 DEF Recover
    <3> QED BY <1>a, <2>1, <3>1
  <2>3. CASE saved # <<>>
    <3>1. target' = FocusOf(saved) /\ ui' # "ready"
      BY <1>10, <2>3 DEF Resume, Switch
    <3>2. PICK i \in DOMAIN saved :
            /\ FocusOf(saved) = saved[i].endpoint
            /\ (\E j \in DOMAIN saved : saved[j].focus) => saved[i].focus
      BY <1>0, <2>3, FocusOfIs
    <3>3. \A j \in DOMAIN saved : saved[j].focus => saved[j].endpoint = FocusOf(saved)
      BY <3>2 DEF FocusInv
    <3>4. Busy
      BY <1>0, <2>1, <3>1, <3>3, RecoverIs DEF SameEndpoints
    <3> QED BY <1>a, <2>1, <3>1, <3>4
  <2> QED BY <2>2, <2>3
<1>11. CASE Pause
  <2>1. /\ saved' = Save(mBoxes) /\ mBoxes' = <<>> /\ ui = "ready"
        /\ lastActive' = IF listed THEN active ELSE "none"
    BY <1>11 DEF Pause, SavedPool, Ready
  <2>2. /\ DOMAIN saved' = DOMAIN mBoxes
        /\ \A i \in DOMAIN mBoxes : /\ saved'[i].endpoint = mBoxes[i].endpoint
                                    /\ saved'[i].focus = mBoxes[i].focus
    BY <1>0, <2>1, SaveIs DEF SameEndpoints
  <2>3. \A i \in DOMAIN mBoxes :
          mBoxes[i].focus <=> (listed /\ mBoxes[i].endpoint = active)
    BY <2>1 DEF FocusInv
  <2>4. \A i, j \in DOMAIN saved' :
          saved'[i].focus /\ saved'[j].focus => saved'[i].endpoint = saved'[j].endpoint
    BY <2>2, <2>3
  <2>5. lastActive' # "none" =>
          \E i \in DOMAIN saved' : saved'[i].focus /\ saved'[i].endpoint = lastActive'
    <3> SUFFICES ASSUME lastActive' # "none"
                 PROVE  \E i \in DOMAIN saved' :
                          saved'[i].focus /\ saved'[i].endpoint = lastActive'
      OBVIOUS
    <3>1. listed /\ lastActive' = active
      BY <2>1
    <3>2. PICK i \in DOMAIN mBoxes : mBoxes[i].endpoint = active
      BY <3>1 DEF ListInv, Known
    <3>3. mBoxes[i].focus
      BY <2>3, <3>1, <3>2
    <3> QED BY <2>2, <3>1, <3>2, <3>3
  <2> QED BY <2>1, <2>4, <2>5 DEF FocusInv
<1>12. ASSUME NEW endpoint, Select(endpoint) PROVE FocusInv'
  <2>1. /\ mBoxes' = ReleaseFocus(mBoxes) /\ Same /\ ui = "ready" /\ ui' # "ready"
    BY <1>12 DEF Select, ConnectFreebox, Switch, Ready
  <2>2. \A i \in DOMAIN mBoxes : mBoxes[i].focus => listed /\ mBoxes[i].endpoint = active
    BY <2>1 DEF FocusInv
  <2>3. NoFocus
    BY <1>0, <1>b, <2>1, <2>2
  <2> QED BY <1>a, <2>1, <2>3
<1>13. CASE DeliverDetection
  <2> DEFINE endpoint == Head(queue).value
             list == AddOrUpdate(endpoint)
             n == Len(mBoxes)
  <2>1. endpoint \in Endpoints
    BY <1>0, <1>13, DetectedBox DEF DeliverDetection
  <2>2. Same /\ ui = "ready"
    BY <1>13 DEF DeliverDetection, Ready
  <2>3. n \in Nat /\ DOMAIN mBoxes = 1..n
    BY <1>0
  <2>4. /\ list \in Seq(Boxes)
        /\ Known(mBoxes, endpoint) => DOMAIN list = 1..n
        /\ ~Known(mBoxes, endpoint) =>
             /\ DOMAIN list = 1..(n + 1)
             /\ list[n + 1].endpoint = endpoint
             /\ list[n + 1].focus = FALSE
        /\ \A i \in 1..n : /\ list[i].endpoint = mBoxes[i].endpoint
                           /\ list[i].focus = mBoxes[i].focus
    BY <1>0, <2>1, AddOrUpdateIs
  <2> HIDE DEF list, n
  <2>5. \A i \in DOMAIN list : i \in 1..n \/ (i = n + 1 /\ ~Known(mBoxes, endpoint))
    BY <2>3, <2>4
  <2>6. \A i \in DOMAIN list :
          list[i].focus <=> (listed /\ list[i].endpoint = active)
    <3> SUFFICES ASSUME NEW i \in DOMAIN list
                 PROVE  list[i].focus <=> (listed /\ list[i].endpoint = active)
      OBVIOUS
    <3>1. CASE i \in 1..n
      BY <2>2, <2>3, <2>4, <3>1 DEF FocusInv
    <3>2. CASE i = n + 1 /\ ~Known(mBoxes, endpoint)
      BY <2>4, <3>2 DEF ListInv
    <3> QED BY <2>5, <3>1, <3>2
  <2>7. CASE mConnected
    <3>1. mBoxes' = list /\ UNCHANGED <<ui, listed, active>>
      BY <1>13, <2>7 DEF DeliverDetection, list
    <3>2. Idle
      BY <2>6, <3>1
    <3> QED BY <1>a, <2>2, <3>1, <3>2
  <2>8. CASE ~mConnected
    <3>1. mBoxes' = ReleaseFocus(list) /\ ui' # "ready"
      BY <1>13, <2>8 DEF DeliverDetection, ConnectFreebox, Switch, list
    <3>2. NoFocus
      BY <1>b, <2>2, <2>4, <2>6, <3>1
    <3> QED BY <1>a, <2>2, <3>1, <3>2
  <2> QED BY <2>7, <2>8
<1> QED
  BY <1>2, <1>3, <1>4, <1>5, <1>7, <1>8, <1>9, <1>10, <1>11, <1>12, <1>13
  DEF Next, MainNext

-----------------------------------------------------------------------------
(* What the main thread still has to run: without late detections, none    *)
(* once the sniffers are stopped; no "connected" is left of a session that *)
(* has ended; and while no box is active, the detections come last.        *)
QueueInv ==
  /\ sniffing => resumed
  /\ (late = 0 /\ ~sniffing) => \A i \in DOMAIN queue : IsStatus(queue[i])
  /\ phase \in {"closed", "ended"} => NotConnected(queue, mConnected)
  /\ (late = 0 /\ active = "none") =>
       \A i, j \in DOMAIN queue : i < j /\ IsStatus(queue[j]) => IsStatus(queue[i])
  /\ (late = 0 /\ ~resumed) => target = "none"
  /\ QuietWhenPaused
  /\ NoNullPaint

(* The messages of a queue to which one is posted. *)
LEMMA PostedQueue ==
  ASSUME NEW q \in Seq(Messages), NEW m \in Messages
  PROVE  LET posted == Append(q, m)
         IN  /\ DOMAIN posted = 1..(Len(q) + 1) /\ DOMAIN q = 1..Len(q)
             /\ Len(q) \in Nat
             /\ posted[Len(q) + 1] = m
             /\ \A i \in DOMAIN q : posted[i] = q[i]
OBVIOUS

(* The messages of a queue once the first is delivered. *)
LEMMA ServedQueue ==
  ASSUME NEW q \in Seq(Messages), q # <<>>
  PROVE  /\ DOMAIN q = 1..Len(q) /\ Len(q) \in Nat \ {0}
         /\ DOMAIN Tail(q) = 1..(Len(q) - 1)
         /\ \A i \in 1..(Len(q) - 1) : Tail(q)[i] = q[i + 1]
         /\ Head(q) = q[1]
OBVIOUS

(* Posting: "EXIT" is not "connected", and a detection is no status.       *)
LEMMA PostedNotConnected ==
  ASSUME NEW q \in Seq(Messages), NEW m \in Messages, NEW connected,
         \/ IsStatus(m) /\ m.value # "connected"
         \/ ~IsStatus(m) /\ NotConnected(q, connected)
  PROVE  NotConnected(Append(q, m), connected)
<1> DEFINE n == Len(q)
           posted == Append(q, m)
<1>1. /\ DOMAIN posted = 1..(n + 1) /\ DOMAIN q = 1..n /\ n \in Nat
      /\ posted[n + 1] = m
      /\ \A i \in DOMAIN q : posted[i] = q[i]
  BY PostedQueue
<1> HIDE DEF n, posted
<1>2. n + 1 \in DOMAIN posted /\ \A i \in DOMAIN posted : ~(i > n + 1)
  BY <1>1
<1>3. \A i \in DOMAIN posted : i \in DOMAIN q \/ i = n + 1
  BY <1>1
<1>4. CASE IsStatus(m) /\ m.value # "connected"
  <2>1. NotConnected(posted, connected)
    BY <1>1, <1>2, <1>4 DEF NotConnected
  <2> QED BY <2>1 DEF posted
<1>5. CASE ~IsStatus(m) /\ NotConnected(q, connected)
  <2>1. CASE ~connected /\ \A i \in DOMAIN q : ~IsStatus(q[i])
    <3>1. NotConnected(posted, connected)
      BY <1>1, <1>3, <1>5, <2>1 DEF NotConnected
    <3> QED BY <3>1 DEF posted
  <2>2. ASSUME NEW j \in DOMAIN q, IsStatus(q[j]), q[j].value # "connected",
               \A i \in DOMAIN q : i > j => ~IsStatus(q[i])
        PROVE  NotConnected(Append(q, m), connected)
    <3>1. j \in DOMAIN posted
      BY <1>1
    <3>2. \A i \in DOMAIN posted : i > j => ~IsStatus(posted[i])
      BY <1>1, <1>3, <1>5, <2>2
    <3>3. NotConnected(posted, connected)
      BY <1>1, <2>2, <3>1, <3>2 DEF NotConnected
    <3> QED BY <3>3 DEF posted
  <2> QED BY <1>5, <2>1, <2>2 DEF NotConnected
<1> QED BY <1>4, <1>5

(* Delivering: a status is then the last one delivered.                    *)
LEMMA ServedNotConnected ==
  ASSUME NEW q \in Seq(Messages), q # <<>>, NEW connected,
         NotConnected(q, connected)
  PROVE  /\ ~IsStatus(Head(q)) => NotConnected(Tail(q), connected)
         /\ IsStatus(Head(q)) =>
              NotConnected(Tail(q), Head(q).value = "connected")
<1> DEFINE n == Len(q)
           served == Tail(q)
<1>1. /\ DOMAIN q = 1..n /\ n \in Nat \ {0}
      /\ DOMAIN served = 1..(n - 1)
      /\ \A i \in 1..(n - 1) : served[i] = q[i + 1]
      /\ Head(q) = q[1]
  BY ServedQueue
<1> HIDE DEF n, served
<1>2. \A i \in DOMAIN served : i + 1 \in DOMAIN q /\ served[i] = q[i + 1] /\ i + 1 > 1
  BY <1>1
<1>3. CASE ~connected /\ \A i \in DOMAIN q : ~IsStatus(q[i])
  <2>1. ~IsStatus(Head(q))
    BY <1>1, <1>3
  <2>2. NotConnected(served, connected)
    BY <1>2, <1>3 DEF NotConnected
  <2> QED BY <2>1, <2>2 DEF served
<1>4. ASSUME NEW j \in DOMAIN q, IsStatus(q[j]), q[j].value # "connected",
             \A i \in DOMAIN q : i > j => ~IsStatus(q[i])
      PROVE  /\ ~IsStatus(Head(q)) => NotConnected(Tail(q), connected)
             /\ IsStatus(Head(q)) =>
                  NotConnected(Tail(q), Head(q).value = "connected")
  <2>1. CASE j = 1
    <3>1. \A i \in DOMAIN served : ~IsStatus(served[i])
      BY <1>2, <1>4, <2>1
    <3>2. ~(Head(q).value = "connected") /\ IsStatus(Head(q))
      BY <1>1, <1>4, <2>1
    <3>3. NotConnected(served, Head(q).value = "connected")
      BY <3>1, <3>2 DEF NotConnected
    <3> QED BY <3>2, <3>3 DEF served
  <2>2. CASE j # 1
    <3>1. j - 1 \in DOMAIN served /\ served[j - 1] = q[j]
      <4>1. j - 1 \in 1..(n - 1) /\ (j - 1) + 1 = j
        BY <1>1, <2>2
      <4> QED BY <1>1, <4>1
    <3>2. \A i \in DOMAIN served : i > j - 1 => ~IsStatus(served[i])
      <4> SUFFICES ASSUME NEW i \in DOMAIN served, i > j - 1
                   PROVE  ~IsStatus(served[i])
        OBVIOUS
      <4>1. i + 1 > j
        BY <1>1
      <4> QED BY <1>2, <1>4, <4>1
    <3>3. \A c : NotConnected(served, c)
      BY <1>4, <3>1, <3>2 DEF NotConnected
    <3> QED BY <3>3 DEF served
  <2> QED BY <2>1, <2>2
<1> QED BY <1>3, <1>4 DEF NotConnected

(* Without late detections nothing is left to disturb a paused activity,   *)
(* and none comes before the statuses that say that no box is connected.   *)
LEMMA QueueStep ==
  ASSUME TypeOK, MainInv, QueueInv, [Next]_vars
  PROVE  QueueInv'
<1>0. /\ saved \in Seq(Pool) /\ queue \in Seq(Messages) /\ late \in Nat
      /\ resumed \in BOOLEAN /\ sniffing \in BOOLEAN
      /\ phase \in {"closed", "open", "closing", "ended"}
  BY DEF TypeOK
<1>n. "none" \notin Connectable
  BY ActivityAssumption
<1> DEFINE Clean(q) == \A i \in DOMAIN q : IsStatus(q[i])
           Sorted(q) == \A i, j \in DOMAIN q : i < j /\ IsStatus(q[j]) => IsStatus(q[i])
<1>c. \A q : Clean(q) => Sorted(q)
  OBVIOUS
<1>q. /\ sniffing => resumed
      /\ (late = 0 /\ ~sniffing) => Clean(queue)
      /\ phase \in {"closed", "ended"} => NotConnected(queue, mConnected)
      /\ (late = 0 /\ active = "none") => Sorted(queue)
      /\ (late = 0 /\ ~resumed) => target = "none"
      /\ (late = 0 /\ ~resumed /\ ui = "ready") => active = "none" /\ phase = "closed"
      /\ late = 0 => ~crashed
  BY DEF QueueInv, QuietWhenPaused, NoNullPaint
<1>p. ASSUME /\ sniffing' => resumed'
             /\ (late' = 0 /\ ~sniffing') => Clean(queue')
             /\ phase' \in {"closed", "ended"} => NotConnected(queue', mConnected')
             /\ (late' = 0 /\ active' = "none") => Sorted(queue')
             /\ (late' = 0 /\ ~resumed') => target' = "none"
             /\ (late' = 0 /\ ~resumed' /\ ui' = "ready")
                  => active' = "none" /\ phase' = "closed"
             /\ late' = 0 => ~crashed'
      PROVE  QueueInv'
  BY <1>p DEF QueueInv, QuietWhenPaused, NoNullPaint
<1>m. /\ ui = "ready" => target = "none" /\ phase \in {"closed", "open"}
      /\ ui = "disconnect" => phase \in {"closing", "ended"}
      /\ ui = "connect" => phase = "closed"
      /\ active = "none" => phase = "closed"
      /\ (ui # "ready" /\ target = "none") => ~resumed /\ ~listed
  BY DEF MainInv
<1> HIDE DEF Clean, Sorted
<1>2. CASE Return
  BY <1>2, <1>p, <1>q DEF Return, Joined
<1>3. CASE Connect
  <2>1. /\ ui = "connect" /\ target # "none" /\ active' = target
        /\ sniffing' = resumed /\ target' = "none"
        /\ UNCHANGED <<resumed, mConnected, queue, crashed, late>>
    BY <1>3 DEF Connect
  <2>2. phase = "closed"
    BY <1>m, <2>1
  <2>3. late = 0 => resumed
    BY <1>q, <2>1
  <2> QED BY <1>p, <1>q, <2>1, <2>2, <2>3
<1>4. CASE Disconnected
  BY <1>4, <1>c, <1>m, <1>p, <1>q DEF Disconnected
<1>5. CASE DeliverStatus
  <2>1. /\ queue # <<>> /\ IsStatus(Head(queue)) /\ queue' = Tail(queue)
        /\ mConnected' = (Head(queue).value = "connected")
        /\ UNCHANGED <<resumed, active, ui, target, phase, sniffing, crashed, late>>
    BY <1>5 DEF DeliverStatus
  <2>2. phase \in {"closed", "ended"} => NotConnected(queue', mConnected')
    BY <1>0, <1>q, <2>1, ServedNotConnected
  <2>3. /\ Clean(queue) => Clean(queue')
        /\ Sorted(queue) => Sorted(queue')
    <3> DEFINE n == Len(queue)
    <3>1. /\ DOMAIN queue = 1..n /\ n \in Nat \ {0} /\ DOMAIN queue' = 1..(n - 1)
          /\ \A i \in 1..(n - 1) : queue'[i] = queue[i + 1]
      BY <1>0, <2>1, ServedQueue
    <3> HIDE DEF n
    <3>2. \A i \in DOMAIN queue' : i + 1 \in DOMAIN queue /\ queue'[i] = queue[i + 1]
      BY <3>1
    <3>3. \A i, j \in DOMAIN queue' : i < j => i + 1 < j + 1
      BY <3>1
    <3> QED BY <3>2, <3>3 DEF Clean, Sorted
  <2> QED BY <1>p, <1>q, <2>1, <2>2, <2>3
<1>6. CASE Exit
  <2>1. /\ queue' = Append(queue, Status("EXIT")) /\ phase = "closing"
        /\ UNCHANGED <<resumed, active, ui, target, sniffing, crashed, late, mConnected>>
    BY <1>6 DEF Exit
  <2>2. /\ Status("EXIT") \in Messages /\ IsStatus(Status("EXIT"))
        /\ Status("EXIT").value # "connected"
    BY DEF Status, IsStatus, Messages
  <2>3. NotConnected(queue', mConnected')
    BY <1>0, <2>1, <2>2, PostedNotConnected
  <2>4. Clean(queue) => Clean(queue')
    <3>1. \A i \in DOMAIN queue' :
            (i \in DOMAIN queue /\ queue'[i] = queue[i]) \/ queue'[i] = Status("EXIT")
      BY <1>0, <2>1, <2>2, PostedQueue
    <3> QED BY <2>2, <3>1 DEF Clean
  <2> QED BY <1>m, <1>p, <1>q, <2>1, <2>3, <2>4
<1>7. ASSUME NEW text \in Texts, Report(text) PROVE QueueInv'
  <2>1. /\ queue' = Append(queue, Status(text)) /\ phase \in {"open", "closing"}
        /\ UNCHANGED <<resumed, active, ui, target, phase, sniffing, crashed, late,
                       mConnected>>
    BY <1>7 DEF Report
  <2>2. Status(text) \in Messages /\ IsStatus(Status(text))
    BY DEF Status, IsStatus, Messages
  <2>3. Clean(queue) => Clean(queue')
    <3>1. \A i \in DOMAIN queue' :
            (i \in DOMAIN queue /\ queue'[i] = queue[i]) \/ queue'[i] = Status(text)
      BY <1>0, <2>1, <2>2, PostedQueue
    <3> QED BY <2>2, <3>1 DEF Clean
  <2> QED BY <1>m, <1>p, <1>q, <2>1, <2>3
<1>8. ASSUME NEW endpoint \in Endpoints, Detect(endpoint) PROVE QueueInv'
  <2> DEFINE m == Detected(endpoint)
             n == Len(queue)
  <2>1. /\ queue' = Append(queue, m)
        /\ (late' = late /\ sniffing) \/ late' = late + 1
        /\ UNCHANGED <<resumed, active, ui, target, phase, sniffing, crashed, mConnected>>
    BY <1>8 DEF Detect
  <2>2. m \in Messages /\ ~IsStatus(m)
    BY DEF Detected, IsStatus, Messages
  <2>3. late' = 0 => late = 0 /\ sniffing
    BY <1>0, <2>1
  <2>4. /\ DOMAIN queue' = 1..(n + 1) /\ DOMAIN queue = 1..n /\ n \in Nat
        /\ queue'[n + 1] = m /\ \A i \in DOMAIN queue : queue'[i] = queue[i]
    BY <1>0, <2>1, <2>2, PostedQueue
  <2> HIDE DEF m, n
  <2>5. phase \in {"closed", "ended"} => NotConnected(queue', mConnected')
    BY <1>0, <1>q, <2>1, <2>2, PostedNotConnected
  <2>6. Sorted(queue) => Sorted(queue')
    <3>1. \A i, j \in DOMAIN queue' : i < j =>
            i \in DOMAIN queue /\ (j \in DOMAIN queue \/ j = n + 1)
      BY <2>4
    <3> QED BY <2>2, <2>4, <3>1 DEF Sorted
  <2> QED BY <1>p, <1>q, <2>1, <2>3, <2>5, <2>6
<1>9. CASE Restart
  <2>1. /\ queue' = <<>> /\ resumed' = FALSE /\ sniffing' = FALSE /\ crashed' = FALSE
        /\ active' = "none" /\ mConnected' = FALSE /\ target' = "none"
        /\ phase' = "closed"
    BY <1>9 DEF Restart
  <2>2. Clean(queue') /\ Sorted(queue') /\ NotConnected(queue', mConnected')
    BY <2>1 DEF Clean, Sorted, NotConnected
  <2> QED BY <1>p, <2>1, <2>2
<1>10. CASE Resume
  <2>1. /\ resumed' = TRUE /\ ~resumed
        /\ UNCHANGED <<active, mConnected, queue, crashed, late>>
        /\ phase' \in {phase, "closing"}
    BY <1>10 DEF Resume, Switch
  <2> QED BY <1>p, <1>q, <2>1
<1>11. CASE Pause
  <2>1. /\ resumed' = FALSE /\ sniffing' = FALSE /\ queue' = Statuses(queue)
        /\ target' = "none" /\ ui' # "ready" /\ phase' \in {phase, "closing"}
        /\ UNCHANGED <<active, mConnected, crashed, late>>
    BY <1>11 DEF Pause, DropDetections, Switch
  <2>2. /\ Clean(queue')
        /\ NotConnected(queue, mConnected) => NotConnected(queue', mConnected)
    BY <1>0, <2>1, StatusesKept DEF Clean
  <2> QED BY <1>c, <1>p, <1>q, <2>1, <2>2
<1>12. ASSUME NEW endpoint, Select(endpoint) PROVE QueueInv'
  <2>1. /\ resumed = TRUE /\ phase' \in {phase, "closing"}
        /\ UNCHANGED <<resumed, active, mConnected, queue, sniffing, crashed, late>>
    BY <1>0, <1>12 DEF Select, ConnectFreebox, Switch
  <2> QED BY <1>p, <1>q, <2>1
<1>13. CASE DeliverDetection
  <2>1. /\ queue # <<>> /\ ~IsStatus(Head(queue)) /\ queue' = Tail(queue)
        /\ phase' \in {phase, "closing"} /\ ui = "ready"
        /\ UNCHANGED <<resumed, active, sniffing, late, mConnected>>
    BY <1>13 DEF DeliverDetection, ConnectFreebox, Switch, Ready
  <2> DEFINE n == Len(queue)
  <2>2. /\ DOMAIN queue = 1..n /\ n \in Nat \ {0} /\ DOMAIN queue' = 1..(n - 1)
        /\ \A i \in 1..(n - 1) : queue'[i] = queue[i + 1]
        /\ Head(queue) = queue[1]
    BY <1>0, <2>1, ServedQueue
  <2> HIDE DEF n
  <2>3. \A i \in DOMAIN queue' : i + 1 \in DOMAIN queue /\ queue'[i] = queue[i + 1]
    BY <2>2
  <2>4. Sorted(queue) => Sorted(queue')
    <3>1. \A i, j \in DOMAIN queue' : i < j => i + 1 < j + 1
      BY <2>2
    <3> QED BY <2>3, <3>1 DEF Sorted
  <2>5. phase \in {"closed", "ended"} => NotConnected(queue', mConnected)
    BY <1>0, <1>q, <2>1, ServedNotConnected
  <2>6. late = 0 => sniffing /\ resumed
    <3>1. 1 \in DOMAIN queue
      BY <2>2
    <3>2. ~Clean(queue)
      BY <2>1, <2>2, <3>1 DEF Clean
    <3> QED BY <1>q, <3>2
  <2>7. late = 0 => ~crashed'
    <3>1. CASE ~mConnected
      BY <1>13, <1>q, <3>1 DEF DeliverDetection
    <3>2. CASE mConnected /\ active # "none"
      BY <1>13, <1>q, <3>2 DEF DeliverDetection
    <3>3. ASSUME mConnected, active = "none", late = 0 PROVE FALSE
      <4>1. Sorted(queue) /\ NotConnected(queue, mConnected)
        BY <1>m, <1>q, <3>3
      <4>2. \A j \in DOMAIN queue : j = 1 \/ 1 < j
        BY <2>2
      <4>3. 1 \in DOMAIN queue /\ ~IsStatus(queue[1])
        BY <2>1, <2>2
      <4>4. \A j \in DOMAIN queue : ~IsStatus(queue[j])
        BY <4>1, <4>2, <4>3 DEF Sorted
      <4> QED BY <3>3, <4>1, <4>4 DEF NotConnected
    <3> QED BY <3>1, <3>2, <3>3
  <2> QED BY <1>p, <1>q, <2>1, <2>4, <2>5, <2>6, <2>7
<1>14. CASE UNCHANGED vars
  BY <1>14, <1>p, <1>q DEF vars
<1> QED
  BY <1>2, <1>3, <1>4, <1>5, <1>6, <1>7, <1>8, <1>9, <1>10, <1>11, <1>12,
     <1>13, <1>14 DEF Next, MainNext

-----------------------------------------------------------------------------
ColorsOf(list) == {list[i].color : i \in DOMAIN list}
Shared(list) == \E i, j \in DOMAIN list : i # j /\ list[i].color = list[j].color

(* The painter knows the colors of the list; without late detections it    *)
(* knows no other while the activity is resumed, and none that is not in   *)
(* the pool while it is paused, so that a process that dies forgets none   *)
(* of them.                                                                *)
ColorInv ==
  /\ ColorsOf(mBoxes) \subseteq usedColors
  /\ late = 0 =>
       /\ resumed => usedColors \subseteq ColorsOf(mBoxes)
       /\ ~resumed => mBoxes = <<>> /\ usedColors \subseteq ColorsOf(saved)
       /\ Shared(saved) => ColorsOf(saved) = AllColors
       /\ Shared(mBoxes) => usedColors = AllColors

(* Lists with the same colors share the same ones. *)
LEMMA SameColors ==
  ASSUME NEW one, NEW other, DOMAIN one = DOMAIN other,
         \A i \in DOMAIN other : one[i].color = other[i].color
  PROVE  ColorsOf(one) = ColorsOf(other) /\ (Shared(one) <=> Shared(other))
BY DEF ColorsOf, Shared

(* A new box is painted in a color of another one only when there is no    *)
(* other left.                                                             *)
LEMMA AddedColor ==
  ASSUME mBoxes \in Seq(Boxes), usedColors \subseteq AllColors,
         NEW endpoint \in Endpoints, ColorsOf(mBoxes) \subseteq usedColors
  PROVE  LET list == AddOrUpdate(endpoint)
             used == IF Known(mBoxes, endpoint) THEN usedColors
                     ELSE usedColors \cup {FreshColor}
         IN  /\ ColorsOf(list) \subseteq used
             /\ usedColors \subseteq ColorsOf(mBoxes) => used \subseteq ColorsOf(list)
             /\ (Shared(mBoxes) => usedColors = AllColors)
                  => (Shared(list) => used = AllColors)
<1> DEFINE list == AddOrUpdate(endpoint)
           n == Len(mBoxes)
           used == IF Known(mBoxes, endpoint) THEN usedColors
                   ELSE usedColors \cup {FreshColor}
<1>0. n \in Nat /\ DOMAIN mBoxes = 1..n
  OBVIOUS
<1>1. /\ Known(mBoxes, endpoint) => DOMAIN list = 1..n
      /\ ~Known(mBoxes, endpoint) =>
           DOMAIN list = 1..(n + 1) /\ list[n + 1].color = FreshColor
      /\ \A i \in 1..n : list[i].color = mBoxes[i].color
  BY AddOrUpdateIs
<1>f. FreshColor \in AllColors /\ (FreshColor \in usedColors => usedColors = AllColors)
  BY FreshColorIs
<1> SUFFICES /\ ColorsOf(list) \subseteq used
             /\ usedColors \subseteq ColorsOf(mBoxes) => used \subseteq ColorsOf(list)
             /\ (Shared(mBoxes) => usedColors = AllColors)
                  => (Shared(list) => used = AllColors)
  OBVIOUS
<1> HIDE DEF list, n
<1>2. CASE Known(mBoxes, endpoint)
  <2>1. ColorsOf(list) = ColorsOf(mBoxes) /\ (Shared(list) <=> Shared(mBoxes))
    BY <1>0, <1>1, <1>2, SameColors
  <2> QED BY <1>2, <2>1
<1>3. CASE ~Known(mBoxes, endpoint)
  <2>0. DOMAIN list = 1..(n + 1) /\ list[n + 1].color = FreshColor
    BY <1>1, <1>3
  <2>1. n + 1 \in DOMAIN list /\ \A i \in 1..n : i \in DOMAIN list
    BY <1>0, <2>0
  <2>2. \A i \in DOMAIN list : i \in 1..n \/ i = n + 1
    BY <1>0, <2>0
  <2>3. ColorsOf(list) = ColorsOf(mBoxes) \cup {FreshColor}
    BY <1>0, <1>1, <2>0, <2>1, <2>2 DEF ColorsOf
  <2>4. used = usedColors \cup {FreshColor}
    BY <1>3
  <2>5. Shared(list) => Shared(mBoxes) \/ FreshColor \in ColorsOf(mBoxes)
    <3> SUFFICES ASSUME NEW i \in DOMAIN list, NEW j \in DOMAIN list, i # j,
                        list[i].color = list[j].color
                 PROVE  Shared(mBoxes) \/ FreshColor \in ColorsOf(mBoxes)
      BY DEF Shared
    <3>1. CASE i \in 1..n /\ j \in 1..n
      BY <1>0, <1>1, <3>1 DEF Shared
    <3>2. CASE i = n + 1 /\ j \in 1..n
      BY <1>0, <1>1, <2>0, <3>2 DEF ColorsOf
    <3>3. CASE j = n + 1 /\ i \in 1..n
      BY <1>0, <1>1, <2>0, <3>3 DEF ColorsOf
    <3> QED BY <2>2, <3>1, <3>2, <3>3
  <2> HIDE DEF used
  <2> QED BY <1>f, <2>3, <2>4, <2>5
<1> QED BY <1>2, <1>3

(* Colors are shared last, across pauses and the death of the process.     *)
LEMMA ColorStep ==
  ASSUME TypeOK, QueueInv, ColorInv, [Next]_vars
  PROVE  ColorInv'
<1>0. /\ saved \in Seq(Pool) /\ queue \in Seq(Messages) /\ mBoxes \in Seq(Boxes)
      /\ listed \in BOOLEAN /\ usedColors \subseteq AllColors /\ late \in Nat
      /\ resumed \in BOOLEAN
  BY DEF TypeOK, AllColors
<1>e. ColorsOf(<<>>) = {} /\ ~Shared(<<>>)
  BY DEF ColorsOf, Shared
<1>1. ASSUME late' = 0 => late = 0, UNCHANGED <<usedColors, saved, resumed>>,
             mBoxes' = <<>> <=> mBoxes = <<>>,
             ColorsOf(mBoxes') = ColorsOf(mBoxes), Shared(mBoxes') <=> Shared(mBoxes)
      PROVE  ColorInv'
  BY <1>1 DEF ColorInv
<1>2. CASE Return \/ Disconnected \/ DeliverStatus \/ Exit \/ UNCHANGED vars
  BY <1>1, <1>2 DEF Return, Disconnected, DeliverStatus, Exit, vars
<1>3. ASSUME NEW list, SameEndpoints(list, mBoxes), mBoxes' = list,
             \A i \in DOMAIN mBoxes : list[i].color = mBoxes[i].color,
             UNCHANGED <<usedColors, saved, resumed, late>>
      PROVE  ColorInv'
  <2>1. ColorsOf(list) = ColorsOf(mBoxes) /\ (Shared(list) <=> Shared(mBoxes))
    BY <1>3, SameColors DEF SameEndpoints
  <2>2. late = 0 /\ ~resumed => mBoxes' = <<>>
    <3> SUFFICES ASSUME late = 0, ~resumed PROVE mBoxes' = <<>>
      OBVIOUS
    <3>1. mBoxes = <<>>
      BY DEF ColorInv
    <3> QED BY <1>3, <3>1 DEF SameEndpoints
  <2> QED BY <1>3, <2>1, <2>2 DEF ColorInv
<1>4. CASE Connect
  <2>1. mBoxes' = SetFocus(mBoxes, target, TRUE)
        /\ UNCHANGED <<usedColors, saved, resumed, late>>
    BY <1>4 DEF Connect
  <2>2. /\ SameEndpoints(mBoxes', mBoxes)
        /\ \A i \in DOMAIN mBoxes : mBoxes'[i].color = mBoxes[i].color
    <3> DEFINE set == SetFocus(mBoxes, target, TRUE)
    <3>1. /\ SameEndpoints(set, mBoxes)
          /\ \A i \in DOMAIN mBoxes :
               /\ set[i].color = mBoxes[i].color
               /\ mBoxes[i].endpoint = target => set[i].focus = TRUE
               /\ mBoxes[i].endpoint # target => set[i].focus = mBoxes[i].focus
      BY <1>0, SetFocusIs, Zenon
    <3> HIDE DEF set
    <3>2. mBoxes' = set
      BY <2>1 DEF set
    <3> QED BY <3>1, <3>2
  <2> QED BY <1>3, <2>1, <2>2
<1>7. ASSUME NEW text \in Texts, Report(text) PROVE ColorInv'
  BY <1>1, <1>7 DEF Report
<1>8. ASSUME NEW endpoint \in Endpoints, Detect(endpoint) PROVE ColorInv'
  BY <1>0, <1>1, <1>8 DEF Detect
<1>9. CASE Restart
  <2>1. /\ mBoxes' = <<>> /\ usedColors' = {} /\ resumed' = FALSE
        /\ UNCHANGED <<saved, late>>
    BY <1>9 DEF Restart
  <2> QED BY <1>e, <2>1 DEF ColorInv
<1>10. CASE Resume
  <2>1. /\ mBoxes' = Recover(saved) /\ usedColors' = usedColors \cup ColorsOf(saved)
        /\ resumed' = TRUE /\ ~resumed /\ UNCHANGED <<saved, late>>
    BY <1>10 DEF Resume, ColorsOf
  <2>2. /\ ColorsOf(mBoxes') = ColorsOf(saved) /\ (Shared(mBoxes') <=> Shared(saved))
        /\ ColorsOf(saved) \subseteq AllColors
    <3>1. /\ DOMAIN Recover(saved) = DOMAIN saved
          /\ \A i \in DOMAIN saved : Recover(saved)[i].color = saved[i].color
          /\ \A i \in DOMAIN saved : saved[i].color \in AllColors
      BY <1>0, RecoverIs DEF SameEndpoints
    <3>2. ColorsOf(saved) \subseteq AllColors
      BY <3>1 DEF ColorsOf
    <3> QED BY <2>1, <3>1, <3>2, SameColors
  <2> QED BY <1>0, <2>1, <2>2 DEF ColorInv
<1>11. CASE Pause
  <2>1. /\ saved' = Save(mBoxes) /\ mBoxes' = <<>> /\ resumed /\ resumed' = FALSE
        /\ UNCHANGED <<usedColors, late>>
    BY <1>11 DEF Pause, SavedPool
  <2>2. ColorsOf(saved') = ColorsOf(mBoxes) /\ (Shared(saved') <=> Shared(mBoxes))
    <3>1. /\ DOMAIN Save(mBoxes) = DOMAIN mBoxes
          /\ \A i \in DOMAIN mBoxes : Save(mBoxes)[i].color = mBoxes[i].color
      BY <1>0, SaveIs DEF SameEndpoints
    <3> QED BY <2>1, <3>1, SameColors
  <2>3. late = 0 => usedColors = ColorsOf(mBoxes)
    BY <2>1 DEF ColorInv
  <2> QED BY <1>e, <2>1, <2>2, <2>3 DEF ColorInv
<1>12. ASSUME NEW endpoint, Select(endpoint) PROVE ColorInv'
  <2>1. mBoxes' = ReleaseFocus(mBoxes) /\ UNCHANGED <<usedColors, saved, resumed, late>>
    BY <1>12 DEF Select, ConnectFreebox
  <2>2. /\ SameEndpoints(mBoxes', mBoxes)
        /\ \A i \in DOMAIN mBoxes : mBoxes'[i].color = mBoxes[i].color
    BY <1>0, <2>1, ConnectList
  <2> QED BY <1>3, <2>1, <2>2
<1>13. CASE DeliverDetection
  <2> DEFINE endpoint == Head(queue).value
             list == AddOrUpdate(endpoint)
  <2>1. endpoint \in Endpoints
    BY <1>0, <1>13, DetectedBox DEF DeliverDetection
  <2>2. /\ usedColors' = IF Known(mBoxes, endpoint) THEN usedColors
                         ELSE usedColors \cup {FreshColor}
        /\ UNCHANGED <<saved, resumed, late>>
        /\ mBoxes' = list \/ mBoxes' = ReleaseFocus(list)
    BY <1>13 DEF DeliverDetection, ConnectFreebox
  <2>3. late = 0 => resumed
    <3>1. queue # <<>> /\ ~IsStatus(Head(queue))
      BY <1>13 DEF DeliverDetection
    <3>2. 1 \in DOMAIN queue /\ Head(queue) = queue[1]
      BY <1>0, <3>1
    <3> QED BY <3>1, <3>2 DEF QueueInv
  <2>4. list \in Seq(Boxes)
    BY <1>0, <2>1, AddOrUpdateIs
  <2>5. /\ ColorsOf(list) \subseteq usedColors'
        /\ usedColors \subseteq ColorsOf(mBoxes) => usedColors' \subseteq ColorsOf(list)
        /\ (Shared(mBoxes) => usedColors = AllColors)
             => (Shared(list) => usedColors' = AllColors)
    BY <1>0, <2>1, <2>2, AddedColor DEF ColorInv
  <2> HIDE DEF list
  <2>6. ColorsOf(mBoxes') = ColorsOf(list) /\ (Shared(mBoxes') <=> Shared(list))
    <3>1. CASE mBoxes' = list
      BY <3>1
    <3>2. CASE mBoxes' = ReleaseFocus(list)
      <4>1. /\ DOMAIN mBoxes' = DOMAIN list
            /\ \A i \in DOMAIN list : mBoxes'[i].color = list[i].color
        BY <1>0, <2>4, <3>2, ConnectList DEF SameEndpoints
      <4> QED BY <4>1, SameColors
    <3> QED BY <2>2, <3>1, <3>2
  <2> QED BY <2>2, <2>3, <2>5, <2>6 DEF ColorInv
<1> QED
  BY <1>2, <1>4, <1>7, <1>8, <1>9, <1>10, <1>11, <1>12, <1>13 DEF Next, MainNext

-----------------------------------------------------------------------------
ActivityInv ==
  TypeOK /\ MainInv /\ ListInv /\ FocusInv /\ QueueInv /\ ColorInv

(* The inductive invariant. *)
LEMMA InvCorrect == SafeSpec => []ActivityInv
<1>1. Init => ActivityInv
  <2> SUFFICES ASSUME Init PROVE ActivityInv
    OBVIOUS
  <2>0. /\ resumed = FALSE /\ mBoxes = <<>> /\ usedColors = {} /\ saved = <<>>
        /\ active = "none" /\ listed = FALSE /\ mConnected = FALSE
        /\ ui = "ready" /\ target = "none" /\ phase = "closed" /\ queue = <<>>
        /\ sniffing = FALSE /\ crashed = FALSE
        /\ late = 0 /\ lastActive = "none" /\ restarts = 0
    BY DEF Init
  <2>1. TypeOK
    <3>1. mBoxes \in Seq(Boxes) /\ saved \in Seq(Pool) /\ queue \in Seq(Messages)
      BY <2>0
    <3>2. late \in 0..MaxLate /\ restarts \in 0..MaxRestarts
      BY <2>0, ActivityAssumption
    <3> QED BY <2>0, <3>1, <3>2 DEF TypeOK
  <2>2. MainInv
    <3>1. "none" \notin Connectable
      BY ActivityAssumption
    <3> QED BY <2>0, <3>1 DEF MainInv, SessionIsActive
  <2>3. ListInv /\ FocusInv
    BY <2>0 DEF ListInv, FocusInv, Unique
  <2>4. QueueInv
    BY <2>0 DEF QueueInv, NotConnected, QuietWhenPaused, NoNullPaint
  <2>5. ColorInv
    BY <2>0 DEF ColorInv, ColorsOf, Shared
  <2> QED BY <2>1, <2>2, <2>3, <2>4, <2>5 DEF ActivityInv
<1>2. ActivityInv /\ [Next]_vars => ActivityInv'
  <2> SUFFICES ASSUME ActivityInv, [Next]_vars PROVE ActivityInv'
    OBVIOUS
  <2>1. TypeOK /\ MainInv /\ ListInv /\ FocusInv /\ QueueInv /\ ColorInv
    BY DEF ActivityInv
  <2>2. TypeOK'
    BY <2>1, TypeStep DEF ListInv
  <2>3. MainInv'
    BY <2>1, MainStep
  <2>4. ListInv'
    BY <2>1, ListStep
  <2>5. FocusInv'
    BY <2>1, FocusStep
  <2>6. QueueInv'
    BY <2>1, QueueStep
  <2>7. ColorInv'
    BY <2>1, ColorStep
  <2> QED BY <2>2, <2>3, <2>4, <2>5, <2>6, <2>7 DEF ActivityInv
<1> QED BY <1>1, <1>2, PTL DEF SafeSpec

(* Every variable keeps to its type; each box has a color of the painter.  *)
THEOREM TypeCorrect == SafeSpec => []TypeOK
<1>1. ActivityInv => TypeOK
  BY DEF ActivityInv
<1> QED BY <1>1, InvCorrect, PTL

(* Home.mBoxes and the saved pool never hold a box twice.                  *)
THEOREM NeverTwice == SafeSpec => []NoDuplicates
<1>1. ActivityInv => NoDuplicates
  BY DEF ActivityInv, ListInv, Unique, NoDuplicates
<1> QED BY <1>1, InvCorrect, PTL

(* The session in progress is always that of the active box.               *)
THEOREM SessionAlwaysActive == SafeSpec => []SessionIsActive
<1>1. ActivityInv => SessionIsActive
  BY DEF ActivityInv, MainInv
<1> QED BY <1>1, InvCorrect, PTL

(* The active box is the one that has the focus.                           *)
THEOREM FocusAlwaysFollows == SafeSpec => []FocusFollowsActive
<1>1. ActivityInv => FocusFollowsActive
  <2> SUFFICES ASSUME FocusInv, ui = "ready", listed
               PROVE  Focused = Indices(mBoxes, LAMBDA box : box.endpoint = active)
    BY DEF ActivityInv, FocusFollowsActive
  <2>1. \A i \in DOMAIN mBoxes : mBoxes[i].focus <=> mBoxes[i].endpoint = active
    BY DEF FocusInv
  <2> QED BY <2>1 DEF Focused, Indices
<1> QED BY <1>1, InvCorrect, PTL

(* onResume goes back to the box that was active at the last onPause, also *)
(* in another process.                                                     *)
THEOREM SelectionAlwaysRestored == SafeSpec => []SelectionRestored
<1>1. ActivityInv => SelectionRestored
  <2> SUFFICES ASSUME TypeOK, FocusInv, lastActive # "none"
               PROVE  FocusOf(saved) = lastActive
    BY DEF ActivityInv, SelectionRestored
  <2>1. PICK j \in DOMAIN saved : saved[j].focus /\ saved[j].endpoint = lastActive
    BY DEF FocusInv
  <2>2. saved \in Seq(Pool) /\ saved # <<>>
    BY <2>1 DEF TypeOK
  <2>3. PICK i \in DOMAIN saved :
          /\ FocusOf(saved) = saved[i].endpoint
          /\ (\E k \in DOMAIN saved : saved[k].focus) => saved[i].focus
    BY <2>2, FocusOfIs
  <2>4. saved[i].focus
    BY <2>1, <2>3
  <2>5. saved[i].endpoint = saved[j].endpoint
    BY <2>1, <2>4 DEF FocusInv
  <2> QED BY <2>1, <2>3, <2>5
<1> QED BY <1>1, InvCorrect, PTL

(* Boxes are painted in one color only when no color is left.              *)
THEOREM ColorsAlwaysSharedLast == SafeSpec => []ColorsSharedLast
<1>1. ActivityInv => ColorsSharedLast
  BY DEF ActivityInv, ColorInv, Shared, AllColors, ColorsSharedLast
<1> QED BY <1>1, InvCorrect, PTL

(* The next and the previous button are inverse.                           *)
THEOREM PreviousAlwaysUndoesNext == SafeSpec => []PreviousUndoesNext
<1>1. ActivityInv => PreviousUndoesNext
  BY PreviousOfNext DEF ActivityInv, TypeOK, ListInv
<1> QED BY <1>1, InvCorrect, PTL

(* A paused activity has no session, but for a late detection.             *)
THEOREM AlwaysQuiet == SafeSpec => []QuietWhenPaused
<1>1. ActivityInv => QuietWhenPaused
  BY DEF ActivityInv, QueueInv
<1> QED BY <1>1, InvCorrect, PTL

(* paintBoxButtons never gets a null box, but for a late detection.        *)
THEOREM NeverNull == SafeSpec => []NoNullPaint
<1>1. ActivityInv => NoNullPaint
  BY DEF ActivityInv, QueueInv
<1> QED BY <1>1, InvCorrect, PTL

-----------------------------------------------------------------------------
(* What Statuses has kept up to each place of a row of messages.           *)
Kept(row) == CHOOSE kept : kept = [i \in 0..Len(row) |-> KeptStep(row, kept, i)]

(* It is defined by what was kept up to the place before.                  *)
LEMMA KeptIs ==
  ASSUME NEW row \in Seq(Messages)
  PROVE  /\ Len(row) \in Nat
         /\ Statuses(row) = Kept(row)[Len(row)]
         /\ \A i \in 0..Len(row) : Kept(row)[i] = KeptStep(row, Kept(row), i)
<1>1. Kept(row) = [i \in 0..Len(row) |-> KeptStep(row, Kept(row), i)]
  BY KeptExists DEF Kept
<1>2. Statuses(row) = Kept(row)[Len(row)]
  BY DEF Statuses, KeptStep, Kept
<1> DEFINE kept == Kept(row)
<1>3. kept = [i \in 0..Len(row) |-> KeptStep(row, kept, i)]
  BY <1>1
<1>4. Len(row) \in Nat
  OBVIOUS
<1> HIDE DEF kept
<1>5. \A i \in 0..Len(row) : kept[i] = KeptStep(row, kept, i)
  BY <1>3
<1> QED BY <1>2, <1>4, <1>5 DEF kept

(* What is kept are messages.                                              *)
LEMMA KeptType ==
  ASSUME NEW row \in Seq(Messages)
  PROVE  \A i \in 0..Len(row) : Kept(row)[i] \in Seq(Messages)
<1> DEFINE N == Len(row)
           kept == Kept(row)
           T == {i \in 0..N : kept[i] \notin Seq(Messages)}
<1>1. N \in Nat /\ \A i \in 0..N : kept[i] = KeptStep(row, kept, i)
  BY KeptIs
<1> HIDE DEF kept
<1>2. T = {}
  <2> SUFFICES ASSUME T # {} PROVE FALSE
    OBVIOUS
  <2>1. T \subseteq Nat
    BY <1>1
  <2>2. PICK n \in T : \A m \in T : n <= m
    BY <2>1, LeastNumber
  <2>3. n \in 0..N
    OBVIOUS
  <2>4. CASE n = 0
    <3>1. kept[n] = <<>>
      BY <1>1, <2>3, <2>4 DEF KeptStep
    <3>2. kept[n] \in Seq(Messages)
      BY <3>1
    <3> QED BY <3>2
  <2>5. CASE n > 0
    <3>1. n - 1 \in 0..N /\ ~(n <= n - 1) /\ n \in 1..N /\ n # 0
      BY <1>1, <2>3, <2>5
    <3>2. n - 1 \notin T
      BY <2>2, <3>1
    <3>3. kept[n - 1] \in Seq(Messages) /\ row[n] \in Messages
      BY <3>1, <3>2
    <3>4. kept[n] = KeptStep(row, kept, n)
      BY <1>1, <2>3
    <3>5. kept[n] \in Seq(Messages)
      BY <3>1, <3>3, <3>4 DEF KeptStep
    <3> QED BY <3>5
  <2> QED BY <2>3, <2>4, <2>5
<1>3. \A i \in 0..N : kept[i] \in Seq(Messages)
  BY <1>2
<1> QED BY <1>3 DEF kept

(* No messages, no statuses; and of messages, messages.                    *)
LEMMA StatusesType ==
  /\ \A row \in Seq(Messages) : Statuses(row) \in Seq(Messages)
  /\ Statuses(<<>>) = <<>>
<1>1. ASSUME NEW row \in Seq(Messages) PROVE Statuses(row) \in Seq(Messages)
  <2>1. Len(row) \in Nat /\ Statuses(row) = Kept(row)[Len(row)]
    BY KeptIs
  <2>2. Len(row) \in 0..Len(row)
    BY <2>1
  <2> QED BY <2>1, <2>2, KeptType
<1>2. Statuses(<<>>) = <<>>
  <2>1. <<>> \in Seq(Messages) /\ Len(<<>>) = 0 /\ 0 \in 0..0
    OBVIOUS
  <2>2. Statuses(<<>>) = KeptStep(<<>>, Kept(<<>>), 0)
    BY <2>1, KeptIs
  <2> QED BY <2>2 DEF KeptStep
<1> QED BY <1>1, <1>2

(* A status that is posted is the last one, a detection is not seen.       *)
LEMMA AppendStatuses ==
  ASSUME NEW q \in Seq(Messages), NEW m \in Messages
  PROVE  Statuses(Append(q, m)) =
           IF IsStatus(m) THEN Append(Statuses(q), m) ELSE Statuses(q)
<1> DEFINE r == Append(q, m)
           N == Len(q)
           one == Kept(r)
           other == Kept(q)
           T == {i \in 0..N : one[i] # other[i]}
<1>1. /\ r \in Seq(Messages) /\ N \in Nat /\ Len(r) = N + 1 /\ r[N + 1] = m
      /\ \A i \in 1..N : r[i] = q[i]
  OBVIOUS
<1>2. /\ \A i \in 0..N + 1 : one[i] = KeptStep(r, one, i)
      /\ \A i \in 0..N : other[i] = KeptStep(q, other, i)
      /\ Statuses(r) = one[N + 1] /\ Statuses(q) = other[N]
  BY <1>1, KeptIs
<1> HIDE DEF r, one, other
<1>3. T = {}
  <2> SUFFICES ASSUME T # {} PROVE FALSE
    OBVIOUS
  <2>1. T \subseteq Nat
    BY <1>1
  <2>2. PICK n \in T : \A k \in T : n <= k
    BY <2>1, LeastNumber
  <2>3. n \in 0..N /\ n \in 0..N + 1
    BY <1>1
  <2>4. CASE n = 0
    <3>1. one[n] = <<>> /\ other[n] = <<>>
      BY <1>2, <2>3, <2>4 DEF KeptStep
    <3> QED BY <3>1
  <2>5. CASE n > 0
    <3>1. n - 1 \in 0..N /\ ~(n <= n - 1) /\ n \in 1..N /\ n # 0
      BY <1>1, <2>3, <2>5
    <3>2. n - 1 \notin T
      BY <2>2, <3>1
    <3>3. one[n - 1] = other[n - 1] /\ r[n] = q[n]
      BY <1>1, <3>1, <3>2
    <3>4. one[n] = KeptStep(r, one, n) /\ other[n] = KeptStep(q, other, n)
      BY <1>2, <2>3
    <3>5. one[n] = other[n]
      BY <3>1, <3>3, <3>4 DEF KeptStep
    <3> QED BY <3>5
  <2> QED BY <2>3, <2>4, <2>5
<1>4. one[N] = other[N]
  <2>1. N \in 0..N
    BY <1>1
  <2> QED BY <1>3, <2>1
<1>5. N + 1 \in 0..N + 1 /\ N + 1 # 0 /\ (N + 1) - 1 = N
  BY <1>1
<1>6. one[N + 1] = KeptStep(r, one, N + 1)
  BY <1>2, <1>5
<1>7. one[N + 1] = IF IsStatus(m) THEN Append(one[N], m) ELSE one[N]
  BY <1>1, <1>5, <1>6 DEF KeptStep
<1> QED BY <1>2, <1>4, <1>7 DEF r

(* What is at the start of a row that is not empty is there before the     *)
(* rest and what is added to it.                                           *)
LEMMA TailOfAppend ==
  ASSUME NEW M, NEW row \in Seq(M), NEW m \in M, row # <<>>
  PROVE  /\ Append(row, m) # <<>>
         /\ Head(Append(row, m)) = Head(row)
         /\ Tail(Append(row, m)) = Append(Tail(row), m)
<1> DEFINE N == Len(row)
           one == Tail(Append(row, m))
           other == Append(Tail(row), m)
<1>1. N \in Nat /\ N > 0
  OBVIOUS
<1>2. Append(row, m) \in Seq(M) /\ Len(Append(row, m)) = N + 1
  OBVIOUS
<1>3. Append(row, m) # <<>> /\ Head(Append(row, m)) = Head(row)
  BY <1>1, <1>2
<1>4. one \in Seq(M) /\ Len(one) = N
  BY <1>1, <1>2
<1>5. Tail(row) \in Seq(M) /\ Len(Tail(row)) = N - 1
  BY <1>1
<1>6. other \in Seq(M) /\ Len(other) = N
  BY <1>1, <1>5
<1>7. ASSUME NEW i \in 1..N PROVE one[i] = other[i]
  <2>1. one[i] = Append(row, m)[i + 1]
    BY <1>1, <1>2
  <2>2. CASE i = N
    <3>1. one[i] = m
      BY <1>1, <2>1, <2>2
    <3>2. other[i] = m
      BY <1>1, <1>5, <2>2
    <3> QED BY <3>1, <3>2
  <2>3. CASE i # N
    <3>1. i \in 1..(N - 1) /\ i + 1 \in 1..N
      BY <1>1, <2>3
    <3>2. one[i] = row[i + 1]
      BY <2>1, <3>1
    <3>3. other[i] = Tail(row)[i]
      BY <1>5, <3>1
    <3>4. Tail(row)[i] = row[i + 1]
      BY <1>1, <3>1
    <3> QED BY <3>2, <3>3, <3>4
  <2> QED BY <2>2, <2>3
<1> HIDE DEF one, other
<1>8. one = other
  BY <1>4, <1>6, <1>7
<1> QED BY <1>3, <1>8 DEF one, other

(* The oldest message, when it is a status, is the first one kept.         *)
LEMMA ServedStatuses ==
  ASSUME NEW q \in Seq(Messages), q # <<>>
  PROVE  IF IsStatus(Head(q))
           THEN /\ Statuses(q) # <<>> /\ Head(Statuses(q)) = Head(q)
                /\ Tail(Statuses(q)) = Statuses(Tail(q))
           ELSE Statuses(q) = Statuses(Tail(q))
<1> DEFINE t == Tail(q)
           N == Len(t)
           one == Kept(q)
           other == Kept(t)
           Good(i) == IF IsStatus(Head(q))
                        THEN /\ one[i + 1] # <<>> /\ Head(one[i + 1]) = Head(q)
                             /\ Tail(one[i + 1]) = other[i]
                        ELSE one[i + 1] = other[i]
           T == {i \in 0..N : ~Good(i)}
<1>1. /\ t \in Seq(Messages) /\ N \in Nat /\ Len(q) = N + 1
      /\ \A i \in 1..N : t[i] = q[i + 1] /\ t[i] \in Messages
      /\ Head(q) = q[1] /\ Head(q) \in Messages
  OBVIOUS
<1>2. /\ \A i \in 0..N + 1 : one[i] = KeptStep(q, one, i)
      /\ \A i \in 0..N : other[i] = KeptStep(t, other, i)
      /\ Statuses(q) = one[N + 1] /\ Statuses(t) = other[N]
      /\ \A i \in 0..N + 1 : one[i] \in Seq(Messages)
      /\ \A i \in 0..N : other[i] \in Seq(Messages)
  BY <1>1, KeptIs, KeptType
<1> HIDE DEF t, one, other
<1>3. T = {}
  <2> SUFFICES ASSUME T # {} PROVE FALSE
    OBVIOUS
  <2>1. T \subseteq Nat
    BY <1>1
  <2>2. PICK n \in T : \A k \in T : n <= k
    BY <2>1, LeastNumber
  <2>3. n \in 0..N /\ n + 1 \in 0..N + 1 /\ n + 1 # 0 /\ (n + 1) - 1 = n
    BY <1>1
  <2>4. one[n + 1] = IF IsStatus(q[n + 1]) THEN Append(one[n], q[n + 1]) ELSE one[n]
    <3>1. one[n + 1] = KeptStep(q, one, n + 1)
      BY <1>2, <2>3
    <3> QED BY <2>3, <3>1 DEF KeptStep
  <2>5. CASE n = 0
    <3>1. 0 \in 0..N /\ 0 \in 0..N + 1
      BY <1>1
    <3>2. one[0] = <<>> /\ other[0] = <<>>
      BY <1>2, <3>1 DEF KeptStep
    <3>3. q[n + 1] = Head(q)
      BY <1>1, <2>5
    <3>4. one[n + 1] = IF IsStatus(Head(q)) THEN <<Head(q)>> ELSE <<>>
      BY <2>4, <2>5, <3>2, <3>3
    <3>5. Good(n)
      BY <2>5, <3>2, <3>4
    <3> QED BY <3>5
  <2>6. CASE n > 0
    <3>1. n - 1 \in 0..N /\ ~(n <= n - 1) /\ n \in 1..N /\ n # 0 /\ (n - 1) + 1 = n
      BY <1>1, <2>3, <2>6
    <3>2. n - 1 \notin T
      BY <2>2, <3>1
    <3>3. Good(n - 1)
      BY <3>1, <3>2
    <3>4. other[n] = IF IsStatus(q[n + 1]) THEN Append(other[n - 1], q[n + 1])
                     ELSE other[n - 1]
      <4>1. other[n] = KeptStep(t, other, n)
        BY <1>2, <2>3
      <4> QED BY <1>1, <3>1, <4>1 DEF KeptStep
    <3>5. /\ q[n + 1] \in Messages /\ one[n] \in Seq(Messages)
          /\ other[n - 1] \in Seq(Messages)
      <4>1. n \in 0..N + 1
        BY <1>1, <2>3
      <4> QED BY <1>1, <1>2, <3>1, <4>1
    <3>6. CASE IsStatus(Head(q))
      <4>1. one[n] # <<>> /\ Head(one[n]) = Head(q) /\ Tail(one[n]) = other[n - 1]
        BY <3>1, <3>3, <3>6
      <4>2. /\ Append(one[n], q[n + 1]) # <<>>
            /\ Head(Append(one[n], q[n + 1])) = Head(one[n])
            /\ Tail(Append(one[n], q[n + 1])) = Append(Tail(one[n]), q[n + 1])
        BY <3>5, <4>1, TailOfAppend
      <4>3. Good(n)
        BY <2>4, <3>4, <3>6, <4>1, <4>2
      <4> QED BY <4>3
    <3>7. CASE ~IsStatus(Head(q))
      <4>1. one[n] = other[n - 1]
        BY <3>1, <3>3, <3>7
      <4>2. Good(n)
        BY <2>4, <3>4, <3>7, <4>1
      <4> QED BY <4>2
    <3> QED BY <3>6, <3>7
  <2> QED BY <2>3, <2>5, <2>6
<1>4. Good(N)
  <2>1. N \in 0..N
    BY <1>1
  <2> QED BY <1>3, <2>1
<1> QED BY <1>2, <1>4 DEF t

(* Statuses are all kept: removing the detections twice is as removing     *)
(* them once.                                                              *)
LEMMA StatusesAgain ==
  ASSUME NEW q \in Seq(Messages)
  PROVE  Statuses(Statuses(q)) = Statuses(q)
<1> DEFINE N == Len(q)
           kept == Kept(q)
           T == {i \in 0..N : Statuses(kept[i]) # kept[i]}
<1>1. /\ N \in Nat /\ Statuses(q) = kept[N]
      /\ \A i \in 0..N : kept[i] = KeptStep(q, kept, i)
      /\ \A i \in 0..N : kept[i] \in Seq(Messages)
  BY KeptIs, KeptType
<1> HIDE DEF kept
<1>2. T = {}
  <2> SUFFICES ASSUME T # {} PROVE FALSE
    OBVIOUS
  <2>1. T \subseteq Nat
    BY <1>1
  <2>2. PICK n \in T : \A k \in T : n <= k
    BY <2>1, LeastNumber
  <2>3. n \in 0..N
    OBVIOUS
  <2>4. CASE n = 0
    <3>1. kept[n] = <<>>
      BY <1>1, <2>3, <2>4 DEF KeptStep
    <3>2. Statuses(kept[n]) = kept[n]
      BY <3>1, StatusesType
    <3> QED BY <3>2
  <2>5. CASE n > 0
    <3>1. n - 1 \in 0..N /\ ~(n <= n - 1) /\ n \in 1..N /\ n # 0
      BY <1>1, <2>3, <2>5
    <3>2. n - 1 \notin T
      BY <2>2, <3>1
    <3>3. /\ Statuses(kept[n - 1]) = kept[n - 1]
          /\ kept[n - 1] \in Seq(Messages) /\ q[n] \in Messages
      BY <1>1, <3>1, <3>2
    <3>4. kept[n] = KeptStep(q, kept, n)
      BY <1>1, <2>3
    <3>5. kept[n] = IF IsStatus(q[n]) THEN Append(kept[n - 1], q[n]) ELSE kept[n - 1]
      BY <3>1, <3>4 DEF KeptStep
    <3>6. CASE IsStatus(q[n])
      <4>1. Statuses(Append(kept[n - 1], q[n])) = Append(Statuses(kept[n - 1]), q[n])
        BY <3>3, <3>6, AppendStatuses
      <4>2. Statuses(kept[n]) = kept[n]
        BY <3>3, <3>5, <3>6, <4>1
      <4> QED BY <4>2
    <3>7. CASE ~IsStatus(q[n])
      <4>1. Statuses(kept[n]) = kept[n]
        BY <3>3, <3>5, <3>7
      <4> QED BY <4>1
    <3> QED BY <3>6, <3>7
  <2> QED BY <2>3, <2>4, <2>5
<1>3. N \in 0..N
  BY <1>1
<1> QED BY <1>1, <1>2, <1>3

(* The texts of a row of messages; those of the queue are PostedTexts.     *)
TextsOf(row) == [i \in DOMAIN row |-> row[i].value]
Values == Texts \cup {"EXIT"} \cup Endpoints

(* They come and go with the messages. *)
LEMMA TextsAre ==
  ASSUME NEW row \in Seq(Messages)
  PROVE  /\ TextsOf(row) \in Seq(Values) /\ Len(TextsOf(row)) = Len(row)
         /\ \A i \in 1..Len(row) : TextsOf(row)[i] = row[i].value
<1>1. Len(row) \in Nat /\ DOMAIN row = 1..Len(row)
  OBVIOUS
<1>2. ASSUME NEW i \in 1..Len(row) PROVE row[i].value \in Values
  <2>1. row[i] \in Messages
    OBVIOUS
  <2> QED BY <2>1 DEF Messages, Values
<1> QED BY <1>1, <1>2 DEF TextsOf

(* A message that is posted is the last text.                              *)
LEMMA TextsAppend ==
  ASSUME NEW row \in Seq(Messages), NEW m \in Messages
  PROVE  TextsOf(Append(row, m)) = Append(TextsOf(row), m.value)
<1> DEFINE N == Len(row)
           one == TextsOf(Append(row, m))
           texts == TextsOf(row)
<1>1. /\ N \in Nat /\ Append(row, m) \in Seq(Messages) /\ Len(Append(row, m)) = N + 1
      /\ Append(row, m)[N + 1] = m
      /\ \A i \in 1..N : Append(row, m)[i] = row[i]
  OBVIOUS
<1>2. /\ one \in Seq(Values) /\ Len(one) = N + 1
      /\ \A i \in 1..(N + 1) : one[i] = Append(row, m)[i].value
  BY <1>1, TextsAre
<1>3. /\ texts \in Seq(Values) /\ Len(texts) = N
      /\ \A i \in 1..N : texts[i] = row[i].value
  BY TextsAre
<1>4. m.value \in Values
  BY DEF Messages, Values
<1> HIDE DEF one, texts
<1>5. Append(texts, m.value) \in Seq(Values) /\ Len(Append(texts, m.value)) = N + 1
  BY <1>3, <1>4
<1>6. ASSUME NEW i \in 1..(N + 1) PROVE one[i] = Append(texts, m.value)[i]
  <2>1. CASE i = N + 1
    BY <1>1, <1>2, <1>3, <1>4, <2>1
  <2>2. CASE i # N + 1
    <3>1. i \in 1..N
      BY <1>1, <2>2
    <3>2. one[i] = row[i].value
      BY <1>1, <1>2, <3>1
    <3> QED BY <1>3, <1>4, <3>1, <3>2
  <2> QED BY <2>1, <2>2
<1>7. one = Append(texts, m.value)
  BY <1>2, <1>5, <1>6
<1> QED BY <1>7 DEF one, texts

(* The oldest message is the first text.                                   *)
LEMMA TextsServed ==
  ASSUME NEW row \in Seq(Messages), row # <<>>
  PROVE  /\ TextsOf(row) # <<>> /\ Head(TextsOf(row)) = Head(row).value
         /\ TextsOf(Tail(row)) = Tail(TextsOf(row))
<1> DEFINE N == Len(row)
           one == TextsOf(Tail(row))
           texts == TextsOf(row)
<1>1. /\ N \in Nat /\ N > 0 /\ Tail(row) \in Seq(Messages) /\ Len(Tail(row)) = N - 1
      /\ Head(row) = row[1]
      /\ \A i \in 1..(N - 1) : Tail(row)[i] = row[i + 1]
  OBVIOUS
<1>2. /\ one \in Seq(Values) /\ Len(one) = N - 1
      /\ \A i \in 1..(N - 1) : one[i] = Tail(row)[i].value
  BY <1>1, TextsAre
<1>3. /\ texts \in Seq(Values) /\ Len(texts) = N
      /\ \A i \in 1..N : texts[i] = row[i].value
  BY TextsAre
<1> HIDE DEF one, texts
<1>4. texts # <<>> /\ Head(texts) = texts[1] /\ 1 \in 1..N
  BY <1>1, <1>3
<1>5. /\ Tail(texts) \in Seq(Values) /\ Len(Tail(texts)) = N - 1
      /\ \A i \in 1..(N - 1) : Tail(texts)[i] = texts[i + 1]
  BY <1>1, <1>3
<1>6. ASSUME NEW i \in 1..(N - 1) PROVE one[i] = Tail(texts)[i]
  <2>1. i + 1 \in 1..N
    BY <1>1
  <2> QED BY <1>1, <1>2, <1>3, <1>5, <2>1
<1>7. one = Tail(texts)
  BY <1>2, <1>5, <1>6
<1> QED BY <1>1, <1>3, <1>4, <1>7 DEF one, texts

-----------------------------------------------------------------------------
(* What a step must do for FreeboxSession not to see it. *)
SessionUnseen == UNCHANGED <<phase, PostedTexts, mConnected>>

(* A step that leaves the queue alone leaves the texts alone.              *)
LEMMA TextsUnseen == Statuses(queue') = Statuses(queue) => PostedTexts' = PostedTexts
BY DEF PostedTexts

(* Disconnecting, or not, as connectFreebox and disconnectFreebox begin.   *)
LEMMA SwitchRefines ==
  ASSUME NEW endpoint, Switch(phase = "open", endpoint),
         UNCHANGED <<PostedTexts, mConnected>>
  PROVE  Session!Close \/ SessionUnseen
<1>1. CASE phase = "open"
  BY <1>1 DEF Switch, Session!Close
<1>2. CASE phase # "open"
  BY <1>2 DEF Switch, SessionUnseen
<1> QED BY <1>1, <1>2

(* Each step is one that FreeboxSession allows, or is not seen by it, or   *)
(* is the death of the process, after which no session is left.            *)
LEMMA SessionStep ==
  ASSUME TypeOK, MainInv, [Next]_vars
  PROVE  Session!Next \/ (Restart /\ Session!Init') \/ SessionUnseen
<1>0. /\ saved \in Seq(Pool) /\ queue \in Seq(Messages)
      /\ ui \in {"ready", "disconnect", "connect"}
      /\ phase \in {"closed", "open", "closing", "ended"}
  BY DEF TypeOK
<1>a. /\ PostedTexts = TextsOf(Statuses(queue))
      /\ PostedTexts' = TextsOf(Statuses(queue'))
  BY DEF PostedTexts, TextsOf
<1>s. Statuses(queue) \in Seq(Messages)
  BY <1>0, StatusesType
<1>b. ASSUME NEW text \in Texts \cup {"EXIT"}, queue' = Append(queue, Status(text))
      PROVE  PostedTexts' = Append(PostedTexts, text)
  <2>1. /\ Status(text) \in Messages /\ IsStatus(Status(text))
        /\ Status(text).value = text
    BY DEF Status, IsStatus, Messages
  <2>2. Statuses(queue') = Append(Statuses(queue), Status(text))
    BY <1>0, <1>b, <2>1, AppendStatuses
  <2> QED BY <1>a, <1>s, <2>1, <2>2, TextsAppend
<1>c. UNCHANGED queue => UNCHANGED PostedTexts
  BY TextsUnseen
<1>2. CASE Return
  BY <1>2, <1>c DEF Return, Joined, Session!Next, Session!Return
<1>3. CASE Connect
  <2>1. phase = "closed"
    BY <1>3 DEF Connect, MainInv
  <2>2. CASE target \in Connectable
    BY <1>3, <1>c, <2>1, <2>2 DEF Connect, Session!Next, Session!Open
  <2>3. CASE target \notin Connectable
    BY <1>3, <1>c, <2>1, <2>3 DEF Connect, SessionUnseen
  <2> QED BY <2>2, <2>3
<1>4. CASE Disconnected
  BY <1>4, <1>c DEF Disconnected, SessionUnseen
<1>5. CASE DeliverStatus
  <2>1. queue # <<>> /\ IsStatus(Head(queue)) /\ queue' = Tail(queue)
    BY <1>5 DEF DeliverStatus
  <2>2. /\ Statuses(queue) # <<>> /\ Head(Statuses(queue)) = Head(queue)
        /\ Statuses(queue') = Tail(Statuses(queue))
    BY <1>0, <2>1, ServedStatuses
  <2>3. /\ PostedTexts # <<>> /\ Head(PostedTexts) = Head(queue).value
        /\ PostedTexts' = Tail(PostedTexts)
    BY <1>a, <1>s, <2>2, TextsServed
  <2>4. phase \in {"closed", "open"}
    BY <1>5 DEF DeliverStatus, Ready, MainInv
  <2> QED BY <1>5, <2>3, <2>4 DEF DeliverStatus, Session!Next, Session!Deliver
<1>6. CASE Exit
  <2>1. PostedTexts' = Append(PostedTexts, "EXIT")
    BY <1>6, <1>b DEF Exit
  <2> QED BY <1>6, <2>1 DEF Exit, Session!Next, Session!Exit
<1>7. ASSUME NEW text \in Texts, Report(text)
      PROVE  Session!Next
  <2>1. PostedTexts' = Append(PostedTexts, text)
    BY <1>7, <1>b DEF Report
  <2> QED BY <1>7, <2>1 DEF Report, Session!Next, Session!Report
<1>8. ASSUME NEW endpoint \in Endpoints, Detect(endpoint)
      PROVE  SessionUnseen
  <2>1. Detected(endpoint) \in Messages /\ ~IsStatus(Detected(endpoint))
    BY DEF Detected, IsStatus, Messages
  <2>2. Statuses(queue') = Statuses(queue)
    BY <1>0, <1>8, <2>1, AppendStatuses DEF Detect
  <2> QED BY <1>8, <2>2, TextsUnseen DEF Detect, SessionUnseen
<1>9. CASE Restart
  <2>1. Statuses(queue') = <<>>
    BY <1>9, StatusesType DEF Restart
  <2>2. PostedTexts' = <<>>
    BY <2>1 DEF PostedTexts
  <2> QED BY <1>9, <2>2 DEF Restart, Session!Init
<1>10. CASE Resume
  <2>1. CASE saved = <<>>
    BY <1>10, <1>c, <2>1 DEF Resume, SessionUnseen
  <2>2. CASE saved # <<>>
    <3>1. Session!Close \/ SessionUnseen
      BY <1>10, <1>c, <2>2, SwitchRefines DEF Resume
    <3> QED BY <3>1 DEF Session!Next
  <2> QED BY <2>1, <2>2
<1>11. CASE Pause
  <2>1. Statuses(queue') = Statuses(queue)
    BY <1>0, <1>11, StatusesAgain DEF Pause, DropDetections
  <2>2. Session!Close \/ SessionUnseen
    BY <1>11, <2>1, TextsUnseen, SwitchRefines DEF Pause
  <2> QED BY <2>2 DEF Session!Next
<1>12. ASSUME NEW endpoint, Select(endpoint)
       PROVE  Session!Next \/ SessionUnseen
  <2>1. Session!Close \/ SessionUnseen
    BY <1>12, <1>c, SwitchRefines DEF Select, ConnectFreebox
  <2> QED BY <2>1 DEF Session!Next
<1>13. CASE DeliverDetection
  <2>1. queue # <<>> /\ ~IsStatus(Head(queue)) /\ queue' = Tail(queue)
    BY <1>13 DEF DeliverDetection
  <2>2. Statuses(queue') = Statuses(queue)
    BY <1>0, <2>1, ServedStatuses
  <2>3. CASE mConnected
    BY <1>13, <2>2, <2>3, TextsUnseen DEF DeliverDetection, SessionUnseen
  <2>4. CASE ~mConnected
    <3>1. Session!Close \/ SessionUnseen
      BY <1>13, <2>2, <2>4, TextsUnseen, SwitchRefines
      DEF DeliverDetection, ConnectFreebox
    <3> QED BY <3>1 DEF Session!Next
  <2> QED BY <2>3, <2>4
<1>14. CASE UNCHANGED vars
  BY <1>14, <1>c DEF vars, SessionUnseen
<1> QED
  BY <1>2, <1>3, <1>4, <1>5, <1>6, <1>7, <1>8, <1>9, <1>10, <1>11, <1>12,
     <1>13, <1>14 DEF Next, MainNext

(* connectFreebox and disconnectFreebox, and the texts they are told, use  *)
(* a session as FreeboxSession allows, which RcuSession implements: it is  *)
(* opened when none is, closed before another is opened, no text is        *)
(* delivered while disconnect waits, and onPause, which drops the          *)
(* detections, drops no text.  Only the death of the process ends a        *)
(* session otherwise, and leaves none.                                     *)
THEOREM SessionsUsed ==
  SafeSpec => Session!Init
              /\ [][Session!Next \/ (Restart /\ Session!Init')]_(Session!vars)
<1>1. Init => Session!Init
  <2> SUFFICES ASSUME Init PROVE Session!Init
    OBVIOUS
  <2>1. PostedTexts = <<>>
    BY StatusesType DEF Init, PostedTexts
  <2> QED BY <2>1 DEF Init, Session!Init
<1>2. ActivityInv /\ [Next]_vars
        => [Session!Next \/ (Restart /\ Session!Init')]_(Session!vars)
  BY SessionStep DEF ActivityInv, SessionUnseen, Session!vars
<1> QED BY <1>1, <1>2, InvCorrect, PTL DEF SafeSpec

-----------------------------------------------------------------------------
(* What Fairness makes the main thread and the status thread do while the  *)
(* main thread is in disconnectFreebox or connectFreebox.                  *)
MainReady ==
  \/ ui = "disconnect" /\ Joined
  \/ ui = "connect"

ExitReady == phase = "closing" /\ ~crashed

(* The steps the two of them are from the end of connectFreebox. *)
SwitchLeft ==
  CASE ui = "disconnect" /\ phase = "closing" -> 3
    [] ui = "disconnect" /\ phase = "ended" -> 2
    [] ui = "connect" -> 1
    [] OTHER -> 0

(* disconnectFreebox and connectFreebox never wait for each other: one of  *)
(* the main thread and the status thread can go on.  And a box that is     *)
(* known while none is active is about to be: it is in connectFreebox,     *)
(* past disconnectFreebox.                                                 *)
SwitchGoesOn ==
  /\ ui # "ready" => MainReady \/ ExitReady
  /\ (resumed /\ mBoxes # <<>> /\ active = "none" /\ ~crashed) =>
       ui = "connect" /\ target # "none"

(* Whatever else happens in the meantime, only the end of the process      *)
(* keeps the main thread from its way to a box: no step sends it back, and *)
(* Return, Connect, Disconnected and Exit bring it closer.                 *)
SwitchEnds ==
  [][ui # "ready" =>
       /\ \/ SwitchLeft' < SwitchLeft
          \/ SwitchLeft' = SwitchLeft /\ target' = target
       /\ (Return \/ Connect \/ Disconnected \/ Exit) => SwitchLeft' < SwitchLeft
       /\ Connect => active' = target
    ]_vars

(* The main thread crashes between two of its turns only; and a box that   *)
(* is known is active, or the one being connected to.                      *)
SwitchInv ==
  /\ crashed => ui = "ready"
  /\ (resumed /\ mBoxes # <<>> /\ active = "none" /\ ~crashed) => target # "none"

LEMMA SwitchStep ==
  ASSUME ActivityInv, SwitchInv, [Next]_vars
  PROVE  SwitchInv'
<1>0. TypeOK /\ MainInv
  BY DEF ActivityInv
<1>1. saved \in Seq(Pool) /\ queue \in Seq(Messages) /\ crashed \in BOOLEAN
  BY <1>0 DEF TypeOK
<1>2. (ui # "ready" /\ target = "none") => ~resumed
  BY <1>0 DEF MainInv
<1> USE DEF SwitchInv
<1>3. CASE Return
  BY <1>3 DEF Return
<1>4. CASE Connect
  BY <1>4 DEF Connect
<1>5. CASE Disconnected
  BY <1>2, <1>5 DEF Disconnected
<1>6. CASE DeliverStatus
  BY <1>6 DEF DeliverStatus
<1>7. CASE Exit
  BY <1>7 DEF Exit
<1>8. ASSUME NEW text \in Texts, Report(text) PROVE SwitchInv'
  BY <1>8 DEF Report, sessionVars, homeVars
<1>9. ASSUME NEW endpoint \in Endpoints, Detect(endpoint) PROVE SwitchInv'
  BY <1>9 DEF Detect, sessionVars, homeVars
<1>10. CASE Restart
  BY <1>10 DEF Restart
<1>11. CASE Resume
  <2>1. CASE saved # <<>>
    <3>1. FocusOf(saved) # "none"
      BY <1>1, <2>1, SelectedInPool
    <3> QED BY <1>11, <2>1, <3>1 DEF Resume, Switch, Ready
  <2>2. CASE saved = <<>>
    <3>1. Recover(saved) = <<>>
      BY <2>2 DEF Recover
    <3> QED BY <1>11, <2>2, <3>1 DEF Resume, Ready
  <2> QED BY <2>1, <2>2
<1>12. CASE Pause
  BY <1>12 DEF Pause, Ready
<1>13. ASSUME NEW endpoint, Select(endpoint) PROVE SwitchInv'
  BY <1>13 DEF Select, ConnectFreebox, Ready
<1>14. CASE DeliverDetection
  <2>1. Head(queue).value # "none"
    BY <1>1, <1>14, DetectedBox DEF DeliverDetection
  <2>2. CASE mConnected
    BY <1>14, <2>2 DEF DeliverDetection, sessionVars, Ready
  <2>3. CASE ~mConnected
    BY <1>14, <2>1, <2>3 DEF DeliverDetection, ConnectFreebox, Switch, Ready
  <2> QED BY <2>2, <2>3
<1>15. CASE UNCHANGED vars
  BY <1>15 DEF vars, sessionVars, homeVars
<1> QED
  BY <1>3, <1>4, <1>5, <1>6, <1>7, <1>8, <1>9, <1>10, <1>11, <1>12, <1>13,
     <1>14, <1>15 DEF Next, MainNext

LEMMA SwitchCorrect == SafeSpec => []SwitchInv
<1>1. Init => SwitchInv
  BY DEF Init, SwitchInv
<1>2. ActivityInv /\ SwitchInv /\ [Next]_vars => SwitchInv'
  BY SwitchStep
<1> QED BY <1>1, <1>2, InvCorrect, PTL DEF SafeSpec

(* disconnectFreebox and connectFreebox go on, and lead to a box being     *)
(* active, whatever else is posted or detected in the meantime: the safety *)
(* half of BoxGetsActive, for any boxes, colors and bounds.                *)
THEOREM SwitchAlwaysGoesOn == SafeSpec => []SwitchGoesOn /\ SwitchEnds
<1>1. ActivityInv /\ SwitchInv => SwitchGoesOn
  <2> SUFFICES ASSUME ActivityInv, SwitchInv PROVE SwitchGoesOn
    OBVIOUS
  <2>1. TypeOK /\ MainInv
    BY DEF ActivityInv
  <2>2. ui # "ready" => MainReady \/ ExitReady
    BY <2>1 DEF TypeOK, MainInv, SwitchInv, MainReady, ExitReady, Joined
  <2>3. ASSUME resumed, mBoxes # <<>>, active = "none", ~crashed
        PROVE  ui = "connect" /\ target # "none"
    BY <2>1, <2>3 DEF TypeOK, MainInv, SwitchInv
  <2> QED BY <2>2, <2>3 DEF SwitchGoesOn
<1>2. ASSUME ActivityInv, [Next]_vars, ui # "ready"
      PROVE  /\ \/ SwitchLeft' < SwitchLeft
                \/ SwitchLeft' = SwitchLeft /\ target' = target
             /\ (Return \/ Connect \/ Disconnected \/ Exit) => SwitchLeft' < SwitchLeft
             /\ Connect => active' = target
  <2>0. \/ ui = "disconnect" /\ phase \in {"closing", "ended"}
        \/ ui = "connect" /\ phase = "closed"
    <3>1. ui \in {"ready", "disconnect", "connect"}
      BY <1>2 DEF ActivityInv, TypeOK
    <3>2. /\ ui = "disconnect" => phase \in {"closing", "ended"}
          /\ ui = "connect" => phase = "closed"
      BY <1>2 DEF ActivityInv, MainInv
    <3> QED BY <1>2, <3>1, <3>2
  <2>1. /\ SwitchLeft \in 0..3
        /\ ui = "disconnect" /\ phase = "closing" => SwitchLeft = 3
        /\ ui = "disconnect" /\ phase = "ended" => SwitchLeft = 2
        /\ ui = "connect" => SwitchLeft = 1
        /\ ui = "ready" => SwitchLeft = 0
    BY DEF SwitchLeft
  <2>2. /\ ui' = "disconnect" /\ phase' = "ended" => SwitchLeft' = 2
        /\ ui' = "connect" => SwitchLeft' = 1
        /\ ui' = "ready" => SwitchLeft' = 0
    BY DEF SwitchLeft
  <2>3. CASE Return
    BY <2>0, <2>1, <2>2, <2>3 DEF Return, Connect, Disconnected, Exit, Joined
  <2>4. CASE Connect
    BY <2>0, <2>1, <2>2, <2>4 DEF Connect
  <2>5. CASE Disconnected
    BY <2>0, <2>1, <2>2, <2>5 DEF Connect, Disconnected
  <2>6. CASE Exit
    BY <2>0, <2>1, <2>2, <2>6 DEF Connect, Exit
  <2>7. CASE Restart
    <3>1. ui' = "ready" /\ SwitchLeft' = 0
      BY <2>2, <2>7 DEF Restart
    <3>2. SwitchLeft > 0
      BY <2>0, <2>1
    <3>3. restarts' = restarts + 1 /\ restarts \in Nat
      BY <1>2, <2>7, ActivityAssumption DEF Restart, ActivityInv, TypeOK
    <3>4. ~Connect
      <4>1. Connect => restarts' = restarts
        BY DEF Connect, ghostVars
      <4> QED BY <3>3, <4>1
    <3> QED BY <3>1, <3>2, <3>4
  <2>8. CASE UNCHANGED <<ui, phase, target, active>>
    BY <2>0, <2>8 DEF SwitchLeft, Return, Connect, Disconnected, Exit
  <2>9. ~(DeliverStatus \/ DeliverDetection \/ Resume \/ Pause)
    BY <1>2 DEF DeliverStatus, DeliverDetection, Resume, Pause, Ready
  <2>10. \A endpoint : ~Select(endpoint)
    BY <1>2 DEF Select, Ready
  <2>11. \A text \in Texts : Report(text) => UNCHANGED <<ui, phase, target, active>>
    BY DEF Report, sessionVars
  <2>12. \A endpoint \in Endpoints :
           Detect(endpoint) => UNCHANGED <<ui, phase, target, active>>
    BY DEF Detect, sessionVars
  <2>13. (UNCHANGED vars) => UNCHANGED <<ui, phase, target, active>>
    BY DEF vars, sessionVars
  <2> QED
    BY <1>2, <2>3, <2>4, <2>5, <2>6, <2>7, <2>8, <2>9, <2>10, <2>11, <2>12, <2>13
       DEF Next, MainNext
<1> QED
  BY <1>1, <1>2, InvCorrect, SwitchCorrect, PTL DEF SafeSpec, SwitchEnds

=============================================================================
