---------------------------- MODULE ServerProofs ----------------------------
(***************************************************************************)
(* Proofs about HoneyServer: what the operations on a list, on flags and   *)
(* on the focus return, then the inductive invariant Inv, handler by       *)
(* handler.                                                                *)
(***************************************************************************)
EXTENDS ServerProperties, SequenceTheorems, WellFoundedInduction, TLAPS

-----------------------------------------------------------------------------
(* The list: its elements, and that nothing is linked twice, for every     *)
(* list.                                                                   *)

(* An element of a sequence has an index.                                  *)
LEMMA IndexOfType ==
    ASSUME NEW S, NEW s \in Seq(S), NEW e \in ToSet(s)
    PROVE  IndexOf(s, e) \in 1 .. Len(s) /\ s[IndexOf(s, e)] = e
BY DEF IndexOf, ToSet

(* RemoveAt, element by element.                                           *)
LEMMA RemoveAtType ==
    ASSUME NEW S, NEW s \in Seq(S), NEW i \in 1 .. Len(s)
    PROVE  /\ RemoveAt(s, i) \in Seq(S)
           /\ Len(RemoveAt(s, i)) = Len(s) - 1
           /\ \A j \in 1 .. Len(s) - 1 :
                 RemoveAt(s, i)[j] = IF j < i THEN s[j] ELSE s[j + 1]
<1> DEFINE a == SubSeq(s, 1, i - 1)
           b == SubSeq(s, i + 1, Len(s))
<1>1. a \in Seq(S) /\ Len(a) = i - 1 /\ \A j \in 1 .. i - 1 : a[j] = s[j]
  BY SubSeqProperties
<1>2. /\ b \in Seq(S)
      /\ Len(b) = Len(s) - i
      /\ \A j \in 1 .. Len(s) - i : b[j] = s[i + j]
  BY SubSeqProperties
<1>3. RemoveAt(s, i) = a \o b
  BY DEF RemoveAt
<1> HIDE DEF a, b
<1>4. /\ a \o b \in Seq(S)
      /\ Len(a \o b) = Len(a) + Len(b)
      /\ \A j \in 1 .. Len(a) + Len(b) :
            (a \o b)[j] = IF j <= Len(a) THEN a[j] ELSE b[j - Len(a)]
  BY <1>1, <1>2, ConcatProperties
<1> QED
  BY <1>1, <1>2, <1>3, <1>4

(* Without takes one element out of a sequence without duplicates.         *)
LEMMA WithoutType ==
    ASSUME NEW S, NEW s \in Seq(S), NoDuplicates(s), NEW e \in ToSet(s)
    PROVE  /\ Without(s, e) \in Seq(S)
           /\ NoDuplicates(Without(s, e))
           /\ ToSet(Without(s, e)) = ToSet(s) \ {e}
<1> DEFINE i == IndexOf(s, e)
           t == Without(s, e)
<1>1. i \in 1 .. Len(s) /\ s[i] = e
  BY IndexOfType
<1>2. /\ t \in Seq(S)
      /\ Len(t) = Len(s) - 1
      /\ \A j \in 1 .. Len(s) - 1 : t[j] = IF j < i THEN s[j] ELSE s[j + 1]
  BY <1>1, RemoveAtType DEF Without
<1> HIDE DEF t, i
<1>3. NoDuplicates(t)
  <2> SUFFICES ASSUME NEW j \in 1 .. Len(s) - 1, NEW k \in 1 .. Len(s) - 1,
                      t[j] = t[k]
               PROVE  j = k
    BY <1>2 DEF NoDuplicates
  <2> DEFINE p == IF j < i THEN j ELSE j + 1
             q == IF k < i THEN k ELSE k + 1
  <2>1. p \in DOMAIN s /\ q \in DOMAIN s /\ s[p] = s[q]
    BY <1>1, <1>2
  <2>2. p = q
    BY <2>1 DEF NoDuplicates
  <2> QED
    BY <1>1, <2>2
<1>4. ToSet(t) \subseteq ToSet(s) \ {e}
  BY <1>1, <1>2 DEF ToSet, NoDuplicates
<1>5. ASSUME NEW x \in ToSet(s) \ {e}
      PROVE  x \in ToSet(t)
  <2>1. PICK k \in 1 .. Len(s) : s[k] = x
    BY DEF ToSet
  <2>2. CASE k < i
    BY <1>1, <1>2, <2>1, <2>2 DEF ToSet
  <2>3. CASE k > i
    <3>1. k - 1 \in 1 .. Len(s) - 1 /\ t[k - 1] = x
      BY <1>1, <1>2, <2>1, <2>3
    <3> QED
      BY <1>2, <3>1 DEF ToSet
  <2> QED
    BY <1>1, <1>5, <2>1, <2>2, <2>3
<1> QED
  BY <1>2, <1>3, <1>4, <1>5 DEF t

(* Putting an element at the head or the tail of a list.                   *)
LEMMA ConsType ==
    ASSUME NEW S, NEW s \in Seq(S), NEW e \in S
    PROVE  /\ <<e>> \o s \in Seq(S)
           /\ ToSet(<<e>> \o s) = ToSet(s) \cup {e}
           /\ NoDuplicates(s) /\ e \notin ToSet(s) => NoDuplicates(<<e>> \o s)
<1> DEFINE t == <<e>> \o s
<1>1. /\ t \in Seq(S)
      /\ Len(t) = Len(s) + 1
      /\ t[1] = e
      /\ \A i \in 2 .. Len(s) + 1 : t[i] = s[i - 1]
  BY ConcatProperties
<1> HIDE DEF t
<1>2. ToSet(t) \subseteq ToSet(s) \cup {e}
  BY <1>1 DEF ToSet
<1>3. ASSUME NEW x \in ToSet(s) PROVE x \in ToSet(t)
  <2>1. PICK i \in 1 .. Len(s) : s[i] = x
    BY DEF ToSet
  <2>2. i + 1 \in 1 .. Len(t) /\ t[i + 1] = x
    BY <1>1, <2>1
  <2> QED
    BY <1>1, <2>2 DEF ToSet
<1>4. e \in ToSet(t)
  BY <1>1 DEF ToSet
<1>5. NoDuplicates(s) /\ e \notin ToSet(s) => NoDuplicates(t)
  BY <1>1 DEF NoDuplicates, ToSet
<1> QED
  BY <1>1, <1>2, <1>3, <1>4, <1>5 DEF t

LEMMA AppendType ==
    ASSUME NEW S, NEW s \in Seq(S), NEW e \in S
    PROVE  /\ Append(s, e) \in Seq(S)
           /\ ToSet(Append(s, e)) = ToSet(s) \cup {e}
           /\ NoDuplicates(s) /\ e \notin ToSet(s) => NoDuplicates(Append(s, e))
BY DEF ToSet, NoDuplicates

(* Swapping two linked elements.                                           *)
LEMMA SwappedType ==
    ASSUME NEW S, NEW s \in Seq(S), NEW a \in ToSet(s), NEW b \in ToSet(s)
    PROVE  /\ Swapped(s, a, b) \in Seq(S)
           /\ ToSet(Swapped(s, a, b)) = ToSet(s)
           /\ NoDuplicates(s) => NoDuplicates(Swapped(s, a, b))
BY DEF Swapped, ToSet, NoDuplicates

(* Inserting beside a linked element.                                      *)
LEMMA BesideType ==
    ASSUME NEW S, NEW s \in Seq(S), NEW e \in S, NEW v \in ToSet(s),
           NEW after \in {0, 1}
    PROVE  /\ Beside(s, v, after, e) \in Seq(S)
           /\ ToSet(Beside(s, v, after, e)) = ToSet(s) \cup {e}
           /\ NoDuplicates(s) /\ e \notin ToSet(s) =>
                 NoDuplicates(Beside(s, v, after, e))
<1> DEFINE i == IndexOf(s, v) + after
           t == Beside(s, v, after, e)
           a == SubSeq(s, 1, i - 1)
           b == SubSeq(s, i, Len(s))
<1>1. i \in 1 .. Len(s) + 1
  BY IndexOfType
<1> HIDE DEF i
<1>2. a \in Seq(S) /\ Len(a) = i - 1 /\ \A j \in 1 .. i - 1 : a[j] = s[j]
  BY <1>1, SubSeqProperties
<1>3. /\ b \in Seq(S)
      /\ Len(b) = Len(s) - i + 1
      /\ \A j \in 1 .. Len(s) - i + 1 : b[j] = s[i + j - 1]
  BY <1>1, SubSeqProperties
<1>4. t = a \o <<e>> \o b
  BY DEF Beside, InsertAt, i
<1> HIDE DEF t, a, b
<1> DEFINE c == a \o <<e>>
<1>5. /\ c \in Seq(S)
      /\ Len(c) = i
      /\ \A j \in 1 .. i - 1 : c[j] = s[j]
      /\ c[i] = e
  BY <1>1, <1>2, ConcatProperties
<1>6. /\ t \in Seq(S)
      /\ Len(t) = Len(s) + 1
      /\ \A j \in 1 .. Len(s) + 1 :
            t[j] = IF j < i THEN s[j] ELSE IF j = i THEN e ELSE s[j - 1]
  <2>1. t = c \o b
    BY <1>4
  <2> HIDE DEF c
  <2>2. /\ t \in Seq(S)
        /\ Len(t) = Len(c) + Len(b)
        /\ \A j \in 1 .. Len(c) + Len(b) :
              t[j] = IF j <= Len(c) THEN c[j] ELSE b[j - Len(c)]
    BY <1>3, <1>5, <2>1, ConcatProperties
  <2>3. ASSUME NEW j \in 1 .. Len(s) + 1
        PROVE  t[j] = IF j < i THEN s[j] ELSE IF j = i THEN e ELSE s[j - 1]
    <3>1. CASE j <= i
      BY <1>1, <1>3, <1>5, <2>2, <3>1
    <3>2. CASE j > i
      <4>1. /\ j - i \in 1 .. Len(s) - i + 1
            /\ t[j] = b[j - i]
            /\ i + (j - i) - 1 = j - 1
        BY <1>1, <1>3, <1>5, <2>2, <3>2
      <4> QED
        BY <1>1, <1>3, <3>2, <4>1
    <3> QED
      BY <1>1, <3>1, <3>2
  <2> QED
    BY <1>1, <1>3, <1>5, <2>2, <2>3
<1>7. ToSet(t) \subseteq ToSet(s) \cup {e}
  BY <1>1, <1>6 DEF ToSet
<1>8. ASSUME NEW x \in ToSet(s) PROVE x \in ToSet(t)
  <2>1. PICK k \in 1 .. Len(s) : s[k] = x
    BY DEF ToSet
  <2>2. CASE k < i
    BY <1>1, <1>6, <2>1, <2>2 DEF ToSet
  <2>3. CASE k >= i
    <3>1. k + 1 \in 1 .. Len(t) /\ t[k + 1] = x
      BY <1>1, <1>6, <2>1, <2>3
    <3> QED
      BY <1>6, <3>1 DEF ToSet
  <2> QED
    BY <1>1, <2>1, <2>2, <2>3
<1>9. e \in ToSet(t)
  BY <1>1, <1>6 DEF ToSet
<1>10. NoDuplicates(s) /\ e \notin ToSet(s) => NoDuplicates(t)
  <2> SUFFICES ASSUME NoDuplicates(s), e \notin ToSet(s),
                      NEW j \in 1 .. Len(s) + 1, NEW k \in 1 .. Len(s) + 1,
                      t[j] = t[k], j < k
               PROVE  FALSE
    BY <1>6 DEF NoDuplicates
  <2>1. \A p \in 1 .. Len(s) : s[p] # e
    BY DEF ToSet
  <2>2. \A p, q \in 1 .. Len(s) : s[p] = s[q] => p = q
    BY DEF NoDuplicates
  <2>3. CASE j = i \/ k = i
    BY <1>1, <1>6, <2>1, <2>3
  <2>4. CASE j # i /\ k # i
    <3> DEFINE p == IF j < i THEN j ELSE j - 1
               q == IF k < i THEN k ELSE k - 1
    <3>1. p \in 1 .. Len(s) /\ q \in 1 .. Len(s) /\ s[p] = s[q] /\ p < q
      BY <1>1, <1>6, <2>4
    <3> QED
      BY <2>2, <3>1
  <2> QED
    BY <2>3, <2>4
<1> QED
  BY <1>6, <1>7, <1>8, <1>9, <1>10 DEF t

-----------------------------------------------------------------------------
(* Window flags *)

(* Every operation on the flags of a window returns flags.                 *)
LEMMA FlagTypes ==
    ASSUME NEW s \in WindowStates, NEW xdg \in BOOLEAN, NEW app \in BOOLEAN,
           NEW wanted \in BOOLEAN
    PROVE  /\ NewState \in WindowStates
           /\ Cleared(s) \in WindowStates
           /\ Natural(s) \in WindowStates
           /\ Dialog(s) \in WindowStates
           /\ FloatSeed(s, xdg, app) \in WindowStates
           /\ ToggleFullscreen(s) \in WindowStates
           /\ ToggleMaximize(s) \in WindowStates
           /\ ToggleFake(s) \in WindowStates
           /\ RequestedFullscreen(s, wanted) \in WindowStates
           /\ RequestedMaximize(s, wanted) \in WindowStates
           /\ Grabbed(s) \in WindowStates
           /\ Dropped(s) \in WindowStates
           /\ Adopted(s) \in WindowStates
BY DEF WindowStates, NewState, Cleared, Natural, Dialog, FloatSeed,
       ToggleFullscreen, ToggleMaximize, ToggleFake, RequestedFullscreen,
       RequestedMaximize, Grabbed, Dropped, Adopted, IsTiled

LEMMA ToggleFloatType ==
    ASSUME NEW s \in WindowStates, NEW xdg \in BOOLEAN, NEW app \in BOOLEAN
    PROVE  ToggleFloat(s, xdg, app) \in WindowStates
BY DEF WindowStates, ToggleFloat, FloatSeed, Cleared

LEMMA RuledType ==
    ASSUME NEW s \in WindowStates, NEW kind \in RuleKinds, NEW xdg \in BOOLEAN
    PROVE  Ruled(s, kind, xdg) \in WindowStates
<1>1. CASE kind \in {"none", "default", "sized"}
  BY <1>1 DEF WindowStates, Ruled
<1>2. CASE kind \in {"float", "float-app"}
  BY <1>2 DEF WindowStates, Ruled, FloatSeed
<1>3. CASE kind \in {"tile", "suppress"}
  BY <1>3 DEF WindowStates, Ruled
<1> QED
  BY <1>1, <1>2, <1>3 DEF RuleKinds

-----------------------------------------------------------------------------
(* Focus *)

LEMMA FocusWindowType ==
    ASSUME NEW f \in Focuses, NEW w \in Windows, NEW o \in Outputs
    PROVE  /\ FocusWindow(f, w, o) \in Focuses
           /\ FocusWindow(f, w, o).output \in {f.output, o}
           /\ FocusWindow(f, w, o).window \in {f.window, w}
           /\ FocusWindow(f, w, o).layer = f.layer
BY DEF FocusWindow, GiveFocus, Focuses

LEMMA FocusOutputActiveType ==
    ASSUME NEW f \in Focuses, NEW o \in Outputs,
           NEW first \in Windows \cup {Null}
    PROVE  /\ FocusOutputActive(f, o, first) \in Focuses
           /\ FocusOutputActive(f, o, first).output = o
           /\ FocusOutputActive(f, o, first).window \in {Null, first}
           /\ FocusOutputActive(f, o, first).layer = f.layer
<1>1. CASE first = Null
  BY <1>1 DEF FocusOutputActive, Focuses
<1>2. CASE first # Null
  BY <1>2 DEF FocusOutputActive, FocusWindow, GiveFocus, Focuses
<1> QED
  BY <1>1, <1>2

(* The first element of a list in a set, if the list has one.              *)
LEMMA FirstOfType ==
    ASSUME NEW T, NEW s \in Seq(T), NEW S, Null \notin T
    PROVE  /\ FirstOf(s, S) \in (S \cap ToSet(s)) \cup {Null}
           /\ FirstOf(s, S) = Null => S \cap ToSet(s) = {}
<1> DEFINE First(i) == s[i] \in S /\ \A j \in 1 .. i - 1 : s[j] \notin S
           I == {i \in DOMAIN s : s[i] \in S}
<1>1. CASE \E i \in DOMAIN s : First(i)
  <2> DEFINE k == CHOOSE i \in DOMAIN s : First(i)
  <2>1. k \in DOMAIN s /\ s[k] \in S
    BY <1>1
  <2>2. FirstOf(s, S) = s[k]
    BY <1>1 DEF FirstOf
  <2> HIDE DEF k
  <2>3. s[k] \in T /\ s[k] \in ToSet(s)
    BY <2>1, LenProperties DEF ToSet
  <2> QED
    BY <2>1, <2>2, <2>3
<1>2. CASE ~ \E i \in DOMAIN s : First(i)
  <2>1. FirstOf(s, S) = Null
    BY <1>2 DEF FirstOf
  <2>2. ASSUME I # {} PROVE FALSE
    <3>1. I \subseteq Nat
      OBVIOUS
    <3>2. PICK i \in I : \A j \in I : ~(<<j, i>> \in OpToRel(<, Nat))
      BY <2>2, <3>1, WFMin, NatLessThanWellFounded
    <3>3. \A j \in I : ~(j < i)
      BY <3>1, <3>2 DEF OpToRel
    <3> QED
      BY <1>2, <3>3
  <2> QED
    BY <2>1, <2>2 DEF ToSet
<1> QED
  BY <1>1, <1>2

(* honey_focus_output_active focuses the output and a window in view on it *)
(* or none.                                                                *)
LEMMA FocusActiveType ==
    ASSUME NEW f \in Focuses, NEW o \in Outputs, windows' \in Seq(Windows)
    PROVE  /\ FocusActive(f, o) \in Focuses
           /\ FocusActive(f, o).output = o
           /\ FocusActive(f, o).layer = f.layer
           /\ FocusActive(f, o).window # Null =>
                 /\ FocusActive(f, o).window \in mapped'
                 /\ home'[FocusActive(f, o).window] = <<o, active'[o]>>
<1> DEFINE S == {w \in mapped' : home'[w] = <<o, active'[o]>>}
           first == FirstOf(windows', S)
<1>1. Null \notin Windows
  BY ServerAssumption
<1>2. first \in (S \cap ToSet(windows')) \cup {Null}
  BY <1>1, FirstOfType
<1>3. ToSet(windows') \subseteq Windows
  BY DEF ToSet
<1>4. first \in Windows \cup {Null}
  BY <1>2, <1>3
<1>5. FocusActive(f, o) = FocusOutputActive(f, o, first)
  BY DEF FocusActive
<1> HIDE DEF first
<1> QED
  BY <1>2, <1>4, <1>5, FocusOutputActiveType

-----------------------------------------------------------------------------
(* The inductive invariant: TypeOK needs the others, since the handlers    *)
(* dereference the focused window's workspace and take nodes off the list. *)
Inv ==
    TypeOK /\ ListOK /\ OutputsOK /\ HomesLive /\ FocusLive /\ ShownExactly

LEMMA InitInv == Init => Inv
<1> SUFFICES ASSUME Init PROVE Inv
  OBVIOUS
<1>1. ToSet(windows) = {}
  BY DEF Init, ToSet
<1>2. Builtin = Null => outputs = <<>>
  BY DEF Init
<1>3. Builtin # Null => outputs = <<Builtin>> /\ ToSet(outputs) = {Builtin}
  BY DEF Init, ToSet
<1>4. TypeOK
  <2>1. NewState \in WindowStates
    BY DEF NewState, WindowStates
  <2>2. outputs \in Seq(Outputs) /\ focus \in Focuses
    BY <1>2, <1>3, ServerAssumption DEF Init, Focuses
  <2>3. op \in Grabs /\ {0, 1} \subseteq Numbers
    BY ServerAssumption DEF Init, Grabs
  <2> QED
    BY <2>1, <2>2, <2>3 DEF Init, TypeOK
<1>5. ListOK
  BY <1>1 DEF Init, ListOK, Listed, NoDuplicates
<1>6. OutputsOK
  BY <1>2, <1>3, ServerAssumption
     DEF Init, OutputsOK, Connected, NoDuplicates, ToSet
<1>7. HomesLive /\ FocusLive /\ ShownExactly
  BY <1>1 DEF Init, HomesLive, FocusLive, ShownExactly, Listed
<1> QED
  BY <1>4, <1>5, <1>6, <1>7 DEF Inv

(* honey_arrange makes the scene show exactly what it should.              *)
LEMMA ArrangeShows ==
    ASSUME TypeOK, windows' \in Seq(Windows), Arrange
    PROVE  ShownExactly' /\ shown' \subseteq Windows
<1>1. Listed' \subseteq Windows
  BY DEF Listed, ToSet
<1> QED
  BY <1>1 DEF TypeOK, Arrange, Arranged, ShownExactly

(* The elements of the two lists.                                          *)
LEMMA ListedType ==
    ASSUME TypeOK
    PROVE  Listed \subseteq Windows /\ Connected \subseteq Outputs
<1>1. windows \in Seq(Windows) /\ outputs \in Seq(Outputs)
  BY DEF TypeOK
<1>2. Listed \subseteq Windows
  BY <1>1 DEF Listed, ToSet
<1>3. Connected \subseteq Outputs
  BY <1>1 DEF Connected, ToSet
<1> QED
  BY <1>2, <1>3

-----------------------------------------------------------------------------
(* Steps that change nothing but one part of the state *)

LEMMA CrashStep ==
    ASSUME Inv,
           NEW cause \in {"orphan", "no output", "freed output",
                          "freed window", "unlinked window"},
           Crash(cause)
    PROVE  Inv'
BY DEF Inv, Crash, TypeOK, ListOK, OutputsOK, HomesLive, FocusLive,
       ShownExactly, Visible, Listed, Connected, IsLive, windowVars,
       outputVars, layerVars

LEMMA StutterStep ==
    ASSUME Inv, UNCHANGED vars
    PROVE  Inv'
BY DEF Inv, vars, TypeOK, ListOK, OutputsOK, HomesLive, FocusLive,
       ShownExactly, Visible, Listed, Connected, IsLive, windowVars,
       outputVars, layerVars

(* What a new focus must be.                                               *)
GoodFocus(f) ==
    /\ f \in Focuses
    /\ f.output \in Connected \cup {Null}
    /\ f.output = Null => outputs = <<>>
    /\ f.window # Null => f.window \in mapped /\ IsLive(home[f.window])

LEMMA SetFocusStep ==
    ASSUME Inv, NEW f, GoodFocus(f), SetFocus(f)
    PROVE  Inv'
BY DEF Inv, GoodFocus, SetFocus, TypeOK, ListOK, OutputsOK, HomesLive,
       FocusLive, ShownExactly, Visible, Listed, Connected, IsLive,
       windowVars, outputVars, layerVars

LEMMA GoodFocusWindow ==
    ASSUME Inv, NEW w \in mapped, home[w] # Null
    PROVE  GoodFocus(FocusWindow(focus, w, home[w][1]))
<1>1. w \in Windows /\ w \in Listed
  BY DEF Inv, TypeOK, ListOK
<1>2. IsLive(home[w])
  BY <1>1 DEF Inv, HomesLive
<1>3. home[w][1] \in Connected /\ home[w][1] \in Outputs
  BY <1>2, ListedType DEF Inv, IsLive
<1>4. focus \in Focuses
  BY DEF Inv, TypeOK
<1>5. outputs = <<>> => Connected = {}
  BY DEF Connected, ToSet
<1> QED
  BY <1>1, <1>2, <1>3, <1>4, <1>5, FocusWindowType, ServerAssumption
     DEF Inv, GoodFocus, OutputsOK, FocusLive

LEMMA SetStateStep ==
    ASSUME Inv, NEW w \in Windows, NEW s \in WindowStates, SetState(w, s)
    PROVE  Inv'
<1>1. TypeOK'
  BY ArrangeShows DEF Inv, SetState, TypeOK, windowVars, outputVars, layerVars
<1>2. ShownExactly'
  BY ArrangeShows DEF Inv, SetState, TypeOK
<1> QED
  BY <1>1, <1>2
     DEF Inv, SetState, ListOK, OutputsOK, HomesLive, FocusLive, Listed,
         Connected, IsLive, outputVars, layerVars

LEMMA SetOrderStep ==
    ASSUME Inv, NEW order \in Seq(Windows), NoDuplicates(order),
           ToSet(order) = Listed, SetOrder(order)
    PROVE  Inv'
<1>1. TypeOK'
  BY ArrangeShows DEF Inv, SetOrder, TypeOK, outputVars, layerVars
<1>2. ShownExactly'
  BY ArrangeShows DEF Inv, SetOrder, TypeOK
<1> QED
  BY <1>1, <1>2
     DEF Inv, SetOrder, ListOK, OutputsOK, HomesLive, FocusLive, Listed,
         Connected, IsLive, outputVars, layerVars

-----------------------------------------------------------------------------
(* The life of a window *)

(* The focus of every handler that ends with honey_focus_output_active.    *)
LEMMA FocusActiveStep ==
    ASSUME NEW f \in Focuses, NEW o \in Outputs, windows' \in Seq(Windows),
           o \in Connected', active'[o] \in Numbers, active'[o] \in spaces'[o],
           focus' = FocusActive(f, o)
    PROVE  focus' \in Focuses /\ focus'.output = o /\ FocusLive'
<1>1. <<o, active'[o]>> \in Workspace
  BY DEF Workspace
<1>2. /\ focus' \in Focuses
      /\ focus'.output = o
      /\ focus'.window # Null => /\ focus'.window \in mapped'
                                 /\ home'[focus'.window] = <<o, active'[o]>>
  BY FocusActiveType
<1> QED
  BY <1>1, <1>2 DEF FocusLive, IsLive

(* The active workspace of a plugged output is live.                       *)
LEMMA ActiveLive ==
    ASSUME Inv, NEW o \in Connected
    PROVE  /\ o \in Outputs
           /\ active[o] \in Numbers
           /\ ActiveOf(o) \in Workspace
           /\ IsLive(ActiveOf(o))
<1>1. o \in Outputs
  BY ListedType DEF Inv
<1> QED
  BY <1>1 DEF Inv, TypeOK, OutputsOK, IsLive, ActiveOf, Workspace

(* A window takes one place in the tiling order.                           *)
LEMMA PlacedType ==
    ASSUME Inv, NEW w \in Windows, NEW c \in Configs
    PROVE  /\ Placed(w, c) \in Seq(Windows)
           /\ NoDuplicates(Placed(w, c))
           /\ ToSet(Placed(w, c)) = Listed \cup {w}
           /\ w \notin Listed => Listing(w, c) = Placed(w, c)
<1>1. windows \in Seq(Windows) /\ NoDuplicates(windows)
  BY DEF Inv, TypeOK, ListOK
<1> QED
  BY <1>1, ConsType, AppendType DEF Placed, Listing, Listed

LEMMA CreateWindowStep ==
    ASSUME Inv, NEW w \in Windows, CreateWindow(w)
    PROVE  Inv'
<1>1. NewState \in WindowStates
  BY DEF NewState, WindowStates
<1>2. TypeOK'
  BY <1>1 DEF Inv, CreateWindow, TypeOK, outputVars, layerVars
<1>3. Listed' = Listed /\ Connected' = Connected /\ w \notin Listed
  BY DEF Inv, ListOK, CreateWindow, Listed, Connected, outputVars
<1>4. \A v \in Windows \ {w} : home'[v] = home[v] /\ state'[v] = state[v]
  BY DEF Inv, CreateWindow, TypeOK
<1>5. ListOK' /\ OutputsOK'
  BY <1>3 DEF Inv, CreateWindow, ListOK, OutputsOK, outputVars
<1>6. Listed \subseteq Windows /\ mapped \subseteq Listed
  BY ListedType DEF Inv, ListOK
<1>7. HomesLive' /\ FocusLive'
  BY <1>3, <1>4, <1>6
     DEF Inv, CreateWindow, HomesLive, FocusLive, IsLive, outputVars
<1>8. ShownExactly'
  BY <1>3, <1>4, <1>6
     DEF Inv, CreateWindow, ShownExactly, Visible, outputVars
<1> QED
  BY <1>2, <1>5, <1>7, <1>8 DEF Inv

LEMMA InitialCommitStep ==
    ASSUME Inv, NEW w \in Windows, InitialCommit(w)
    PROVE  Inv'
<1>1. w \notin Listed /\ w \notin X11 /\ w \in alive
  BY DEF Inv, ListOK, InitialCommit
<1>2. Connected' = Connected
  BY DEF InitialCommit, Connected
<1>3. CASE ReserveWindow(w)
  <2>1. focus.output \in Connected
    BY <1>3 DEF Inv, OutputsOK, ReserveWindow
  <2>2. PICK c \in Configs : windows' = Placed(w, c)
    BY <1>1, <1>3, PlacedType DEF ReserveWindow
  <2>3. windows' \in Seq(Windows) /\ NoDuplicates(windows')
    BY <2>2, PlacedType
  <2>4. Listed' = Listed \cup {w}
    BY <2>2, PlacedType DEF Listed
  <2>5. home' = [home EXCEPT ![w] = ActiveOf(focus.output)]
    BY <1>3 DEF ReserveWindow
  <2>6. ShownExactly' /\ shown' \subseteq Windows
    BY <1>3, <2>3, ArrangeShows DEF Inv, ReserveWindow
  <2>7. TypeOK'
    BY <1>3, <2>1, <2>3, <2>5, <2>6, ActiveLive
       DEF Inv, InitialCommit, ReserveWindow, TypeOK, layerVars
  <2>8. ListOK' /\ OutputsOK'
    BY <1>1, <1>2, <1>3, <2>3, <2>4
       DEF Inv, InitialCommit, ReserveWindow, ListOK, OutputsOK
  <2>9. /\ home'[w] = ActiveOf(focus.output)
        /\ \A v \in Windows \ {w} : home'[v] = home[v]
    BY <2>5 DEF Inv, TypeOK
  <2>10. \A ws : IsLive(ws) => IsLive(ws)'
    BY <1>2 DEF InitialCommit, IsLive
  <2>11. HomesLive'
    BY <2>1, <2>4, <2>9, <2>10, ActiveLive, ListedType DEF Inv, HomesLive, IsLive
  <2>12. FocusLive'
    BY <1>1, <1>2, <1>3, <2>9
       DEF Inv, InitialCommit, ReserveWindow, ListOK, FocusLive, IsLive, TypeOK
  <2> QED
    BY <2>6, <2>7, <2>8, <2>11, <2>12 DEF Inv
<1>4. CASE UNCHANGED <<mapped, windows, home, state, active, shown>>
  BY <1>1, <1>4
     DEF Inv, InitialCommit, TypeOK, ListOK, OutputsOK, HomesLive, FocusLive,
         ShownExactly, Visible, Listed, Connected, IsLive, layerVars
<1> QED
  BY <1>3, <1>4 DEF InitialCommit

(* The mapping proper, for any flags of the windows.                       *)
LEMMA MapOnStep ==
    ASSUME Inv, NEW w \in alive \ mapped, w \in X11 \cup configured,
           NEW ws \in Workspace \cup {Null}, ws # Null => ws[1] \in Connected,
           NEW states \in [Windows -> WindowStates], NEW c \in Configs,
           NEW focusing \in BOOLEAN, MapOn(w, ws, states, c, focusing)
    PROVE  Inv'
<1>1. w \in Windows
  BY DEF Inv, TypeOK
<1>2. /\ windows' \in Seq(Windows)
      /\ NoDuplicates(windows')
      /\ Listed' = Listed \cup {w}
  BY <1>1, PlacedType DEF MapOn, Listed
<1>3. home'[w] = ws /\ \A v \in Windows \ {w} : home'[v] = home[v]
  BY <1>1 DEF Inv, TypeOK, MapOn
<1>4. /\ spaces' \in [Outputs -> SUBSET Numbers]
      /\ \A o \in Outputs : spaces[o] \subseteq spaces'[o]
      /\ ws # Null => ws[2] \in spaces'[ws[1]]
  BY DEF Inv, TypeOK, MapOn, Opened, Workspace
<1>5. Connected' = Connected /\ Connected \subseteq Outputs
  BY ListedType DEF Inv, MapOn, Connected
<1>6. \A x : IsLive(x) => IsLive(x)'
  BY <1>4, <1>5 DEF IsLive, Workspace
<1>7. ws # Null => IsLive(ws)'
  BY <1>4, <1>5 DEF IsLive
<1>8. /\ focus' \in Focuses
      /\ focus'.output \in Connected \cup {Null}
      /\ focus'.output = Null => focus.output = Null
      /\ focus'.window # Null =>
            focus'.window = focus.window \/ (focus'.window = w /\ ws # Null)
  <2>1. CASE focusing /\ ws # Null
    <3>1. focus' = FocusWindow(focus, w, ws[1])
      BY <2>1 DEF MapOn
    <3>2. ws[1] \in Outputs /\ ws[1] # Null
      BY <2>1, <1>5, ServerAssumption
    <3> QED
      BY <1>1, <2>1, <3>1, <3>2, FocusWindowType DEF Inv, TypeOK, OutputsOK
  <2>2. CASE ~(focusing /\ ws # Null)
    BY <2>2 DEF Inv, TypeOK, OutputsOK, MapOn
  <2> QED
    BY <2>1, <2>2
<1>9. ShownExactly' /\ shown' \subseteq Windows
  BY <1>2, ArrangeShows DEF Inv, MapOn
<1>10. TypeOK'
  BY <1>1, <1>2, <1>4, <1>8, <1>9 DEF Inv, TypeOK, MapOn, layerVars
<1>11. ListOK'
  BY <1>2 DEF Inv, ListOK, MapOn
<1>12. OutputsOK'
  BY <1>4, <1>5, <1>8 DEF Inv, OutputsOK, MapOn
<1>13. HomesLive'
  BY <1>2, <1>3, <1>6, <1>7, ListedType DEF Inv, HomesLive
<1>14. FocusLive'
  BY <1>1, <1>3, <1>6, <1>7, <1>8 DEF Inv, TypeOK, FocusLive, MapOn
<1> QED
  BY <1>9, <1>10, <1>11, <1>12, <1>13, <1>14 DEF Inv

LEMMA MapWindowStep ==
    ASSUME Inv, NEW w \in Windows, MapWindow(w)
    PROVE  Inv'
<1>1. PICK dialog \in {FALSE} \cup {w \in Dialogs}, r \in Rules, c \in Configs :
        MapWindow(w)!(dialog, r, c)
  BY DEF MapWindow
<1> DEFINE xdg == w \notin X11
           here == IF w \in Listed THEN home[w] ELSE ActiveOf(focus.output)
           ws == IF r.target # Null /\ r.target[1] \in Connected THEN r.target
                 ELSE here
           floated == IF ~dialog THEN state[w]
                      ELSE IF xdg /\ w \in Listed
                      THEN Natural(Dialog(state[w]))
                      ELSE Dialog(state[w])
           ruled == Ruled(Ruled(floated, r.first, xdg), r.second, xdg)
           states == [state EXCEPT ![w] = ruled]
           covering == {v \in Listed : /\ v \in mapped \cup {w}
                                       /\ (IF v = w THEN ws ELSE home[v]) = ws
                                       /\ IsCovering(states[v])}
           focusing == /\ c.focusNew /\ ~r.noFocus
                       /\ c.exitFullscreen \/ covering = {}
           final == IF c.exitFullscreen
                    THEN [v \in Windows |-> IF v \in covering
                                            THEN Cleared(states[v])
                                            ELSE states[v]]
                    ELSE states
<1>2. r \in Rule /\ c \in Config
  BY ServerAssumption
<1>3. CASE w \notin Listed /\ focus.output = Null
  BY <1>1, <1>3, CrashStep
<1>4. CASE \E cause \in {"orphan"} : Crash(cause)
  BY <1>4, CrashStep
<1>5. CASE ~(w \notin Listed /\ focus.output = Null)
           /\ MapOn(w, ws, final, c, focusing)
  <2>1. /\ here \in Workspace \cup {Null}
        /\ here # Null => here[1] \in Connected
    <3>1. CASE w \in Listed
      BY <3>1 DEF Inv, TypeOK, HomesLive, IsLive
    <3>2. CASE w \notin Listed
      <4>1. focus.output \in Connected
        BY <1>5, <3>2 DEF Inv, OutputsOK
      <4> QED
        BY <3>2, <4>1, ActiveLive DEF IsLive
    <3> QED
      BY <3>1, <3>2
  <2>2. ws \in Workspace \cup {Null} /\ (ws # Null => ws[1] \in Connected)
    BY <1>2, <2>1 DEF Rule
  <2>3. final \in [Windows -> WindowStates]
    <3>1. floated \in WindowStates
      BY FlagTypes DEF Inv, TypeOK
    <3>2. ruled \in WindowStates
      BY <1>2, <3>1, RuledType DEF Rule
    <3>3. states \in [Windows -> WindowStates]
      BY <3>2 DEF Inv, TypeOK
    <3> HIDE DEF states
    <3>4. \A v \in Windows : Cleared(states[v]) \in WindowStates
      BY <3>3, FlagTypes
    <3> QED
      BY <3>3, <3>4
  <2>4. focusing \in BOOLEAN
    BY <1>2 DEF Config, Rule
  <2>5. w \in alive \ mapped /\ w \in X11 \cup configured
    BY <1>1
  <2> HIDE DEF ws, final, focusing
  <2> QED
    BY <1>5, <2>2, <2>3, <2>4, <2>5, MapOnStep
<1> QED
  BY <1>1, <1>3, <1>4, <1>5

LEMMA UnmapWindowStep ==
    ASSUME Inv, NEW w \in Windows, UnmapWindow(w)
    PROVE  Inv'
<1> DEFINE o == IF home[w] # Null THEN home[w][1] ELSE focus.output
           f == IF focus.window = w THEN [focus EXCEPT !.window = Null]
                ELSE focus
<1>1. w \in Listed /\ w \in mapped
  BY DEF Inv, ListOK, UnmapWindow
<1>2. /\ windows' \in Seq(Windows)
      /\ NoDuplicates(windows')
      /\ Listed' = Listed \ {w}
  BY <1>1, WithoutType DEF Inv, TypeOK, ListOK, UnmapWindow, Listed
<1>3. Connected' = Connected /\ Connected \subseteq Outputs
  BY ListedType DEF Inv, UnmapWindow, Connected
<1>4. f \in Focuses /\ (f.window # Null => f.window \in mapped \ {w})
  BY DEF Inv, TypeOK, Focuses, FocusLive
<1>5. o \in Connected \cup {Null} /\ (o = Null => focus.output = Null)
  <2>1. CASE home[w] # Null
    <3>1. IsLive(home[w])
      BY <1>1, <2>1 DEF Inv, HomesLive
    <3>2. Null \notin Connected
      BY <1>3, ServerAssumption
    <3> QED
      BY <2>1, <3>1, <3>2 DEF IsLive
  <2>2. CASE home[w] = Null
    BY <2>2 DEF Inv, OutputsOK
  <2> QED
    BY <2>1, <2>2
<1>6. /\ focus' \in Focuses
      /\ focus'.output \in Connected \cup {Null}
      /\ focus'.output = Null => focus.output = Null
      /\ FocusLive'
  <2>1. CASE o = Null
    <3>1. focus' = f
      BY <2>1 DEF UnmapWindow
    <3>2. f.output = focus.output
      BY DEF Inv, TypeOK, Focuses
    <3>3. f.window # Null => f.window = focus.window
      BY DEF Inv, TypeOK, Focuses
    <3>4. FocusLive'
      BY <1>3, <1>4, <3>1, <3>3
         DEF Inv, UnmapWindow, FocusLive, IsLive
    <3> QED
      BY <1>4, <3>1, <3>2, <3>4 DEF Inv, OutputsOK
  <2>2. CASE o # Null
    <3>1. focus' = FocusActive(f, o) /\ o \in Connected /\ o \in Outputs
      BY <1>3, <1>5, <2>2 DEF UnmapWindow
    <3>2. active'[o] \in Numbers /\ active'[o] \in spaces'[o]
      BY <3>1 DEF Inv, TypeOK, OutputsOK, UnmapWindow
    <3> HIDE DEF o, f
    <3>3. focus' \in Focuses /\ focus'.output = o /\ FocusLive'
      BY <1>2, <1>3, <1>4, <3>1, <3>2, FocusActiveStep
    <3> QED
      BY <2>2, <3>1, <3>3
  <2> QED
    BY <2>1, <2>2
<1>7. ShownExactly' /\ shown' \subseteq Windows
  BY <1>2, ArrangeShows DEF Inv, UnmapWindow
<1>8. op' \in Grabs
  BY DEF Inv, TypeOK, UnmapWindow, Grabs
<1>9. TypeOK'
  BY <1>2, <1>6, <1>7, <1>8 DEF Inv, TypeOK, UnmapWindow, layerVars
<1>10. ListOK'
  BY <1>2 DEF Inv, ListOK, UnmapWindow
<1>11. OutputsOK'
  BY <1>3, <1>6 DEF Inv, OutputsOK, UnmapWindow
<1>12. HomesLive'
  BY <1>2, <1>3 DEF Inv, HomesLive, IsLive, UnmapWindow
<1> QED
  BY <1>6, <1>7, <1>9, <1>10, <1>11, <1>12 DEF Inv

LEMMA DestroyWindowStep ==
    ASSUME Inv, NEW w \in Windows, DestroyWindow(w)
    PROVE  Inv'
<1>1. w \notin mapped
  BY DEF DestroyWindow
<1>2. /\ windows' \in Seq(Windows)
      /\ NoDuplicates(windows')
      /\ Listed' = Listed \ {w}
  <2>1. CASE w \in Listed
    BY <2>1, WithoutType DEF Inv, TypeOK, ListOK, DestroyWindow, Listed
  <2>2. CASE w \notin Listed
    BY <2>2 DEF Inv, TypeOK, ListOK, DestroyWindow, Listed
  <2> QED
    BY <2>1, <2>2
<1>3. Connected' = Connected
  BY DEF DestroyWindow, Connected
<1>4. /\ focus' \in Focuses
      /\ focus'.output = focus.output
      /\ focus'.window = focus.window
  BY DEF Inv, TypeOK, Focuses, DestroyWindow
<1>5. NewState \in WindowStates
  BY DEF NewState, WindowStates
<1>6. \A v \in Windows \ {w} : home'[v] = home[v] /\ state'[v] = state[v]
  BY DEF Inv, TypeOK, DestroyWindow
<1>7. Listed' \subseteq Windows \ {w}
  BY <1>2, ListedType DEF Inv
<1>8. ShownExactly' /\ shown' \subseteq Windows
  <2>1. CASE w \in Listed
    BY <1>7, <2>1
       DEF Inv, TypeOK, DestroyWindow, Arranged, ShownExactly
  <2>2. CASE w \notin Listed
    <3>1. shown' = shown \ {w}
      BY <2>2 DEF DestroyWindow
    <3>2. Listed' = Listed
      BY <1>2, <2>2
    <3> QED
      BY <1>6, <1>7, <3>1, <3>2
         DEF Inv, TypeOK, DestroyWindow, ShownExactly, Visible
  <2> QED
    BY <2>1, <2>2
<1>9. TypeOK'
  BY <1>2, <1>4, <1>5, <1>8 DEF Inv, TypeOK, DestroyWindow, layerVars
<1>10. ListOK'
  BY <1>1, <1>2 DEF Inv, ListOK, DestroyWindow
<1>11. OutputsOK'
  BY <1>3, <1>4 DEF Inv, OutputsOK, DestroyWindow
<1>12. HomesLive'
  BY <1>2, <1>3, <1>6, <1>7 DEF Inv, HomesLive, IsLive, DestroyWindow
<1>13. FocusLive'
  <2>1. ASSUME focus.window # Null
        PROVE  /\ focus.window \in Windows \ {w}
               /\ focus.window \in mapped
               /\ IsLive(home[focus.window])
    BY <1>1, <2>1 DEF Inv, TypeOK, FocusLive
  <2> QED
    BY <1>3, <1>4, <1>6, <2>1 DEF FocusLive, IsLive, DestroyWindow
<1> QED
  BY <1>8, <1>9, <1>10, <1>11, <1>12, <1>13 DEF Inv

-----------------------------------------------------------------------------
(* Flags and focus *)

LEMMA FlagStep ==
    ASSUME Inv, NEW w \in Windows,
           \/ CommitSize(w) \/ ParentChanged(w) \/ RequestFullscreen(w)
           \/ RequestMaximize(w)
    PROVE  Inv'
<1>1. state[w] \in WindowStates
  BY DEF Inv, TypeOK
<1>2. CASE CommitSize(w)
  BY <1>1, <1>2, FlagTypes, CrashStep, SetStateStep DEF CommitSize
<1>3. CASE ParentChanged(w)
  <2>1. Natural(Dialog(state[w])) \in WindowStates
    BY <1>1, FlagTypes
  <2> QED
    BY <1>3, <2>1, CrashStep, SetStateStep DEF ParentChanged
<1>4. CASE RequestFullscreen(w)
  BY <1>1, <1>4, FlagTypes, SetStateStep DEF RequestFullscreen
<1>5. CASE RequestMaximize(w)
  BY <1>1, <1>5, FlagTypes, SetStateStep DEF RequestMaximize
<1> QED
  BY <1>2, <1>3, <1>4, <1>5

LEMMA ToggleStep ==
    ASSUME Inv, Toggle
    PROVE  Inv'
<1> DEFINE w == focus.window
<1>1. w \in Windows
  BY DEF Inv, TypeOK, FocusLive, Toggle
<1>2. state[w] \in WindowStates
  BY <1>1 DEF Inv, TypeOK
<1>3. ASSUME NEW c \in Configs
      PROVE  ToggleFloat(state[w], w \notin X11, c.appSize) \in WindowStates
  BY <1>2, ToggleFloatType, ServerAssumption DEF Config
<1>4. PICK s \in WindowStates : SetState(w, s)
  BY <1>2, <1>3, FlagTypes DEF Toggle
<1> HIDE DEF w
<1> QED
  BY <1>1, <1>4, SetStateStep

LEMMA ActivateWindowStep ==
    ASSUME Inv, NEW w \in Windows, ActivateWindow(w)
    PROVE  Inv'
<1>1. CASE home[w] = Null
  BY <1>1, CrashStep DEF ActivateWindow
<1>2. CASE home[w] # Null
  BY <1>2, GoodFocusWindow, SetFocusStep DEF ActivateWindow
<1> QED
  BY <1>1, <1>2

LEMMA PointerOverOutputStep ==
    ASSUME Inv, NEW o \in Outputs, PointerOverOutput(o)
    PROVE  Inv'
<1> DEFINE f == [focus EXCEPT !.output = o]
<1>1. f \in Focuses /\ f.output = o /\ f.window = focus.window
  BY DEF Inv, TypeOK, Focuses
<1>2. o # Null /\ o \in Connected
  BY ServerAssumption DEF PointerOverOutput
<1>3. GoodFocus(f)
  BY <1>1, <1>2 DEF Inv, FocusLive, GoodFocus
<1>4. SetFocus(f)
  BY DEF PointerOverOutput
<1> HIDE DEF f
<1> QED
  BY <1>3, <1>4, SetFocusStep

LEMMA FocusOnOutputStep ==
    ASSUME Inv, NEW o \in Connected, FocusOnOutput(o)
    PROVE  Inv'
<1>1. Connected' = Connected /\ o \in Outputs /\ o # Null
  BY ListedType, ServerAssumption DEF Inv, FocusOnOutput, Connected, outputVars
<1>2. /\ windows' \in Seq(Windows)
      /\ active'[o] \in Numbers
      /\ active'[o] \in spaces'[o]
  BY <1>1 DEF Inv, TypeOK, OutputsOK, FocusOnOutput, windowVars, outputVars
<1>3. focus' = FocusActive(focus, o) /\ focus \in Focuses
  BY DEF Inv, TypeOK, FocusOnOutput
<1>4. focus' \in Focuses /\ focus'.output = o /\ FocusLive'
  BY <1>1, <1>2, <1>3, FocusActiveStep
<1> QED
  BY <1>1, <1>4
     DEF Inv, FocusOnOutput, TypeOK, ListOK, OutputsOK, HomesLive,
         ShownExactly, Visible, Listed, Connected, IsLive, windowVars,
         outputVars, layerVars

LEMMA FocusNextStep ==
    ASSUME Inv, NEW d, FocusNext(d)
    PROVE  Inv'
<1> DEFINE w == focus.window
           S == MappedOn(home[w]) \ {w}
           next == Neighbour(w, S, d)
<1>1. next \in S
  BY DEF FocusNext, Neighbour
<1>2. next \in mapped /\ home[next] = home[w]
  BY <1>1 DEF MappedOn
<1>3. home[w] # Null
  <2>1. IsLive(home[w])
    BY DEF Inv, FocusLive, FocusNext
  <2> QED
    BY <2>1, ServerAssumption DEF IsLive
<1>4. SetFocus(FocusWindow(focus, next, home[next][1]))
  BY DEF FocusNext
<1> HIDE DEF next, w
<1> QED
  BY <1>2, <1>3, <1>4, GoodFocusWindow, SetFocusStep

LEMMA FocusDirectionStep ==
    ASSUME Inv, FocusDirection
    PROVE  Inv'
<1> DEFINE others == mapped \ {focus.window}
<1>1. CASE \E w \in others : home[w] = Null
  BY <1>1, CrashStep DEF FocusDirection
<1>2. ASSUME NEW w \in others, home[w] # Null,
             SetFocus(FocusWindow(focus, w, home[w][1]))
      PROVE  Inv'
  BY <1>2, GoodFocusWindow, SetFocusStep
<1>3. ASSUME NEW o \in Connected, FocusOnOutput(o)
      PROVE  Inv'
  BY <1>3, FocusOnOutputStep
<1> QED
  BY <1>1, <1>2, <1>3 DEF FocusDirection

-----------------------------------------------------------------------------
(* Workspaces *)

LEMMA ShowWorkspaceStep ==
    ASSUME Inv, NEW o \in Connected, NEW n \in Numbers, ShowWorkspace(o, n)
    PROVE  Inv'
<1>1. Connected' = Connected /\ o \in Outputs /\ o # Null
  BY ListedType, ServerAssumption DEF Inv, ShowWorkspace, Connected
<1>2. /\ spaces' \in [Outputs -> SUBSET Numbers]
      /\ n \in spaces'[o]
      /\ \A p \in Outputs : spaces[p] \subseteq spaces'[p]
  BY <1>1 DEF Inv, TypeOK, ShowWorkspace, Opened
<1>3. /\ active' \in [Outputs -> Numbers]
      /\ active'[o] = n
      /\ \A p \in Outputs \ {o} : active'[p] = active[p]
      /\ previous' \in [Outputs -> Numbers]
  BY <1>1 DEF Inv, TypeOK, ShowWorkspace
<1>4. windows' \in Seq(Windows) /\ focus \in Focuses
  BY DEF Inv, TypeOK, ShowWorkspace, windowVars
<1>5. focus' \in Focuses /\ focus'.output = o /\ FocusLive'
  BY <1>1, <1>2, <1>3, <1>4, FocusActiveStep DEF ShowWorkspace
<1>6. ShownExactly' /\ shown' \subseteq Windows
  BY <1>4, ArrangeShows DEF Inv, ShowWorkspace
<1>7. TypeOK'
  BY <1>2, <1>3, <1>5, <1>6
     DEF Inv, TypeOK, ShowWorkspace, windowVars, layerVars
<1>8. ListOK'
  BY DEF Inv, ListOK, Listed, ShowWorkspace, windowVars
<1>9. Connected \subseteq Outputs /\ outputs' = outputs
  BY ListedType DEF Inv, ShowWorkspace
<1>10. OutputsOK'
  BY <1>1, <1>2, <1>3, <1>5, <1>9 DEF Inv, OutputsOK
<1>11. HomesLive'
  BY <1>1, <1>2, <1>9
     DEF Inv, HomesLive, IsLive, Listed, ShowWorkspace, windowVars
<1> QED
  BY <1>5, <1>6, <1>7, <1>8, <1>10, <1>11 DEF Inv

LEMMA FocusedOutput ==
    ASSUME Inv, focus.output # Null
    PROVE  focus.output \in Connected
BY DEF Inv, OutputsOK

(* The workspace commands switch a plugged output to a number in use.      *)
LEMMA SwitchedTo ==
    ASSUME Inv,
           \/ \E n \in Numbers : WorkspaceCommand(n)
           \/ WorkspaceBack
           \/ \E d \in {1, -1} : WorkspaceCycle(d)
           \/ \E o \in Outputs, n \in Numbers : ExtActivate(o, n)
    PROVE  \E o \in Connected, n \in Numbers : SwitchWorkspace(o, n)
<1>1. CASE \E n \in Numbers : WorkspaceCommand(n)
  BY <1>1, FocusedOutput DEF WorkspaceCommand
<1>2. CASE WorkspaceBack
  <2>1. focus.output \in Connected /\ focus.output \in Outputs
    BY <1>2, FocusedOutput, ListedType DEF WorkspaceBack, Inv
  <2>2. previous[focus.output] \in Numbers
    BY <2>1 DEF Inv, TypeOK
  <2> QED
    BY <1>2, <2>1, <2>2 DEF WorkspaceBack
<1>3. CASE \E d \in {1, -1} : WorkspaceCycle(d)
  <2>1. PICK n \in spaces[focus.output] : SwitchWorkspace(focus.output, n)
    BY <1>3 DEF WorkspaceCycle
  <2>2. focus.output \in Connected /\ focus.output \in Outputs
    BY <1>3, FocusedOutput, ListedType DEF WorkspaceCycle, Inv
  <2>3. n \in Numbers
    BY <2>2 DEF Inv, TypeOK
  <2> QED
    BY <2>1, <2>2, <2>3
<1>4. CASE \E o \in Outputs, n \in Numbers : ExtActivate(o, n)
  BY <1>4 DEF ExtActivate
<1> QED
  BY <1>1, <1>2, <1>3, <1>4

LEMMA WorkspaceStep ==
    ASSUME Inv,
           \/ \E n \in Numbers : WorkspaceCommand(n)
           \/ WorkspaceBack
           \/ \E d \in {1, -1} : WorkspaceCycle(d)
           \/ \E o \in Outputs, n \in Numbers : ExtActivate(o, n)
    PROVE  Inv'
BY SwitchedTo, ShowWorkspaceStep DEF SwitchWorkspace

LEMMA SetWorkspaceStep ==
    ASSUME Inv, NEW o \in Outputs, NEW n \in Numbers, SetWorkspace(o, n)
    PROVE  Inv'
<1>1. /\ spaces' \in [Outputs -> SUBSET Numbers]
      /\ \A p \in Outputs : spaces[p] \subseteq spaces'[p]
  BY DEF Inv, TypeOK, SetWorkspace, Opened
<1>2. Connected' = Connected /\ Connected \subseteq Outputs
  BY ListedType DEF Inv, SetWorkspace, Connected
<1>3. ShownExactly' /\ shown' \subseteq Windows
  BY ArrangeShows DEF Inv, TypeOK, SetWorkspace, windowVars
<1>4. TypeOK'
  BY <1>1, <1>3 DEF Inv, TypeOK, SetWorkspace, windowVars, layerVars
<1>5. ListOK' /\ OutputsOK'
  BY <1>1, <1>2
     DEF Inv, ListOK, OutputsOK, Listed, SetWorkspace, windowVars
<1>6. HomesLive' /\ FocusLive'
  BY <1>1, <1>2
     DEF Inv, HomesLive, FocusLive, IsLive, Listed, SetWorkspace, windowVars
<1> QED
  BY <1>3, <1>4, <1>5, <1>6 DEF Inv

(* A listed window sent to a workspace of a plugged output, and the focus  *)
(* after it.                                                               *)
LEMMA SendWindowStep ==
    ASSUME Inv, NEW w \in mapped, NEW ws \in Workspace, ws[1] \in Connected,
           SendWindow(w, ws), focus' \in Focuses,
           focus'.output \in Connected,
           focus'.window = w \/ FocusLive'
    PROVE  Inv'
<1>1. w \in Windows /\ Listed \subseteq Windows
  BY ListedType DEF Inv, ListOK
<1>2. home'[w] = ws /\ \A v \in Windows \ {w} : home'[v] = home[v]
  BY <1>1 DEF Inv, TypeOK, SendWindow
<1>3. /\ spaces' \in [Outputs -> SUBSET Numbers]
      /\ \A p \in Outputs : spaces[p] \subseteq spaces'[p]
      /\ ws[2] \in spaces'[ws[1]]
  BY DEF Inv, TypeOK, SendWindow, Opened, Workspace
<1>4. Connected' = Connected /\ Connected \subseteq Outputs
  BY ListedType DEF Inv, SendWindow, Connected
<1>5. Listed' = Listed /\ Null \notin Connected
  BY <1>4, ServerAssumption DEF SendWindow, Listed
<1>6. ShownExactly' /\ shown' \subseteq Windows
  BY ArrangeShows DEF Inv, TypeOK, SendWindow
<1>7. TypeOK'
  BY <1>3, <1>6 DEF Inv, TypeOK, SendWindow, layerVars
<1>8. ListOK'
  BY <1>5 DEF Inv, ListOK, SendWindow
<1>9. OutputsOK'
  BY <1>3, <1>4, <1>5 DEF Inv, OutputsOK, SendWindow
<1>10. IsLive(ws)' /\ \A x : IsLive(x) => IsLive(x)'
  BY <1>3, <1>4 DEF IsLive, Workspace
<1>11. HomesLive'
  BY <1>1, <1>2, <1>5, <1>10 DEF Inv, HomesLive
<1>12. FocusLive'
  BY <1>2, <1>10 DEF FocusLive, SendWindow
<1> QED
  BY <1>6, <1>7, <1>8, <1>9, <1>11, <1>12 DEF Inv

(* The focused window is on a workspace of a plugged output.               *)
LEMMA FocusedHome ==
    ASSUME Inv, focus.window # Null
    PROVE  /\ focus.window \in mapped
           /\ focus.window \in Windows
           /\ IsLive(home[focus.window])
           /\ home[focus.window][1] \in Connected
           /\ home[focus.window][1] \in Outputs
<1>1. focus.window \in mapped /\ IsLive(home[focus.window])
  BY DEF Inv, FocusLive
<1> QED
  BY <1>1, ListedType DEF Inv, TypeOK, IsLive

LEMMA MoveToWorkspaceStep ==
    ASSUME Inv, NEW n \in Numbers, MoveToWorkspace(n)
    PROVE  Inv'
<1> DEFINE w == focus.window
           o == home[w][1]
<1>1. w \in mapped /\ o \in Connected /\ o \in Outputs
  BY FocusedHome DEF MoveToWorkspace
<1>2. SendWindow(w, <<o, n>>) /\ focus' = FocusActive(focus, o)
  BY DEF MoveToWorkspace
<1> HIDE DEF w, o
<1>3. <<o, n>> \in Workspace /\ <<o, n>>[1] = o
  BY <1>1 DEF Workspace
<1>4. /\ windows' \in Seq(Windows)
      /\ o \in Connected'
      /\ active'[o] \in Numbers
      /\ active'[o] \in spaces'[o]
  <2>1. \A p \in Outputs : spaces[p] \subseteq spaces'[p]
    BY <1>1, <1>2 DEF Inv, TypeOK, SendWindow, Opened
  <2> QED
    BY <1>1, <1>2, <2>1 DEF Inv, TypeOK, OutputsOK, SendWindow, Connected
<1>5. focus' \in Focuses /\ focus'.output = o /\ FocusLive'
  BY <1>1, <1>2, <1>4, FocusActiveStep DEF Inv, TypeOK
<1> QED
  BY <1>1, <1>2, <1>3, <1>5, SendWindowStep

LEMMA MoveToOutputStep ==
    ASSUME Inv, NEW o \in Outputs, MoveToOutput(o)
    PROVE  Inv'
<1> DEFINE w == focus.window
           f == [focus EXCEPT !.output = o]
<1>1. w \in mapped /\ w \in Windows /\ o \in Connected
  BY FocusedHome DEF MoveToOutput
<1>2. SendWindow(w, ActiveOf(o)) /\ focus' = FocusWindow(f, w, o)
  BY DEF MoveToOutput
<1>3. ActiveOf(o) \in Workspace /\ ActiveOf(o)[1] = o
  BY <1>1, ActiveLive DEF ActiveOf
<1>4. f \in Focuses /\ f.window = w /\ f.output = o
  BY DEF Inv, TypeOK, Focuses
<1> HIDE DEF w, f
<1>5. focus' \in Focuses /\ focus'.output = o /\ focus'.window = w
  BY <1>1, <1>2, <1>4, FocusWindowType
<1> QED
  BY <1>1, <1>2, <1>3, <1>5, SendWindowStep

-----------------------------------------------------------------------------
(* Tiling order and the pointer grab *)

LEMMA SwapStep ==
    ASSUME Inv, NEW a \in mapped, NEW b \in mapped,
           SetOrder(Swapped(windows, a, b))
    PROVE  Inv'
<1>1. a \in ToSet(windows) /\ b \in ToSet(windows)
  BY DEF Inv, ListOK, Listed
<1>2. /\ Swapped(windows, a, b) \in Seq(Windows)
      /\ NoDuplicates(Swapped(windows, a, b))
      /\ ToSet(Swapped(windows, a, b)) = Listed
  BY <1>1, SwappedType DEF Inv, TypeOK, ListOK, Listed
<1> QED
  BY <1>2, SetOrderStep

(* The swap commands swap two mapped windows.                              *)
LEMMA SwapOther ==
    ASSUME Inv,
           (\E d \in {1, -1} : SwapNext(d)) \/ SwapMaster \/ SwapDirection
    PROVE  \E a, b \in mapped : SetOrder(Swapped(windows, a, b))
<1> DEFINE w == focus.window
           S == TiledOn(home[w])
<1>1. w \in mapped
  BY FocusedHome DEF SwapNext, SwapMaster, SwapDirection
<1>2. S \subseteq mapped
  BY DEF TiledOn, MappedOn
<1>3. \A v, d : Neighbour(v, S \ {w}, d) \in S \cup {Null}
  BY DEF Neighbour
<1>4. FirstOf(windows, S) \in S \cup {Null}
  BY FirstOfType, ServerAssumption DEF Inv, TypeOK
<1>5. PICK other \in S : SetOrder(Swapped(windows, w, other))
  <2>1. CASE \E d \in {1, -1} : SwapNext(d)
    <3>1. PICK d \in {1, -1} : SwapNext(d)
      BY <2>1
    <3> DEFINE next == Neighbour(w, S \ {w}, d)
    <3>2. next \in S /\ SetOrder(Swapped(windows, w, next))
      BY <1>3, <3>1 DEF SwapNext
    <3> QED
      BY <3>2
  <2>2. CASE SwapMaster
    <3> DEFINE first == FirstOf(windows, S)
               second == Neighbour(w, S \ {w}, 1)
               chosen == IF first # w THEN first ELSE second
    <3>1. chosen # Null /\ SetOrder(Swapped(windows, w, chosen))
      BY <2>2 DEF SwapMaster
    <3>2. chosen \in S \cup {Null}
      BY <1>3, <1>4
    <3> HIDE DEF chosen
    <3> QED
      BY <3>1, <3>2
  <2>3. CASE SwapDirection
    BY <2>3 DEF SwapDirection
  <2> QED
    BY <2>1, <2>2, <2>3
<1> HIDE DEF w, S
<1> QED
  BY <1>1, <1>2, <1>5

LEMMA SwapCommandsStep ==
    ASSUME Inv,
           (\E d \in {1, -1} : SwapNext(d)) \/ SwapMaster \/ SwapDirection
    PROVE  Inv'
BY SwapOther, SwapStep

LEMMA BeginGrabStep ==
    ASSUME Inv, NEW w \in Windows, NEW kind \in {"move", "resize"},
           BeginGrab(w, kind)
    PROVE  Inv'
<1>1. Grabbed(state[w]) \in WindowStates /\ IsTiled(state[w]) \in BOOLEAN
  BY FlagTypes DEF Inv, TypeOK, WindowStates, IsTiled
<1>2. op' \in Grabs
  BY <1>1 DEF BeginGrab, Grabs
<1>3. Grabbed(state[w]).pending = state[w].pending
  BY DEF Inv, TypeOK, WindowStates, Grabbed
<1>4. \A v \in Windows : state'[v].pending = state[v].pending
  BY <1>3 DEF Inv, TypeOK, BeginGrab
<1>5. GoodFocus(focus')
  <2>1. CASE w \in mapped
    <3>1. w \in Listed /\ w \in shown
      BY <2>1 DEF Inv, ListOK, BeginGrab
    <3>2. home[w] # Null
      BY <3>1 DEF Inv, ShownExactly, Visible
    <3> QED
      BY <2>1, <3>2, GoodFocusWindow DEF BeginGrab
  <2>2. CASE w \notin mapped
    BY <2>2 DEF Inv, TypeOK, OutputsOK, FocusLive, GoodFocus, BeginGrab
  <2> QED
    BY <2>1, <2>2
<1>6. TypeOK'
  BY <1>1, <1>2, <1>5
     DEF Inv, TypeOK, BeginGrab, GoodFocus, outputVars, layerVars
<1>7. Listed' = Listed /\ Connected' = Connected /\ Listed \subseteq Windows
  BY ListedType DEF Inv, BeginGrab, Listed, Connected, outputVars
<1>8. ShownExactly'
  BY <1>4, <1>7
     DEF Inv, BeginGrab, ShownExactly, Visible, outputVars
<1>9. ListOK' /\ OutputsOK' /\ HomesLive' /\ FocusLive'
  BY <1>5, <1>7
     DEF Inv, BeginGrab, ListOK, OutputsOK, HomesLive, FocusLive, IsLive,
         GoodFocus, outputVars
<1> QED
  BY <1>6, <1>8, <1>9 DEF Inv

(* The drop takes the window off the list and puts it back once.           *)
LEMMA DropOrder ==
    ASSUME Inv, NEW w \in Listed, DropAtCursor(w)
    PROVE  /\ windows' \in Seq(Windows)
           /\ NoDuplicates(windows')
           /\ Listed' = Listed
<1> DEFINE rest == Without(windows, w)
<1>1. w \in Windows
  BY ListedType DEF Inv
<1>2. /\ rest \in Seq(Windows)
      /\ NoDuplicates(rest)
      /\ ToSet(rest) = Listed \ {w}
  BY WithoutType DEF Inv, TypeOK, ListOK, Listed
<1>3. \/ windows' = Append(rest, w)
      \/ \E v \in mapped \ {w}, after \in {0, 1} :
            windows' = Beside(rest, v, after, w)
  BY DEF DropAtCursor
<1> HIDE DEF rest
<1>4. CASE windows' = Append(rest, w)
  <2>1. rest \in Seq(Windows)
    BY <1>2
  <2>2. /\ windows' \in Seq(Windows)
        /\ ToSet(windows') = ToSet(rest) \cup {w}
        /\ NoDuplicates(rest) /\ w \notin ToSet(rest) =>
              NoDuplicates(windows')
    BY <1>1, <1>4, <2>1, AppendType
  <2> QED
    BY <1>2, <2>2 DEF Listed
<1>5. CASE \E v \in mapped \ {w}, after \in {0, 1} :
              windows' = Beside(rest, v, after, w)
  <2>1. PICK v \in mapped \ {w}, after \in {0, 1} :
          windows' = Beside(rest, v, after, w)
    BY <1>5
  <2>2. v \in ToSet(rest) /\ w \notin ToSet(rest)
    BY <1>2 DEF Inv, ListOK
  <2> DEFINE t == Beside(rest, v, after, w)
  <2>3. /\ t \in Seq(Windows)
        /\ ToSet(t) = ToSet(rest) \cup {w}
        /\ NoDuplicates(rest) /\ w \notin ToSet(rest) => NoDuplicates(t)
    <3>1. rest \in Seq(Windows)
      BY <1>2
    <3> QED
      BY <1>1, <2>2, <3>1, BesideType
  <2>4. windows' = t
    BY <2>1
  <2> HIDE DEF t
  <2> QED
    BY <1>2, <2>2, <2>3, <2>4 DEF Listed
<1> QED
  BY <1>3, <1>4, <1>5

LEMMA EndGrabStep ==
    ASSUME Inv, EndGrab
    PROVE  Inv'
<1> DEFINE w == op.window
<1>1. CASE \E cause \in {"freed window", "unlinked window"} : Crash(cause)
  BY <1>1, CrashStep
<1>2. CASE ~ \E cause \in {"freed window", "unlinked window"} : Crash(cause)
  <2>1. /\ UNCHANGED <<alive, configured, mapped, outputVars, layerVars,
                       focus, crash>>
        /\ op' = [op EXCEPT !.kind = "none", !.window = Null]
        /\ Arrange
        /\ \/ UNCHANGED <<windows, home, state>>
           \/ w \in alive /\ w \in Listed /\ DropAtCursor(w)
    BY <1>2 DEF EndGrab
  <2>2. op' \in Grabs
    BY <2>1 DEF Inv, TypeOK, Grabs
  <2>3. Connected' = Connected /\ Connected \subseteq Outputs
    BY <2>1, ListedType DEF Inv, Connected, outputVars
  <2>4. CASE UNCHANGED <<windows, home, state>>
    <3>1. ShownExactly' /\ shown' \subseteq Windows
      BY <2>1, <2>4, ArrangeShows DEF Inv, TypeOK
    <3>2. TypeOK'
      BY <2>1, <2>2, <2>4, <3>1 DEF Inv, TypeOK, outputVars, layerVars
    <3> QED
      BY <2>1, <2>3, <2>4, <3>1, <3>2
         DEF Inv, ListOK, OutputsOK, HomesLive, FocusLive, IsLive, Listed,
             outputVars
  <2>5. CASE w \in alive /\ w \in Listed /\ DropAtCursor(w)
    <3>1. PICK ws \in {home[w]} \cup {ActiveOf(o) : o \in Connected} :
            DropAtCursor(w)!(ws)
      BY <2>5 DEF DropAtCursor
    <3>2. w \in Windows /\ Listed \subseteq Windows
      BY <2>5, ListedType DEF Inv
    <3>3. ws = Null \/ IsLive(ws)
      BY <2>5, ActiveLive DEF Inv, HomesLive
    <3>4. DropAtCursor(w)
      BY <2>5
    <3>5. /\ windows' \in Seq(Windows)
          /\ NoDuplicates(windows')
          /\ Listed' = Listed
      BY <2>5, <3>2, <3>4, DropOrder
    <3>6. state' \in [Windows -> WindowStates]
      BY <3>1, <3>2, FlagTypes DEF Inv, TypeOK
    <3>7. /\ home'[w] = ws
          /\ \A v \in Windows \ {w} : home'[v] = home[v]
          /\ home' \in [Windows -> Workspace \cup {Null}]
      BY <3>1, <3>2, <3>3 DEF Inv, TypeOK, IsLive
    <3>8. ShownExactly' /\ shown' \subseteq Windows
      BY <2>1, <3>5, ArrangeShows DEF Inv
    <3>9. TypeOK'
      BY <2>1, <2>2, <3>5, <3>6, <3>7, <3>8
         DEF Inv, TypeOK, outputVars, layerVars
    <3>10. ListOK' /\ OutputsOK'
      BY <2>1, <2>3, <3>5 DEF Inv, ListOK, OutputsOK, outputVars
    <3>11. \A x : IsLive(x)' <=> IsLive(x)
      BY <2>1, <2>3 DEF IsLive, outputVars
    <3>12. HomesLive'
      BY <3>2, <3>3, <3>5, <3>7, <3>11 DEF Inv, HomesLive
    <3>13. FocusLive'
      <4>1. CASE focus.window = w
        <5>1. IsLive(ws)
          <6>1. focus.window # Null
            BY <3>2, <4>1, ServerAssumption
          <6>2. IsLive(home[w])
            BY <4>1, <6>1 DEF Inv, FocusLive
          <6> QED
            BY <6>2, ActiveLive
        <5> QED
          BY <2>1, <3>7, <3>11, <4>1, <5>1 DEF Inv, FocusLive
      <4>2. CASE focus.window # w
        BY <2>1, <3>7, <3>11, <4>2 DEF Inv, TypeOK, FocusLive
      <4> QED
        BY <4>1, <4>2
    <3> QED
      BY <3>8, <3>9, <3>10, <3>12, <3>13 DEF Inv
  <2> QED
    BY <2>1, <2>4, <2>5
<1> QED
  BY <1>1, <1>2

-----------------------------------------------------------------------------
(* Outputs *)

LEMMA NewOutputStep ==
    ASSUME Inv, NEW o \in Outputs, NewOutput(o)
    PROVE  Inv'
<1>1. AddOutput(o) /\ o \notin Connected /\ o # Null
  BY ServerAssumption DEF NewOutput
<1>2. /\ outputs' \in Seq(Outputs)
      /\ NoDuplicates(outputs')
      /\ Connected' = Connected \cup {o}
  <2>1. outputs \in Seq(Outputs) /\ NoDuplicates(outputs)
    BY DEF Inv, TypeOK, OutputsOK
  <2>2. outputs' = <<o>> \o outputs /\ o \notin ToSet(outputs)
    BY <1>1 DEF AddOutput, Connected
  <2> QED
    BY <2>1, <2>2, ConsType DEF Connected
<1>3. Connected \subseteq Outputs /\ {0, 1} \subseteq Numbers
  BY ListedType, ServerAssumption DEF Inv
<1>4. /\ active'[o] \in spaces'[o]
      /\ \A p \in Outputs \ {o} : active'[p] = active[p] /\ spaces'[p] = spaces[p]
  BY <1>1 DEF Inv, TypeOK, AddOutput
<1>5. focus' \in Focuses
  BY DEF Inv, TypeOK, Focuses, NewOutput
<1>6. /\ focus'.output = IF focus.output = Null THEN o ELSE focus.output
      /\ focus'.window = focus.window
  BY DEF Inv, TypeOK, Focuses, NewOutput
<1>7. ShownExactly' /\ shown' \subseteq Windows
  BY <1>1, ArrangeShows DEF Inv, TypeOK, AddOutput, windowVars
<1>8. TypeOK'
  BY <1>1, <1>2, <1>3, <1>5, <1>7
     DEF Inv, TypeOK, AddOutput, windowVars, layerVars
<1>9. ListOK'
  BY <1>1 DEF Inv, ListOK, Listed, AddOutput, windowVars
<1>10. OutputsOK'
  BY <1>1, <1>2, <1>3, <1>4, <1>6 DEF Inv, OutputsOK
<1>11. \A x : IsLive(x) => IsLive(x)'
  BY <1>1, <1>2, <1>3, <1>4 DEF IsLive
<1>12. HomesLive' /\ FocusLive'
  BY <1>1, <1>6, <1>11
     DEF Inv, HomesLive, FocusLive, Listed, AddOutput, windowVars
<1> QED
  BY <1>7, <1>8, <1>9, <1>10, <1>12 DEF Inv

LEMMA UnplugOutputStep ==
    ASSUME Inv, NEW o \in Outputs, UnplugOutput(o)
    PROVE  Inv'
<1> DEFINE fallback == Fallback(o)
           f == IF focus.output = o THEN [focus EXCEPT !.output = fallback]
                ELSE focus
<1>1. o \in Connected /\ Null \notin Outputs
  BY ServerAssumption DEF UnplugOutput
<1>2. /\ outputs' \in Seq(Outputs)
      /\ NoDuplicates(outputs')
      /\ Connected' = Connected \ {o}
  BY <1>1, WithoutType DEF Inv, TypeOK, OutputsOK, UnplugOutput, Connected
<1>3. /\ fallback \in Connected' \cup {Null}
      /\ fallback = Null => Connected' = {}
  BY <1>1, <1>2, FirstOfType DEF Inv, TypeOK, Fallback, Connected
<1>4. Connected \subseteq Outputs /\ Listed \subseteq Windows
  BY ListedType DEF Inv
<1>5. Connected' = {} => outputs' = <<>>
  BY <1>2 DEF Connected, ToSet
<1>6. /\ \A p \in Outputs \ {o} : active'[p] = active[p] /\ spaces'[p] = spaces[p]
      /\ active' \in [Outputs -> Numbers]
      /\ spaces' \in [Outputs -> SUBSET Numbers]
      /\ previous' \in [Outputs -> Numbers]
  BY ServerAssumption DEF Inv, TypeOK, UnplugOutput
<1>7. \A x : IsLive(x) /\ x[1] # o => IsLive(x)'
  BY <1>2, <1>4, <1>6 DEF IsLive
<1>8. /\ Heir(o) \in Workspace \cup {Null}
      /\ \A x : x = Heir(o) /\ x # Null => IsLive(x)'
  <2>1. CASE fallback = Null
    BY <2>1 DEF Heir
  <2>2. CASE fallback # Null
    <3>1. fallback \in Connected /\ fallback # o
      BY <1>2, <1>3, <2>2
    <3>2. IsLive(ActiveOf(fallback)) /\ ActiveOf(fallback) \in Workspace
      BY <3>1, ActiveLive
    <3>3. Heir(o) = ActiveOf(fallback) /\ Heir(o)[1] = fallback
      BY <2>2 DEF Heir, ActiveOf
    <3> QED
      BY <1>7, <3>1, <3>2, <3>3
  <2> QED
    BY <2>1, <2>2
<1>9. \A w \in Windows : home'[w] = IF w \in There(o) THEN Heir(o) ELSE home[w]
  BY DEF UnplugOutput
<1>10. home' \in [Windows -> Workspace \cup {Null}]
  BY <1>8 DEF Inv, TypeOK, UnplugOutput
<1>11. Listed' = Listed
  BY DEF UnplugOutput, Listed
<1>12. HomesLive'
  <2> SUFFICES ASSUME NEW w \in Listed, NEW x, x = home'[w], x # Null
               PROVE  IsLive(x)'
    BY <1>11 DEF HomesLive
  <2>1. CASE w \in There(o)
    BY <1>4, <1>8, <1>9, <2>1
  <2>2. CASE w \notin There(o)
    <3>1. home'[w] = home[w] /\ home[w][1] # o /\ IsLive(home[w])
      BY <1>4, <1>9, <2>2 DEF Inv, HomesLive, There
    <3> QED
      BY <1>7, <3>1
  <2> QED
    BY <2>1, <2>2
<1>13. /\ f \in Focuses
       /\ f.output \in Connected' \cup {Null}
       /\ f.output = Null => fallback = Null
  <2>1. fallback \in Outputs \cup {Null}
    BY <1>2, <1>3, <1>4
  <2>2. CASE focus.output = o
    BY <1>3, <2>1, <2>2 DEF Inv, TypeOK, Focuses
  <2>3. CASE focus.output # o
    <3>1. focus.output # Null
      BY <1>1 DEF Inv, OutputsOK, Connected, ToSet
    <3> QED
      BY <1>2, <2>3, <3>1 DEF Inv, TypeOK, OutputsOK
  <2> QED
    BY <2>2, <2>3
<1>14. /\ focus' \in Focuses
       /\ focus'.output \in Connected' \cup {Null}
       /\ focus'.output = Null => fallback = Null
       /\ FocusLive'
  <2>1. CASE fallback = Null
    <3>1. focus' = [f EXCEPT !.window = Null]
      BY <2>1 DEF UnplugOutput, LeftFocus
    <3> HIDE DEF f
    <3> QED
      BY <1>13, <2>1, <3>1 DEF Focuses, FocusLive
  <2>2. CASE fallback # Null
    <3>1. focus' = FocusActive(f, fallback)
      BY <2>2 DEF UnplugOutput, LeftFocus
    <3>2. fallback \in Connected /\ fallback # o /\ fallback \in Outputs
      BY <1>2, <1>3, <1>4, <2>2
    <3>3. active'[fallback] \in Numbers /\ active'[fallback] \in spaces'[fallback]
      BY <1>6, <3>2 DEF Inv, TypeOK, OutputsOK
    <3>4. windows' \in Seq(Windows)
      BY DEF Inv, TypeOK, UnplugOutput
    <3> HIDE DEF f, fallback
    <3>5. focus' \in Focuses /\ focus'.output = fallback /\ FocusLive'
      BY <1>3, <1>13, <2>2, <3>1, <3>2, <3>3, <3>4, FocusActiveStep
    <3> QED
      BY <1>3, <2>2, <3>5
  <2> QED
    BY <2>1, <2>2
<1>15. ShownExactly' /\ shown' \subseteq Windows
  BY ArrangeShows DEF Inv, TypeOK, UnplugOutput
<1>16. TypeOK'
  BY <1>2, <1>6, <1>10, <1>14, <1>15 DEF Inv, TypeOK, UnplugOutput
<1>17. ListOK'
  BY <1>11 DEF Inv, ListOK, UnplugOutput
<1>18. OutputsOK'
  BY <1>2, <1>3, <1>4, <1>5, <1>6, <1>14 DEF Inv, OutputsOK
<1> QED
  BY <1>12, <1>14, <1>15, <1>16, <1>17, <1>18 DEF Inv

-----------------------------------------------------------------------------
(* Layer surfaces *)

(* A step of a layer surface that rearranges and may move the focus.       *)
LEMMA LayerArrangeStep ==
    ASSUME Inv, UNCHANGED <<windowVars, op, outputVars, crash>>, Arrange,
           layerOutput' \in [Layers -> Outputs \cup {Null, Freed}],
           layerMapped' \subseteq Layers, GoodFocus(focus')
    PROVE  Inv'
<1>1. ShownExactly' /\ shown' \subseteq Windows
  BY ArrangeShows DEF Inv, TypeOK, windowVars
<1> QED
  BY <1>1
     DEF Inv, TypeOK, ListOK, OutputsOK, HomesLive, FocusLive, IsLive,
         GoodFocus, Listed, Connected, windowVars, outputVars

LEMMA LayerSteps ==
    ASSUME Inv, NEW l \in Layers, LayerStep(l)
    PROVE  Inv'
<1>1. CASE \E o \in Outputs : NewLayer(l, o)
  BY <1>1
     DEF Inv, NewLayer, TypeOK, ListOK, OutputsOK, HomesLive, FocusLive,
         ShownExactly, Visible, Listed, Connected, IsLive, windowVars,
         outputVars
<1>2. CASE MapLayer(l)
  <2>1. CASE layerOutput[l] = Freed
    BY <1>2, <2>1, CrashStep DEF MapLayer
  <2>2. CASE layerOutput[l] # Freed
    <3>1. GoodFocus(focus')
      BY <1>2, <2>2
         DEF Inv, TypeOK, OutputsOK, FocusLive, Focuses, GoodFocus, MapLayer
    <3> QED
      BY <1>2, <2>2, <3>1, LayerArrangeStep DEF Inv, TypeOK, MapLayer
  <2> QED
    BY <2>1, <2>2
<1>3. CASE CommitLayer(l)
  BY <1>3, CrashStep DEF CommitLayer
<1>4. CASE UnmapLayer(l)
  <2>1. CASE layerOutput[l] = Freed
    BY <1>4, <2>1, CrashStep DEF UnmapLayer
  <2>2. CASE layerOutput[l] # Freed
    <3> DEFINE f == [focus EXCEPT !.layer = Null]
               o == focus.output
    <3>1. /\ f \in Focuses
          /\ f.output = focus.output
          /\ f.window = focus.window
      BY DEF Inv, TypeOK, Focuses
    <3>2. CASE focus.layer # l \/ o = Null
      <4>1. focus' \in {focus, f}
        BY <1>4, <2>2, <3>2 DEF UnmapLayer
      <4>2. GoodFocus(focus')
        BY <3>1, <4>1 DEF Inv, TypeOK, OutputsOK, FocusLive, GoodFocus
      <4> QED
        BY <1>4, <2>2, <4>2, LayerArrangeStep DEF Inv, TypeOK, UnmapLayer
    <3>3. CASE focus.layer = l /\ o # Null
      <4>1. focus' = FocusActive(f, o) /\ o \in Connected /\ o \in Outputs
        BY <1>4, <2>2, <3>3, FocusedOutput, ListedType DEF UnmapLayer, Inv
      <4>2. UNCHANGED <<windowVars, op, outputVars, layerOutput, crash>>
        BY <1>4, <2>2 DEF UnmapLayer
      <4>3. /\ windows' \in Seq(Windows)
            /\ o \in Connected'
            /\ active'[o] \in Numbers
            /\ active'[o] \in spaces'[o]
        BY <4>1, <4>2
           DEF Inv, TypeOK, OutputsOK, Connected, windowVars, outputVars
      <4> HIDE DEF f, o
      <4>4. focus' \in Focuses /\ focus'.output = o /\ FocusLive'
        BY <3>1, <4>1, <4>3, FocusActiveStep
      <4>5. GoodFocus(focus')
        BY <3>3, <4>1, <4>2, <4>4
           DEF GoodFocus, FocusLive, IsLive, Connected, windowVars, outputVars
      <4> QED
        BY <1>4, <2>2, <4>5, LayerArrangeStep DEF Inv, TypeOK, UnmapLayer
    <3> QED
      BY <3>2, <3>3
  <2> QED
    BY <2>1, <2>2
<1>5. CASE DestroyLayer(l)
  <2>1. CASE layerOutput[l] = Freed
    BY <1>5, <2>1, CrashStep DEF DestroyLayer
  <2>2. CASE layerOutput[l] # Freed
    <3>1. GoodFocus(focus')
      BY <1>5, <2>2
         DEF Inv, TypeOK, OutputsOK, FocusLive, Focuses, GoodFocus, DestroyLayer
    <3> QED
      BY <1>5, <2>2, <3>1, LayerArrangeStep DEF Inv, TypeOK, DestroyLayer
  <2> QED
    BY <2>1, <2>2
<1> QED
  BY <1>1, <1>2, <1>3, <1>4, <1>5 DEF LayerStep

-----------------------------------------------------------------------------
(* The invariant *)

LEMMA NextInv == Inv /\ [Next]_vars => Inv'
<1> SUFFICES ASSUME Inv, [Next]_vars PROVE Inv'
  OBVIOUS
<1>1. ASSUME NEW w \in Windows, WindowStep(w) PROVE Inv'
  BY <1>1, CreateWindowStep, InitialCommitStep, MapWindowStep,
     UnmapWindowStep, DestroyWindowStep, FlagStep, ActivateWindowStep,
     BeginGrabStep
     DEF WindowStep
<1>2. ASSUME NEW o \in Outputs, OutputStep(o) PROVE Inv'
  <2>1. FocusOutput(o) => Inv'
    BY FocusOnOutputStep DEF FocusOutput
  <2> QED
    BY <1>2, <2>1, NewOutputStep, UnplugOutputStep, PointerOverOutputStep,
       MoveToOutputStep, WorkspaceStep, SetWorkspaceStep
       DEF OutputStep
<1>3. CASE CommandStep
  <2>1. GrabMotion => Inv'
    BY CrashStep DEF GrabMotion
  <2> QED
    BY <1>3, <2>1, FocusNextStep, SwapCommandsStep, WorkspaceStep,
       MoveToWorkspaceStep, FocusDirectionStep, ToggleStep, EndGrabStep
       DEF CommandStep
<1>4. CASE UNCHANGED vars
  BY <1>4, StutterStep
<1> QED
  BY <1>1, <1>2, <1>3, <1>4, LayerSteps DEF Next

(* Every state of the compositor's core satisfies the invariant: whatever  *)
(* the clients, the user and the monitors do, in any number.               *)
THEOREM Invariance == Spec => []Inv
BY InitInv, NextInv, PTL DEF Spec

(* Every value stays of its type: in particular workspace-next and -back   *)
(* only ever reach workspace numbers in use (action.c:98-120).             *)
THEOREM TypeCorrect == Spec => []TypeOK
<1>1. Inv => TypeOK
  BY DEF Inv
<1> QED
  BY <1>1, Invariance, PTL

(* The list of windows is well formed: each window linked once, every      *)
(* mapped one, none that was freed (window.c, seat.c).                     *)
THEOREM WellLinked == Spec => []ListOK
<1>1. Inv => ListOK
  BY DEF Inv
<1> QED
  BY <1>1, Invariance, PTL

(* An output is focused while there is one, and its active workspace       *)
(* exists (output.c).                                                      *)
THEOREM OutputsSound == Spec => []OutputsOK
<1>1. Inv => OutputsOK
  BY DEF Inv
<1> QED
  BY <1>1, Invariance, PTL

(* No listed window keeps a pointer to a workspace that was freed with its *)
(* output (output.c:72).                                                   *)
THEOREM NoDanglingWorkspace == Spec => []HomesLive
<1>1. Inv => HomesLive
  BY DEF Inv
<1> QED
  BY <1>1, Invariance, PTL

(* Reading the focused window's workspace and output is safe in every      *)
(* handler (action.c).                                                     *)
THEOREM FocusedIsSafe == Spec => []FocusLive
<1>1. Inv => FocusLive
  BY DEF Inv
<1> QED
  BY <1>1, Invariance, PTL

(* The scene shows the windows of the active workspaces and no other: no   *)
(* handler forgets to arrange (layout.c:295).                              *)
THEOREM SceneInStep == Spec => []ShownExactly
<1>1. Inv => ShownExactly
  BY DEF Inv
<1> QED
  BY <1>1, Invariance, PTL
=============================================================================
