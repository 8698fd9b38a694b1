---------------------------- MODULE SizingProofs ----------------------------
(***************************************************************************)
(* TypeOK and ResizeNotFought for every border, every set of sizes and     *)
(* however often anybody changes their mind.  The invariant behind both    *)
(* says what window->resize_serial is good for: of the configures the      *)
(* client may have seen, those that pass the gate carry the size that was  *)
(* asked for last.                                                         *)
(***************************************************************************)
EXTENDS Sizing, TLAPS

Spec == Init /\ [][Next]_vars

\* The configures in s, and a, that pass gate g carry the size w.
Passing(s, a, g, w) ==
    /\ g = 0 \/ a.serial \geq g => a.size = w
    /\ \A i \in DOMAIN s : g = 0 \/ s[i].serial \geq g => s[i].size = w

Gated == ~x11 /\ wanted # 0 => Passing(sent, answered, gate, wanted)

Inv == TypeOK /\ Gated

\* The types of what the handlers assign before they arrange.
ModesOK ==
    /\ x11 \in BOOLEAN /\ rigid \in BOOLEAN
    /\ floating \in BOOLEAN /\ full \in BOOLEAN /\ pending \in BOOLEAN
    /\ tile \in Tiles
    /\ float \in Int
    /\ natural \in Int
    /\ changes \in 0 .. MaxChanges
    /\ x11 => ~pending

-----------------------------------------------------------------------------
(* What Arrange does *)

LEMMA ContentIsInt ==
    ASSUME NEW f, NEW g, NEW box \in Int, NEW t \in Tiles
    PROVE  Content(f, g, box, t) \in Int
BY SizingAssumption DEF Content

LEMMA ConfigureTypes ==
    ASSUME NEW s \in Seq(Configures)
    PROVE  \A i \in DOMAIN s : s[i].serial \in Nat /\ s[i].size \in Int
<1>1. \A i \in DOMAIN s : s[i] \in Configures
  OBVIOUS
<1> QED
  BY <1>1 DEF Configures

\* A size that is asked for gets a serial the client has not seen.
LEMMA ScheduleIsNew ==
    ASSUME next \in Nat, due \in BOOLEAN, NEW size \in Int, Schedule(size),
           Ordered(sent', answered')
    PROVE  /\ next' \in Nat /\ next \leq next' /\ due' = TRUE
           /\ wanted' = size /\ next' = Serial
           /\ Ordered(sent, answered)'
           /\ answered'.serial < next'
           /\ \A i \in DOMAIN sent' : sent'[i].serial < next'
<1>1. /\ next' \in Nat /\ next \leq next' /\ due' = TRUE /\ wanted' = size
      /\ next' = Serial
  BY DEF Schedule, Serial
<1>2. answered' \in Configures /\ answered'.serial \in Nat
  BY DEF Ordered, Configures
<1>3. \A i \in DOMAIN sent' : sent'[i].serial \in Nat
  BY ConfigureTypes DEF Ordered
<1>4. answered'.serial < next' /\ \A i \in DOMAIN sent' : sent'[i].serial < next'
  BY <1>1, <1>2, <1>3 DEF Ordered, Serial
<1> QED
  BY <1>1, <1>2, <1>3, <1>4 DEF Ordered

\* With gate0 in place, nothing the client may have seen passes it wrongly.
LEMMA AskStep ==
    ASSUME next \in Nat, due \in BOOLEAN, wanted \in Int, x11' = x11,
           pending' \in BOOLEAN,
           NEW gate0 \in 0 .. next, NEW size \in Int, NEW informs \in BOOLEAN,
           Ordered(sent', answered'),
           wanted # 0 /\ ~pending' => Passing(sent', answered', gate0, wanted),
           Ask(size, gate0, informs)
    PROVE  /\ next' \in Nat /\ gate' \in 0 .. next'
           /\ due' \in BOOLEAN /\ wanted' \in Int
           /\ Ordered(sent, answered)'
           /\ Gated'
<1>1. CASE pending'
  <2>1. Schedule(0) /\ gate' = gate0
    BY <1>1 DEF Ask
  <2>2. /\ next' \in Nat /\ next \leq next' /\ due' = TRUE /\ wanted' = 0
        /\ Ordered(sent, answered)'
    <3>1. Schedule(0) /\ 0 \in Int
      BY <2>1
    <3> HIDE <2>1
    <3> QED
      BY <3>1, ScheduleIsNew
  <2> QED
    BY <2>1, <2>2 DEF Gated
<1>2. CASE ~pending' /\ size # requested
  <2>1. Schedule(size) /\ gate' = Serial
    BY <1>2 DEF Ask
  <2>2. /\ next' \in Nat /\ next \leq next' /\ due' = TRUE /\ wanted' = size
        /\ next' = Serial /\ Ordered(sent, answered)'
        /\ answered'.serial < next'
        /\ \A i \in DOMAIN sent' : sent'[i].serial < next'
    BY <2>1, ScheduleIsNew
  <2>3. answered'.serial \in Nat
    BY DEF Ordered, Configures
  <2>4. \A i \in DOMAIN sent' : sent'[i].serial \in Nat
    BY ConfigureTypes DEF Ordered
  <2>5. gate' = next' /\ gate' # 0
    BY <2>1, <2>2, <2>3
  <2>6. Passing(sent', answered', gate', wanted')
    BY <2>2, <2>3, <2>4, <2>5 DEF Passing
  <2>7. Gated'
    BY <2>6 DEF Gated
  <2> QED
    BY <2>2, <2>5, <2>7
<1>3. CASE ~pending' /\ size = requested /\ informs
  <2>1. Schedule(wanted) /\ gate' = gate0
    BY <1>3 DEF Ask
  <2>2. /\ next' \in Nat /\ next \leq next' /\ due' = TRUE /\ wanted' = wanted
        /\ Ordered(sent, answered)'
    BY <2>1, ScheduleIsNew
  <2> QED
    BY <1>3, <2>1, <2>2 DEF Gated
<1>4. CASE ~pending' /\ size = requested /\ ~informs
  <2>1. UNCHANGED <<next, due, wanted>> /\ gate' = gate0
    BY <1>4 DEF Ask
  <2> QED
    BY <1>4, <2>1 DEF Gated, Ordered
<1> QED
  BY <1>1, <1>2, <1>3, <1>4

LEMMA ArrangeStep ==
    ASSUME TypeOK, ModesOK', x11' = x11,
           NEW gate0 \in {0, gate}, NEW informs \in BOOLEAN,
           NEW committed \in Int,
           Arrange(gate0, informs, committed),
           Ordered(sent', answered'),
           ~x11 /\ wanted # 0 /\ ~pending' =>
               Passing(sent', answered', gate0, wanted)
    PROVE  Inv'
<1> DEFINE size == Content(floating', full', float', tile')
<1>1. size \in Int
  BY ContentIsInt DEF ModesOK
<1> HIDE DEF size
<1>2. requested' = size
  BY DEF Arrange, size
<1>3. CASE x11
  <2>1. geometry' \in Int /\ UNCHANGED wire
    BY <1>1, <1>3 DEF Arrange, size
  <2> QED
    BY <1>1, <1>2, <1>3, <2>1 DEF TypeOK, ModesOK, Inv, Gated, wire, Ordered
<1>4. CASE ~x11
  <2>1. geometry' \in Int /\ Ask(size, gate0, informs)
    BY <1>4 DEF Arrange, size
  <2>2. gate0 \in 0 .. next
    BY DEF TypeOK
  <2>3. /\ next' \in Nat /\ gate' \in 0 .. next'
        /\ due' \in BOOLEAN /\ wanted' \in Int
        /\ Ordered(sent, answered)'
        /\ Gated'
    BY <1>1, <1>4, <2>1, <2>2, AskStep DEF TypeOK, ModesOK
  <2> QED
    BY <1>1, <1>2, <2>1, <2>3 DEF TypeOK, ModesOK, Inv
<1> QED
  BY <1>3, <1>4 DEF TypeOK

-----------------------------------------------------------------------------
(* The handlers of the server *)

LEMMA ServerChangeStep ==
    ASSUME Inv, ServerChange, ModesOK',
           NEW gate0 \in {0, gate}, NEW informs \in BOOLEAN,
           gate0 = gate \/ pending',
           Arrange(gate0, informs, geometry)
    PROVE  Inv'
<1>1. UNCHANGED <<x11, sent, answered>>
  BY DEF ServerChange, Change
<1>2. Ordered(sent', answered') /\ geometry \in Int /\ TypeOK
  BY <1>1 DEF Inv, TypeOK
<1>3. ~x11 /\ wanted # 0 /\ ~pending' =>
          Passing(sent', answered', gate0, wanted)
  BY <1>1 DEF Inv, Gated
<1> QED
  BY <1>1, <1>2, <1>3, ArrangeStep

\* What a change leaves of the types.
LEMMA ChangeTypes ==
    ASSUME TypeOK, Change
    PROVE  /\ x11' \in BOOLEAN /\ rigid' \in BOOLEAN
           /\ changes' \in 0 .. MaxChanges
BY SizingAssumption DEF TypeOK, Change

LEMMA ServerKeepsInv ==
    ASSUME Inv, ServerStep
    PROVE  Inv'
<1> USE SizingAssumption
<1>1. ASSUME NEW t \in Tiles, Retile(t) PROVE Inv'
  <2>1. ModesOK'
    BY <1>1, ChangeTypes DEF Retile, ServerChange, Change, Inv, TypeOK, ModesOK
  <2> QED
    BY <1>1, <2>1, ServerChangeStep DEF Retile
<1>2. ASSUME NEW app \in BOOLEAN, ToggleFloat(app) PROVE Inv'
  <2>1. pending' \in BOOLEAN /\ (x11 => ~pending')
    BY <1>2 DEF ToggleFloat, Chooses, Inv, TypeOK
  <2>2. float' \in Int
    BY <1>2 DEF ToggleFloat, Inv, TypeOK
  <2>3. ModesOK'
    BY <1>2, <2>1, <2>2, ChangeTypes
       DEF ToggleFloat, ServerChange, Change, Inv, TypeOK, ModesOK
  <2> QED
    BY <1>2, <2>3, ServerChangeStep DEF ToggleFloat
<1>3. ASSUME NEW size \in Drags, Drag(size) PROVE Inv'
  <2>1. ModesOK'
    BY <1>3, ChangeTypes DEF Drag, ServerChange, Change, Inv, TypeOK, ModesOK
  <2> QED
    BY <1>3, <2>1, ServerChangeStep DEF Drag
<1>4. ASSUME NEW size \in Naturals, RequestConfigure(size) PROVE Inv'
  <2>1. ModesOK'
    BY <1>4, ChangeTypes DEF RequestConfigure, ServerChange, Change, Inv,
                             TypeOK, ModesOK
  <2> QED
    BY <1>4, <2>1, ServerChangeStep DEF RequestConfigure
<1>5. CASE ParentChanged
  <2>1. ModesOK'
    BY <1>5, ChangeTypes DEF ParentChanged, ServerChange, Change, Inv, TypeOK,
                             ModesOK
  <2> QED
    BY <1>5, <2>1, ServerChangeStep DEF ParentChanged
<1>6. CASE RequestFullscreen
  <2>1. ModesOK'
    BY <1>6, ChangeTypes DEF RequestFullscreen, ServerChange, Change, Inv,
                             TypeOK, ModesOK
  <2> QED
    BY <1>6, <2>1, ServerChangeStep DEF RequestFullscreen
<1>7. CASE SendConfigure
  <2> DEFINE new == [serial |-> next, size |-> wanted]
  <2>1. /\ due /\ due' = FALSE /\ sent' = Append(sent, new)
        /\ UNCHANGED <<x11, rigid, modes, requested, gate, next, wanted,
                       answered, geometry, natural, changes>>
    BY <1>7 DEF SendConfigure
  <2>2. new \in Configures /\ sent \in Seq(Configures)
    BY DEF Configures, Inv, TypeOK, Ordered
  <2>3. /\ sent' \in Seq(Configures)
        /\ Len(sent') = Len(sent) + 1
        /\ DOMAIN sent' = 1 .. Len(sent) + 1
        /\ \A i \in 1 .. Len(sent) : sent'[i] = sent[i]
        /\ sent'[Len(sent) + 1] = new
    BY <2>1, <2>2
  <2>4. DOMAIN sent = 1 .. Len(sent) /\ Len(sent) \in Nat
    BY <2>2
  <2> HIDE DEF new
  <2>5. new.serial = next /\ new.size = wanted
    BY DEF new
  <2>6. \A i \in DOMAIN sent' : answered.serial < sent'[i].serial
                                  /\ sent'[i].serial \leq next
    BY <2>1, <2>3, <2>4, <2>5 DEF Inv, TypeOK, Ordered, Configures
  <2>7. \A i, j \in DOMAIN sent' : i < j => sent'[i].serial < sent'[j].serial
    <3> SUFFICES ASSUME NEW i \in DOMAIN sent', NEW j \in DOMAIN sent', i < j
                 PROVE  sent'[i].serial < sent'[j].serial
      OBVIOUS
    <3>1. i \in 1 .. Len(sent)
      BY <2>3, <2>4
    <3>2. CASE j \in 1 .. Len(sent)
      BY <2>3, <2>4, <3>1, <3>2 DEF Inv, TypeOK, Ordered
    <3>3. CASE j = Len(sent) + 1
      BY <2>1, <2>3, <2>4, <2>5, <3>1, <3>3 DEF Inv, TypeOK, Ordered
    <3> QED
      BY <2>3, <3>2, <3>3
  <2>8. Ordered(sent, answered)'
    BY <2>1, <2>3, <2>6, <2>7 DEF Inv, TypeOK, Ordered
  <2>9. Gated'
    BY <2>1, <2>3, <2>4, <2>5 DEF Inv, Gated, Passing
  <2> QED
    BY <2>1, <2>8, <2>9 DEF Inv, TypeOK, modes
<1> QED
  BY <1>1, <1>2, <1>3, <1>4, <1>5, <1>6, <1>7 DEF ServerStep

-----------------------------------------------------------------------------
(* The client *)

\* A commit: of what the client knows, the answer included, what passes the
\* gate as it was carries the size asked for last.
LEMMA CommittedStep ==
    ASSUME TypeOK, ~x11, x11' = x11, rigid' = rigid, natural' \in Int,
           changes' \in 0 .. MaxChanges,
           NEW size \in Int,
           Ordered(sent', answered'),
           wanted # 0 => Passing(sent', answered', gate, wanted),
           Committed(answered'.serial, size)
    PROVE  /\ Inv'
           /\ float' # float /\ ~pending => wanted \in {0, answered'.size}
<1>1. answered'.serial \in Nat /\ \A i \in DOMAIN sent' :
          sent'[i].serial \in Nat /\ answered'.serial < sent'[i].serial
  <2>1. answered'.serial \in Nat
    BY DEF Ordered, Configures
  <2> QED
    BY <2>1, ConfigureTypes DEF Ordered
<1>2. Answers(answered'.serial) /\ wanted # 0 =>
          answered'.size = wanted /\ Passing(sent', answered', 0, wanted)
  BY <1>1 DEF Answers, Passing, TypeOK
<1>3. CASE Keep(size) /\ UNCHANGED gate
  BY <1>3 DEF Keep, modes, Inv, TypeOK, Gated, Ordered
<1>4. CASE Keep(size) /\ gate' = 0 /\ Answers(answered'.serial)
  BY <1>2, <1>4 DEF Keep, modes, Inv, TypeOK, Gated, Ordered
<1>5. CASE Adopt(size) /\ Answers(answered'.serial)
  <2>0. float' \in Int
    BY <1>5, SizingAssumption DEF Adopt, TypeOK
  <2>1. ModesOK'
    BY <1>5, <2>0 DEF Adopt, TypeOK, ModesOK
  <2>2. Inv'
    BY <1>2, <1>5, <2>1, ArrangeStep DEF Adopt
  <2> QED
    BY <1>2, <1>5, <2>2
<1> QED
  BY <1>3, <1>4, <1>5 DEF Committed, Keep, modes

LEMMA ClientKeepsInv ==
    ASSUME Inv, ClientStep
    PROVE  /\ Inv'
           /\ float' # float /\ ~pending => wanted \in {0, answered'.size}
<1> USE SizingAssumption
<1>1. ASSUME NEW n \in DOMAIN sent, Acknowledge(n)
      PROVE  /\ Inv'
             /\ float' # float /\ ~pending => wanted \in {0, answered'.size}
  <2> DEFINE size == IF sent[n].size = 0 \/ rigid THEN natural
                     ELSE sent[n].size
  <2>1. /\ ~x11 /\ sent' = SubSeq(sent, n + 1, Len(sent))
        /\ answered' = sent[n] /\ Committed(answered'.serial, size)
        /\ UNCHANGED <<x11, rigid, natural, changes>>
    BY <1>1 DEF Acknowledge
  <2>2. /\ sent \in Seq(Configures) /\ Len(sent) \in Nat
        /\ DOMAIN sent = 1 .. Len(sent) /\ n \in 1 .. Len(sent)
        /\ sent[n] \in Configures
    BY DEF Inv, TypeOK, Ordered
  <2>3. size \in Int
    BY <2>2 DEF Configures, Inv, TypeOK
  <2>4. /\ sent' \in Seq(Configures)
        /\ DOMAIN sent' = 1 .. Len(sent) - n
        /\ \A i \in 1 .. Len(sent) - n : sent'[i] = sent[n + i]
    BY <2>1, <2>2
  <2>5. \A i \in DOMAIN sent' : n + i \in DOMAIN sent /\ n < n + i
    BY <2>2, <2>4
  <2> HIDE DEF size
  <2>6. Ordered(sent', answered')
    <3>1. \A i, j \in DOMAIN sent' :
              i < j => sent'[i].serial < sent'[j].serial
      <4> SUFFICES ASSUME NEW i \in DOMAIN sent', NEW j \in DOMAIN sent', i < j
                   PROVE  sent'[i].serial < sent'[j].serial
        OBVIOUS
      <4>1. n + i < n + j
        BY <2>2, <2>4
      <4> QED
        BY <2>4, <2>5, <4>1 DEF Inv, TypeOK, Ordered
    <3>2. \A i \in DOMAIN sent' : /\ answered'.serial < sent'[i].serial
                                  /\ sent'[i].serial \leq next
                                  /\ due => sent'[i].serial < next
      BY <2>1, <2>2, <2>4, <2>5 DEF Inv, TypeOK, Ordered
    <3> QED
      BY <2>1, <2>2, <2>4, <3>1, <3>2 DEF Inv, TypeOK, Ordered
  <2>7. wanted # 0 => Passing(sent', answered', gate, wanted)
    BY <2>1, <2>4, <2>5 DEF Inv, Gated, Passing
  <2>8. natural' \in Int /\ changes' \in 0 .. MaxChanges /\ TypeOK
    BY <2>1 DEF Inv, TypeOK
  <2> QED
    BY <2>1, <2>3, <2>6, <2>7, <2>8, CommittedStep
<1>2. ASSUME NEW size \in Naturals, ResizeItself(size)
      PROVE  /\ Inv'
             /\ float' # float /\ ~pending => wanted \in {0, answered'.size}
  <2>1. /\ ~x11 /\ UNCHANGED <<x11, rigid, sent, answered>> /\ natural' = size
        /\ Committed(answered'.serial, size)
    BY <1>2 DEF ResizeItself, Change
  <2>2. changes' \in 0 .. MaxChanges /\ size \in Int /\ TypeOK
    BY <1>2, ChangeTypes DEF ResizeItself, Inv
  <2>3. /\ Ordered(sent', answered')
        /\ wanted # 0 => Passing(sent', answered', gate, wanted)
    BY <2>1 DEF Inv, TypeOK, Gated
  <2> QED
    BY <2>1, <2>2, <2>3, CommittedStep
<1>3. ASSUME Redraw
      PROVE  /\ Inv'
             /\ float' # float /\ ~pending => wanted \in {0, answered'.size}
  <2>1. /\ ~x11 /\ UNCHANGED <<x11, rigid, sent, answered, natural, changes>>
        /\ Committed(answered'.serial, geometry)
    BY <1>3 DEF Redraw
  <2>2. /\ natural' \in Int /\ changes' \in 0 .. MaxChanges
        /\ geometry \in Int /\ TypeOK
    BY <2>1 DEF Inv, TypeOK
  <2>3. /\ Ordered(sent', answered')
        /\ wanted # 0 => Passing(sent', answered', gate, wanted)
    BY <2>1 DEF Inv, TypeOK, Gated
  <2> QED
    BY <2>1, <2>2, <2>3, CommittedStep
<1> QED
  BY <1>1, <1>2, <1>3 DEF ClientStep

-----------------------------------------------------------------------------
LEMMA InitInv == Init => Inv
<1> SUFFICES ASSUME Init PROVE Inv
  OBVIOUS
<1>1. /\ requested \in Int /\ natural \in Int /\ tile \in Tiles
      /\ answered \in Configures /\ sent \in Seq(Configures)
      /\ DOMAIN sent = {}
  BY SizingAssumption DEF Init, Configures
<1>2. Ordered(sent, answered)
  BY <1>1 DEF Init, Ordered
<1>3. geometry \in Int /\ changes \in 0 .. MaxChanges /\ gate \in 0 .. next
  BY <1>1, SizingAssumption DEF Init
<1>4. TypeOK
  <2>1. /\ x11 \in BOOLEAN /\ rigid \in BOOLEAN /\ due \in BOOLEAN
        /\ floating \in BOOLEAN /\ full \in BOOLEAN /\ pending \in BOOLEAN
        /\ x11 => ~pending
    BY DEF Init
  <2>2. float \in Int /\ next \in Nat /\ wanted \in Int
    BY <1>1 DEF Init
  <2> QED
    BY <1>1, <1>2, <1>3, <2>1, <2>2 DEF TypeOK
<1>5. Gated
  BY <1>1 DEF Init, Gated, Passing
<1> QED
  BY <1>4, <1>5 DEF Inv

LEMMA NextInv == Inv /\ [Next]_vars => Inv'
<1> SUFFICES ASSUME Inv, [Next]_vars PROVE Inv'
  OBVIOUS
<1>1. CASE UNCHANGED vars
  BY <1>1 DEF vars, modes, wire, client, Inv, TypeOK, Gated, Ordered
<1>2. CASE ServerStep
  BY <1>2, ServerKeepsInv
<1>3. CASE ClientStep
  BY <1>3, ClientKeepsInv
<1> QED
  BY <1>1, <1>2, <1>3 DEF Next

(* For every instance: the serials a client can acknowledge are in order,  *)
(* below the newest one, and never that of a configure not sent yet        *)
(* (window.c:80, wlroots).                                                 *)
THEOREM TypeCorrect == Spec => []TypeOK
<1>1. Inv => TypeOK
  BY DEF Inv
<1> QED
  BY <1>1, InitInv, NextInv, PTL DEF Spec

(* For every instance, in whatever order the user, the layout and the      *)
(* client change their minds: no commit from before a resize undoes it     *)
(* (window.c:718-723).                                                     *)
THEOREM NoFight == Spec => ResizeNotFought
<1>1. Inv /\ [Next]_vars =>
          [ClientStep /\ float' # float /\ ~pending =>
              wanted \in {0, answered'.size}]_vars
  BY ClientKeepsInv
<1> QED
  BY <1>1, InitInv, NextInv, PTL DEF Spec, ResizeNotFought
=============================================================================
