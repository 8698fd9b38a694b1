----------------------------- MODULE StreamProofs -----------------------------
(***************************************************************************)
(* For any clients, outputs and lines: what the status stream guarantees   *)
(* to the clients that keep reading, and to the bars that stay; and that   *)
(* the night light is on every output, which the stream with its command   *)
(* keeps without a guarantee of the stream being lost.                     *)
(***************************************************************************)
EXTENDS NightLight, TLAPS

(* What a bar that stays has seen is what was last broadcast, if anything. *)
Follows ==
    \A c \in Residents :
        /\ client[c] = "subscriber"
        /\ \A p \in Topics : sent[p] # None => view[c][p] = sent[p]

Inv == TypeOK /\ GammaInStep /\ Follows

(* What a handler that changes text and focus must keep to.                *)
Settled ==
    /\ text \in [Outputs -> Texts \cup {None}]
    /\ focused \in IF Plugged = {} THEN {None} ELSE Plugged
    /\ window \in Focusable

(* LinesOf says something of exactly the outputs that t says something of. *)
LEMMA LinesType ==
    ASSUME NEW t \in [Outputs -> Texts \cup {None}], NEW f,
           NEW w \in Focusable
    PROVE  /\ LinesOf(t, f, w) \in [Topics -> Lines \cup {None}]
           /\ \A p \in Topics : LinesOf(t, f, w)[p] = None <=> t[p[1]] = None
<1> SUFFICES ASSUME NEW p \in Topics
             PROVE  /\ LinesOf(t, f, w)[p] \in Lines \cup {None}
                    /\ LinesOf(t, f, w)[p] = None <=> t[p[1]] = None
  BY DEF LinesOf
<1>1. p[1] \in Outputs
  BY DEF Topics
<1>2. CASE t[p[1]] = None
  BY <1>2 DEF LinesOf
<1>3. CASE t[p[1]] # None
  <2> DEFINE said == IF p[2] = "workspaces" THEN t[p[1]].spaces
                     ELSE IF p[1] = f /\ w # None THEN w ELSE t[p[1]].first
  <2>1. t[p[1]].spaces \in Spaces /\ t[p[1]].first \in Titles
    BY <1>1, <1>3, StreamAssumption
  <2>2. said \in Spaces \cup Titles
    BY <2>1 DEF Focusable
  <2>3. LinesOf(t, f, w)[p]
          = <<said, IF p[1] = f THEN "focused" ELSE "unfocused">>
    BY <1>3 DEF LinesOf
  <2> HIDE DEF said
  <2>4. LinesOf(t, f, w)[p] \in Lines
    BY <2>2, <2>3 DEF Lines
  <2> QED
    BY <1>3, <2>4, StreamAssumption
<1> QED
  BY <1>2, <1>3

LEMMA SnapshotType ==
    ASSUME TypeOK
    PROVE  /\ Snapshot \in [Topics -> Lines \cup {None}]
           /\ \A p \in Topics : Snapshot[p] = None <=> p[1] \notin Plugged
<1>1. \A p \in Topics : p[1] \in Outputs
  BY DEF Topics
<1> QED
  BY <1>1, LinesType DEF TypeOK, Snapshot, Plugged, Focusable

LEMMA InitInv == Init => Inv
<1> SUFFICES ASSUME Init PROVE Inv
  OBVIOUS
<1>1. PICK S \in SUBSET Outputs :
        text \in TextsOf(S) /\ focused \in IF S = {} THEN {None} ELSE S
  BY DEF Init
<1>2. /\ text \in [Outputs -> Texts \cup {None}] /\ Plugged = S
      /\ window \in Focusable
  BY <1>1 DEF TextsOf, Plugged, Init, Focusable
<1>3. gamma \in Levels /\ gamma # None
  BY StreamAssumption DEF Init, Levels
<1>4. /\ Snapshot \in [Topics -> Lines \cup {None}]
      /\ \A p \in Topics : Snapshot[p] = None <=> p[1] \notin Plugged
  <2>1. \A p \in Topics : p[1] \in Outputs
    BY DEF Topics
  <2> QED
    BY <1>2, <2>1, LinesType DEF Snapshot, Plugged
<1>5. NoView \in [Topics -> Lines \cup {None}]
      /\ \A p \in Topics : NoView[p] = None
  BY DEF NoView
<1>6. TypeOK
  <2>1. /\ launcher \in BOOLEAN /\ sent = NoView
        /\ client \in [Clients -> {"away", "connected", "subscriber", "deaf"}]
        /\ view \in [Clients -> [Topics -> Lines \cup {None}]]
        /\ level \in [Clients -> Levels \cup {None}]
    BY <1>3, <1>4, <1>5 DEF Init
  <2>2. \A c \in Clients, p \in Topics :
          view[c][p] # None <=> client[c] = "subscriber" /\ p[1] \in Plugged
    BY <1>4, <1>5 DEF Init
  <2> QED
    BY <1>1, <1>2, <1>3, <1>5, <2>1, <2>2 DEF TypeOK, Focusable
<1>7. GammaInStep
  BY DEF Init, GammaInStep
<1>8. Follows
  BY <1>5, StreamAssumption DEF Init, Follows
<1> QED
  BY <1>6, <1>7, <1>8 DEF Inv

-----------------------------------------------------------------------------
(* Broadcasts *)

(* A broadcast reaches every subscriber that keeps reading: it has the new *)
(* line, or it is the one that was sent last.                              *)
LEMMA BroadcastSays ==
    ASSUME TypeOK, NEW lines \in [Topics -> Lines \cup {None}],
           Broadcast(lines), NEW c \in Clients, client[c] = "subscriber",
           NEW p \in Topics
    PROVE  /\ sent'[p] = lines[p]
           /\ view'[c][p] = IF sent[p] # lines[p] \/ lines[p] = None
                            THEN lines[p] ELSE view[c][p]
<1>1. c \in Subscribers
  BY DEF Subscribers
<1>2. sent'[p] = lines[p]
  BY <1>1 DEF Broadcast
<1>3. view' = [d \in Clients |-> [q \in Topics |->
                  IF lines[q] = None THEN None
                  ELSE IF client[d] = "subscriber"
                          /\ q \in {r \in Topics : sent[r] # lines[r]}
                  THEN lines[q] ELSE view[d][q]]]
  BY DEF Broadcast, SendLines
<1> QED
  BY <1>2, <1>3

(* A handler that broadcasts lines for the outputs it leaves plugged in    *)
(* keeps the invariant.                                                    *)
LEMMA BroadcastInv ==
    ASSUME Inv, Settled', NEW lines \in [Topics -> Lines \cup {None}],
           \A p \in Topics : lines[p] = None <=> text'[p[1]] = None,
           Broadcast(lines), launcher' \in BOOLEAN,
           UNCHANGED <<gamma, client, level>>
    PROVE  Inv'
<1>1. \A p \in Topics : p[1] \in Plugged' <=> lines[p] # None
  BY DEF Plugged, Topics
<1>2. view' = [d \in Clients |-> [q \in Topics |->
                  IF lines[q] = None THEN None
                  ELSE IF client[d] = "subscriber"
                          /\ q \in {r \in Topics : sent[r] # lines[r]}
                  THEN lines[q] ELSE view[d][q]]]
  BY DEF Broadcast, SendLines
<1>3. sent' \in [Topics -> Lines \cup {None}]
      /\ \A p \in Topics : p[1] \notin Plugged' => sent'[p] = None
  BY <1>1 DEF Inv, TypeOK, Broadcast
<1>4. view' \in [Clients -> [Topics -> Lines \cup {None}]]
  BY <1>2 DEF Inv, TypeOK
<1>5. ASSUME NEW c \in Clients, NEW p \in Topics
      PROVE  view'[c][p] # None
                <=> client'[c] = "subscriber" /\ p[1] \in Plugged'
  <2>1. view'[c][p] = IF lines[p] = None THEN None
                      ELSE IF client[c] = "subscriber" /\ sent[p] # lines[p]
                      THEN lines[p] ELSE view[c][p]
    BY <1>2
  <2>2. sent[p] # None => p[1] \in Plugged
    BY DEF Inv, TypeOK
  <2>3. view[c][p] # None <=> client[c] = "subscriber" /\ p[1] \in Plugged
    BY DEF Inv, TypeOK
  <2> QED
    BY <1>1, <2>1, <2>2, <2>3
<1>6. TypeOK'
  BY <1>3, <1>4, <1>5 DEF Inv, TypeOK, Settled, Focusable
<1>7. GammaInStep'
  BY DEF Inv, GammaInStep
<1>8. Follows'
  <2> SUFFICES ASSUME NEW c \in Residents
               PROVE  /\ client'[c] = "subscriber"
                      /\ \A p \in Topics :
                            sent'[p] # None => view'[c][p] = sent'[p]
    BY DEF Follows
  <2>1. c \in Clients /\ client[c] = "subscriber"
    BY StreamAssumption DEF Inv, Follows
  <2>2. ASSUME NEW p \in Topics, sent'[p] # None
        PROVE  view'[c][p] = sent'[p]
    BY <2>1, <2>2, BroadcastSays DEF Inv, Follows
  <2> QED
    BY <2>1, <2>2
<1> QED
  BY <1>6, <1>7, <1>8 DEF Inv

-----------------------------------------------------------------------------
(* The handlers *)

LEMMA ChangeInv ==
    ASSUME Inv, NEW t \in TextsOf(Plugged), NEW f \in Plugged,
           NEW w \in Focusable, NEW l \in BOOLEAN, Change(t, f, w, l)
    PROVE  Inv'
<1>1. /\ text' = t /\ focused' = f /\ window' = w /\ launcher' = l
      /\ Broadcast(LinesOf(t, f, w)) /\ UNCHANGED <<gamma, client, level>>
  BY DEF Change
<1>2. t \in [Outputs -> Texts \cup {None}] /\ Plugged' = Plugged
  BY <1>1 DEF TextsOf, Plugged
<1>3. Settled'
  BY <1>1, <1>2 DEF Settled
<1> QED
  BY <1>1, <1>2, <1>3, LinesType, BroadcastInv

LEMMA SwitchInv ==
    ASSUME Inv, NEW t \in TextsOf(Plugged), NEW g \in Plugged,
           NEW v \in Focusable, NEW f \in Plugged,
           SwitchUnderLauncher(t, g, v, f)
    PROVE  Inv'
<1>1. /\ text' = t /\ focused' = f /\ window' = None /\ launcher' = launcher
      /\ Broadcast(LinesOf(t, g, v)) /\ UNCHANGED <<gamma, client, level>>
  BY DEF SwitchUnderLauncher
<1>2. t \in [Outputs -> Texts \cup {None}] /\ Plugged' = Plugged
  BY <1>1 DEF TextsOf, Plugged
<1>3. Settled' /\ launcher' \in BOOLEAN
  BY <1>1, <1>2 DEF Settled, Focusable, Inv, TypeOK
<1> QED
  BY <1>1, <1>2, <1>3, LinesType, BroadcastInv

LEMMA SilentInv ==
    ASSUME Inv, NEW f \in Plugged, NEW w \in Focusable, FocusSilently(f, w)
    PROVE  Inv'
<1>1. /\ focused' = f /\ window' = w
      /\ UNCHANGED <<text, launcher, gamma, sent, client, view, level>>
  BY DEF FocusSilently
<1>2. Plugged' = Plugged
  BY <1>1 DEF Plugged
<1> QED
  BY <1>1, <1>2 DEF Inv, TypeOK, GammaInStep, Follows, Focusable

LEMMA PlugInv ==
    ASSUME Inv, NEW o \in Outputs, PlugStep(o)
    PROVE  Inv'
<1>1. PICK said \in Texts, t \in Texts : Plug(o, said, t)
  BY DEF PlugStep
<1>2. /\ text' = [text EXCEPT ![o] = t]
      /\ focused' = IF focused = None THEN o ELSE focused
      /\ Broadcast(LinesOf([text EXCEPT ![o] = said], focused, window))
      /\ window' = window /\ launcher' = launcher
      /\ UNCHANGED <<gamma, client, level>>
  BY <1>1 DEF Plug
<1>3. /\ text \in [Outputs -> Texts \cup {None}]
      /\ focused \in IF Plugged = {} THEN {None} ELSE Plugged
      /\ window \in Focusable /\ launcher \in BOOLEAN
  BY DEF Inv, TypeOK, Focusable
<1> DEFINE before == [text EXCEPT ![o] = said]
<1>4. /\ text' \in [Outputs -> Texts \cup {None}]
      /\ before \in [Outputs -> Texts \cup {None}]
      /\ \A q \in Outputs : before[q] = None <=> text'[q] = None
  BY <1>2, <1>3, StreamAssumption
<1>5. Plugged' = Plugged \cup {o}
  BY <1>2, <1>3, StreamAssumption DEF Plugged
<1>6. Settled'
  <2>1. focused' \in Plugged'
    BY <1>2, <1>3, <1>5
  <2> QED
    BY <1>2, <1>3, <1>4, <2>1 DEF Settled
<1> HIDE DEF before
<1>7. /\ LinesOf(before, focused, window) \in [Topics -> Lines \cup {None}]
      /\ \A p \in Topics :
            LinesOf(before, focused, window)[p] = None <=> before[p[1]] = None
  BY <1>3, <1>4, LinesType
<1>8. \A p \in Topics :
        LinesOf(before, focused, window)[p] = None <=> text'[p[1]] = None
  BY <1>4, <1>7 DEF Topics
<1> QED
  BY <1>2, <1>3, <1>6, <1>7, <1>8, BroadcastInv DEF before

LEMMA UnplugInv ==
    ASSUME Inv, NEW o \in Outputs, UnplugStep(o)
    PROVE  Inv'
<1> DEFINE rest == Plugged \ {o}
           foci == IF rest = {} THEN {None} ELSE rest
<1>1. PICK t \in TextsOf(rest), g \in foci, f \in foci,
           v \in Focusable, w \in Focusable : Unplug(o, t, g, v, f, w)
  BY DEF UnplugStep
<1>2. /\ text' = t /\ focused' = f /\ window' = w /\ launcher' = launcher
      /\ Broadcast(LinesOf(t, g, v)) /\ UNCHANGED <<gamma, client, level>>
  BY <1>1 DEF Unplug
<1>3. t \in [Outputs -> Texts \cup {None}] /\ Plugged' = rest
  BY <1>2 DEF TextsOf, Plugged
<1>4. Settled' /\ launcher' \in BOOLEAN
  BY <1>2, <1>3 DEF Settled, Inv, TypeOK
<1> QED
  BY <1>2, <1>3, <1>4, LinesType, BroadcastInv

LEMMA GammaInv ==
    ASSUME Inv, NEW l \in Levels, SetGamma(l)
    PROVE  Inv'
<1>1. /\ gamma' = l
      /\ level' = [c \in Clients |-> IF client[c] = "subscriber" THEN l
                                     ELSE level[c]]
      /\ UNCHANGED <<text, focused, window, launcher, sent, client, view>>
  BY DEF SetGamma
<1>2. TypeOK'
  BY <1>1 DEF Inv, TypeOK, Plugged
<1>3. GammaInStep'
  BY <1>1 DEF GammaInStep
<1> QED
  BY <1>1, <1>2, <1>3 DEF Inv, Follows

LEMMA ClientInv ==
    ASSUME Inv, ClientStep
    PROVE  Inv'
<1>1. PICK c \in Clients \ Residents :
        Connect(c) \/ Subscribe(c) \/ Drop(c) \/ FillUp(c)
  BY DEF ClientStep
<1>2. /\ Snapshot \in [Topics -> Lines \cup {None}]
      /\ \A p \in Topics : Snapshot[p] = None <=> p[1] \notin Plugged
  BY SnapshotType DEF Inv
<1>3. NoView \in [Topics -> Lines \cup {None}]
      /\ \A p \in Topics : NoView[p] = None
  BY DEF NoView
<1>4. TypeOK
  BY DEF Inv
<1>5. CASE Connect(c)
  BY <1>4, <1>5 DEF Connect, Inv, TypeOK, GammaInStep, Follows, Plugged
<1>6. CASE Subscribe(c)
  <2>1. TypeOK'
    BY <1>2, <1>4, <1>6 DEF Subscribe, TypeOK, Plugged
  <2>2. GammaInStep' /\ Follows'
    BY <1>4, <1>6, StreamAssumption
       DEF Subscribe, Inv, TypeOK, GammaInStep, Follows
  <2> QED
    BY <2>1, <2>2 DEF Inv
<1>7. ASSUME NEW s \in {"away", "deaf"}, Lose(c, s)
      PROVE  Inv'
  <2>1. TypeOK'
    BY <1>3, <1>4, <1>7 DEF Lose, TypeOK, Plugged
  <2>2. GammaInStep' /\ Follows'
    BY <1>4, <1>7, StreamAssumption
       DEF Lose, Inv, TypeOK, GammaInStep, Follows
  <2> QED
    BY <2>1, <2>2 DEF Inv
<1> QED
  BY <1>1, <1>5, <1>6, <1>7 DEF Drop, FillUp

LEMMA NextInv == Inv /\ [Next]_vars => Inv'
<1> SUFFICES ASSUME Inv, [Next]_vars PROVE Inv'
  OBVIOUS
<1>1. CASE ChangeStep
  BY <1>1, ChangeInv DEF ChangeStep
<1>2. CASE FocusStep
  BY <1>2, SilentInv, SwitchInv DEF FocusStep
<1>3. CASE ClientStep
  BY <1>3, ClientInv
<1>4. ASSUME NEW o \in Outputs, PlugStep(o) \/ UnplugStep(o)
      PROVE  Inv'
  BY <1>4, PlugInv, UnplugInv
<1>5. ASSUME NEW l \in Levels, SetGamma(l)
      PROVE  Inv'
  BY <1>5, GammaInv
<1>6. CASE UNCHANGED vars
  BY <1>6 DEF vars, Inv, TypeOK, GammaInStep, Follows, Plugged
<1> QED
  BY <1>1, <1>2, <1>3, <1>4, <1>5, <1>6 DEF Next

LEMMA StreamInvariance == Spec => []Inv
BY InitInv, NextInv, PTL DEF Spec

(* Every subscriber that keeps reading has lines about every output that   *)
(* is plugged in, and nobody else has (ipc.c:672-677, status.c:202-218).   *)
THEOREM TypeCorrect == Spec => []TypeOK
<1>1. Inv => TypeOK
  BY DEF Inv
<1> QED
  BY <1>1, StreamInvariance, PTL

(* Subscribers that keep reading always know the night light, whichever    *)
(* way it is changed (gamma.c:86-107).                                     *)
THEOREM GammaStaysInStep == Spec => []GammaInStep
<1>1. Inv => GammaInStep
  BY DEF Inv
<1> QED
  BY <1>1, StreamInvariance, PTL

(* After a broadcast a bar that stays has the lines that were broadcast,   *)
(* those that were not sent again included.                                *)
LEMMA ResidentHas ==
    ASSUME Inv, NEW lines \in [Topics -> Lines \cup {None}],
           Broadcast(lines), NEW c \in Residents, NEW p \in Topics
    PROVE  view'[c][p] = lines[p]
<1>1. /\ c \in Clients /\ client[c] = "subscriber"
      /\ sent[p] # None => view[c][p] = sent[p]
  BY StreamAssumption DEF Inv, Follows
<1> QED
  BY <1>1, BroadcastSays DEF Inv

(* The handler broadcasts the line p as it is after the handler.           *)
Says(p) ==
    \E lines \in [Topics -> Lines \cup {None}] :
        Broadcast(lines) /\ lines[p] = Snapshot'[p]

(* Which output is focused, and what is said of the focused window, does   *)
(* not matter to the lines of an output that is not focused.               *)
LEMMA OtherLines ==
    ASSUME NEW t, NEW f, NEW g, NEW v, NEW w, NEW p \in Topics,
           p[1] \notin {f, g}
    PROVE  LinesOf(t, g, v)[p] = LinesOf(t, f, w)[p]
BY DEF LinesOf

(* A handler that changes the state behind the lines broadcasts, and what  *)
(* it broadcasts is the state it leaves, on the outputs it announces: the  *)
(* broadcasts that come too early, under a launcher and while an output is *)
(* plugged, are wrong about other outputs only.  The handlers that move    *)
(* the focused output and broadcast nothing do no more than that.          *)
LEMMA ChangeIsSaid ==
    ASSUME Inv, Next, Changed, NEW p \in Announced
    PROVE  Says(p)
<1>1. /\ p \in Topics /\ p[1] \in Outputs /\ text[p[1]] # None
      /\ launcher' => p[1] \notin {focused, focused'}
  BY DEF Announced, Plugged, Topics
<1>2. /\ text \in [Outputs -> Texts \cup {None}] /\ focused \in Plugged
      /\ window \in Focusable
  BY <1>1 DEF Inv, TypeOK, Plugged, Focusable
<1>3. Snapshot' = LinesOf(text', focused', window')
  BY DEF Snapshot, LinesOf
<1>4. ASSUME NEW S, NEW t \in TextsOf(S), NEW g, NEW v \in Focusable,
             \/ g = focused' /\ v = window'
             \/ launcher' /\ g \in {focused, focused'},
             text' = t, Broadcast(LinesOf(t, g, v))
      PROVE  Says(p)
  <2>1. LinesOf(t, g, v) \in [Topics -> Lines \cup {None}]
    BY LinesType DEF TextsOf
  <2>2. LinesOf(t, g, v)[p] = LinesOf(text', focused', window')[p]
    BY <1>1, <1>4, OtherLines
  <2> QED
    BY <1>3, <1>4, <2>1, <2>2 DEF Says
<1>5. CASE ChangeStep
  <2>1. PICK t \in TextsOf(Plugged), f \in Plugged, w \in Focusable,
             l \in BOOLEAN : Change(t, f, w, l)
    BY <1>5 DEF ChangeStep
  <2>2. /\ text' = t /\ focused' = f /\ window' = w
        /\ Broadcast(LinesOf(t, f, w))
    BY <2>1 DEF Change
  <2> QED
    BY <1>4, <2>2
<1>6. ASSUME NEW f \in Plugged, NEW w \in Focusable, FocusSilently(f, w)
      PROVE  FALSE
  BY <1>6 DEF FocusSilently, Changed
<1>7. ASSUME NEW f \in Plugged, NEW t \in TextsOf(Plugged), NEW g \in Plugged,
             NEW v \in Focusable, SwitchUnderLauncher(t, g, v, f)
      PROVE  Says(p)
  <2>1. /\ launcher' /\ g \in {focused, focused'} /\ text' = t
        /\ Broadcast(LinesOf(t, g, v))
    BY <1>7 DEF SwitchUnderLauncher
  <2> QED
    BY <1>4, <2>1
<1>8. CASE FocusStep
  BY <1>6, <1>7, <1>8 DEF FocusStep
<1>9. ASSUME NEW o \in Outputs, PlugStep(o) PROVE Says(p)
  <2>1. PICK said \in Texts, t \in Texts : Plug(o, said, t)
    BY <1>9 DEF PlugStep
  <2> DEFINE before == [text EXCEPT ![o] = said]
  <2>2. /\ o \notin Plugged /\ text' = [text EXCEPT ![o] = t]
        /\ focused' = IF focused = None THEN o ELSE focused
        /\ window' = window /\ Broadcast(LinesOf(before, focused, window))
    BY <2>1 DEF Plug
  <2>3. before \in [Outputs -> Texts \cup {None}]
    BY <1>2
  <2>4. before[p[1]] = text'[p[1]]
    BY <1>1, <1>2, <2>2 DEF Plugged
  <2>5. focused' = focused
    BY <1>2, <2>2, StreamAssumption DEF Plugged
  <2>6. Snapshot'[p] = LinesOf(before, focused, window)[p]
    BY <1>1, <1>3, <2>2, <2>4, <2>5 DEF LinesOf
  <2>7. LinesOf(before, focused, window) \in [Topics -> Lines \cup {None}]
    BY <1>2, <2>3, LinesType
  <2> HIDE DEF before
  <2> QED
    BY <2>2, <2>6, <2>7 DEF Says
<1>10. ASSUME NEW o \in Outputs, UnplugStep(o) PROVE Says(p)
  <2> DEFINE rest == Plugged \ {o}
             foci == IF rest = {} THEN {None} ELSE rest
  <2>1. PICK t \in TextsOf(rest), g \in foci, f \in foci,
             v \in Focusable, w \in Focusable : Unplug(o, t, g, v, f, w)
    BY <1>10 DEF UnplugStep
  <2>2. /\ \/ g = focused' /\ v = window'
           \/ launcher' /\ g \in {focused, focused'}
        /\ text' = t /\ Broadcast(LinesOf(t, g, v))
    BY <2>1 DEF Unplug
  <2> QED
    BY <1>4, <2>2
<1> QED
  BY <1>5, <1>8, <1>9, <1>10
     DEF Next, ClientStep, Connect, Subscribe, Drop, FillUp, Lose, SetGamma,
         Changed

(* When workspaces or windows change or another window is focused, every   *)
(* subscriber that keeps reading, whenever it came, has the lines as they  *)
(* now are, or the last broadcast said what the line is now: although the  *)
(* focused output may have moved before without a word, and excepting only *)
(* the outputs that lose or get the focus under a launcher                 *)
(* (status.c:165-192, seat.c:395).                                         *)
THEOREM ChangesAlwaysArrive == Spec => ChangesArrive
<1>1. Inv /\ [Next]_vars =>
        [Changed =>
            \A c \in Clients, p \in Announced :
                client[c] = "subscriber" =>
                    view'[c][p] = Snapshot'[p] \/ sent[p] = Snapshot'[p]]_vars
  <2> SUFFICES ASSUME Inv, Next, Changed, NEW c \in Clients,
                      NEW p \in Announced, client[c] = "subscriber"
               PROVE  view'[c][p] = Snapshot'[p] \/ sent[p] = Snapshot'[p]
    BY DEF vars, Changed
  <2>1. PICK lines \in [Topics -> Lines \cup {None}] :
          Broadcast(lines) /\ lines[p] = Snapshot'[p]
    BY ChangeIsSaid DEF Says
  <2>2. p \in Topics /\ TypeOK
    BY DEF Announced, Inv
  <2> QED
    BY <2>1, <2>2, BroadcastSays
<1> QED
  BY <1>1, StreamInvariance, PTL DEF Spec, ChangesArrive

(* After every such change the bars that stay are right about the same     *)
(* lines: what a resident has seen is what was last broadcast, so the ones *)
(* that are not sent again are those it has, and those that went wrong     *)
(* when the focused output moved are sent (status.c:165-192).              *)
THEOREM ResidentsStayInStep == Spec => ResidentsInStep
<1>1. Inv /\ [Next]_vars =>
        [Changed =>
            \A c \in Residents, p \in Announced :
                view'[c][p] = Snapshot'[p]]_vars
  <2> SUFFICES ASSUME Inv, Next, Changed,
                      NEW c \in Residents, NEW p \in Announced
               PROVE  view'[c][p] = Snapshot'[p]
    BY DEF vars, Changed
  <2>1. PICK lines \in [Topics -> Lines \cup {None}] :
          Broadcast(lines) /\ lines[p] = Snapshot'[p]
    BY ChangeIsSaid DEF Says
  <2>2. p \in Topics
    BY DEF Announced
  <2> QED
    BY <2>1, <2>2, ResidentHas
<1> QED
  BY <1>1, StreamInvariance, PTL DEF Spec, ResidentsInStep

-----------------------------------------------------------------------------
(* The night light *)

LEMMA MeantInt ==
    ASSUME NEW n \in Nat, NEW k \in Int, NEW v \in Meant(n, k)
    PROVE  v \in Int
BY DEF Meant

LEMMA GammaType ==
    ASSUME gamma \in Levels
    PROVE  /\ gamma.temperature \in {0} \cup 1000 .. 10000
           /\ gamma.brightness \in 0 .. 100
           /\ gamma.temperature \in Int /\ gamma.brightness \in Int
<1>1. /\ gamma.temperature \in {0} \cup 1000 .. 10000
      /\ gamma.brightness \in 0 .. 100
  BY DEF Levels
<1> DEFINE T == {0} \cup 1000 .. 10000
           B == 0 .. 100
<1>2. T \subseteq Int /\ B \subseteq Int
  OBVIOUS
<1>3. gamma.temperature \in T /\ gamma.brightness \in B
  BY <1>1
<1> HIDE DEF T, B
<1>4. gamma.temperature \in Int /\ gamma.brightness \in Int
  BY <1>2, <1>3
<1> QED
  BY <1>1, <1>4

(* The command only sets what a line can say: the light in its range.      *)
LEMMA CommandSets ==
    ASSUME gamma \in Levels, LightTypeOK, CommandStep
    PROVE  \/ \E l \in Levels :
                 /\ SetGamma(l)
                 /\ transform' = [o \in Outputs |->
                       IF o \in Plugged THEN Transform(gamma') ELSE None]
                 /\ UNCHANGED <<floor, ceiling>>
           \/ /\ floor' \in 0 .. 100 /\ ceiling' \in 0 .. 100
              /\ UNCHANGED <<vars, transform>>
<1> DEFINE Set ==
             \E l \in Levels :
                 /\ SetGamma(l)
                 /\ transform' = [o \in Outputs |->
                       IF o \in Plugged THEN Transform(gamma') ELSE None]
                 /\ UNCHANGED <<floor, ceiling>>
<1>1. /\ floor \in 0 .. 100 /\ ceiling \in 0 .. 100
      /\ gamma.temperature \in {0} \cup 1000 .. 10000
      /\ gamma.brightness \in 0 .. 100
      /\ gamma.temperature \in Int /\ gamma.brightness \in Int
  BY GammaType DEF LightTypeOK
<1>2. ASSUME GammaOff PROVE Set
  <2>1. 0 \in {0} \cup 1000 .. 10000 /\ 100 \in 0 .. 100
    OBVIOUS
  <2>2. [temperature |-> 0, brightness |-> 100] \in Levels
    BY <2>1 DEF Levels
  <2> QED
    BY <1>2, <2>2 DEF GammaOff, SetLight
<1>3. ASSUME NEW n \in Percents, GammaMin(n) \/ GammaMax(n)
      PROVE  /\ floor' \in 0 .. 100 /\ ceiling' \in 0 .. 100
             /\ UNCHANGED <<vars, transform>>
  <2>1. n \in Int
    BY LightAssumption
  <2>2. Clamp(n, 0, 100) \in 0 .. 100
    BY <2>1 DEF Clamp
  <2> QED
    BY <1>1, <1>3, <2>2 DEF GammaMin, GammaMax
<1>4. ASSUME NEW n \in Percents, GammaBrightness(n)
      PROVE  Set
  <2>1. PICK v \in Meant(n, gamma.brightness) :
          SetLight(gamma.temperature, Clamp(v, floor, ceiling))
    BY <1>4 DEF GammaBrightness
  <2>2. v \in Int
    BY <1>1, MeantInt, LightAssumption
  <2>3. Clamp(v, floor, ceiling) \in 0 .. 100
    BY <1>1, <2>2 DEF Clamp
  <2>4. [temperature |-> gamma.temperature,
         brightness |-> Clamp(v, floor, ceiling)] \in Levels
    BY <1>1, <2>3 DEF Levels
  <2> QED
    BY <2>1, <2>4 DEF SetLight
<1>5. ASSUME NEW n \in Kelvins, GammaTemperature(n)
      PROVE  Set
  <2> DEFINE baseline == IF gamma.temperature > 0 THEN gamma.temperature
                         ELSE 6500
  <2>1. PICK v \in Meant(n, baseline) :
          SetLight(Clamp(v, 1000, 10000), gamma.brightness)
    BY <1>5 DEF GammaTemperature
  <2>2. baseline \in Int
    <3>1. gamma.temperature \in Int
      BY <1>1
    <3> QED
      BY <3>1
  <2>3. v \in Int
    BY <2>2, MeantInt, LightAssumption
  <2>4. Clamp(v, 1000, 10000) \in 1000 .. 10000
    BY <2>3 DEF Clamp
  <2>5. [temperature |-> Clamp(v, 1000, 10000),
         brightness |-> gamma.brightness] \in Levels
    BY <1>1, <2>4 DEF Levels
  <2> QED
    BY <2>1, <2>5 DEF SetLight
<1>6. ASSUME NEW t \in Kelvins, NEW b \in Percents, GammaAbsolute(t, b)
      PROVE  Set
  <2>1. Clamp(b, floor, ceiling) \in 0 .. 100
    BY <1>1, LightAssumption DEF Clamp
  <2>2. t \in {0} \cup 1000 .. 10000
    BY <1>6 DEF GammaAbsolute
  <2>3. [temperature |-> t, brightness |-> Clamp(b, floor, ceiling)] \in Levels
    BY <2>1, <2>2 DEF Levels
  <2> QED
    BY <1>6, <2>3 DEF GammaAbsolute, SetLight
<1> HIDE DEF Set
<1>7. Set \/ \E n \in Percents : GammaMin(n) \/ GammaMax(n)
  BY <1>2, <1>4, <1>5, <1>6 DEF CommandStep
<1>8. CASE Set
  BY <1>8 DEF Set
<1> QED
  BY <1>3, <1>7, <1>8

(* A step of the night light is one of the stream.                         *)
LEMMA LightStepIsStream ==
    ASSUME gamma \in Levels, LightTypeOK, [LightNext]_lightVars
    PROVE  [Next]_vars
<1>1. CASE OtherStep
  BY <1>1 DEF OtherStep, Next
<1>2. CASE CommandStep
  BY <1>2, CommandSets DEF Next
<1>3. ASSUME NEW o \in Outputs, PlugLit(o) \/ UnplugLit(o)
      PROVE  Next
  BY <1>3 DEF PlugLit, UnplugLit, Next
<1>4. CASE UNCHANGED lightVars
  BY <1>4 DEF lightVars
<1> QED
  BY <1>1, <1>2, <1>3, <1>4 DEF LightNext

LightInv == TypeOK /\ LightTypeOK /\ OutputsLit

LEMMA LightStepInv ==
    ASSUME LightInv, TypeOK', [LightNext]_lightVars
    PROVE  LightInv'
<1>1. gamma \in Levels /\ LightTypeOK /\ OutputsLit
  BY DEF LightInv, TypeOK
<1>2. ASSUME NEW l \in Levels PROVE Transform(l) \in Levels \cup {None}
  BY DEF Transform
<1>3. CASE OtherStep
  <2>1. gamma' = gamma /\ Plugged' = Plugged
    BY <1>3 DEF OtherStep, ChangeStep, FocusStep, ClientStep, Change,
                FocusSilently, SwitchUnderLauncher, Connect, Subscribe, Drop,
                FillUp, Lose, TextsOf, Plugged
  <2>2. UNCHANGED <<floor, ceiling, transform>>
    BY <1>3 DEF OtherStep
  <2> QED
    BY <1>1, <2>1, <2>2 DEF LightInv, LightTypeOK, OutputsLit, Transform
<1>4. CASE CommandStep
  <2>1. CASE \E l \in Levels :
               /\ SetGamma(l)
               /\ transform' = [o \in Outputs |->
                     IF o \in Plugged THEN Transform(gamma') ELSE None]
               /\ UNCHANGED <<floor, ceiling>>
    <3>1. Plugged' = Plugged /\ gamma' \in Levels
      BY <2>1 DEF SetGamma, Plugged
    <3>2. LightTypeOK'
      BY <1>1, <1>2, <2>1, <3>1 DEF LightTypeOK
    <3>3. OutputsLit'
      BY <2>1, <3>1 DEF OutputsLit, Transform
    <3> QED
      BY <3>2, <3>3 DEF LightInv
  <2>2. CASE /\ floor' \in 0 .. 100 /\ ceiling' \in 0 .. 100
             /\ UNCHANGED <<vars, transform>>
    BY <1>1, <2>2
       DEF LightInv, LightTypeOK, OutputsLit, Transform, vars, Plugged
  <2> QED
    BY <1>1, <1>4, <2>1, <2>2, CommandSets
<1>5. ASSUME NEW o \in Outputs, PlugLit(o)
      PROVE  LightInv'
  <2>1. PICK t \in Texts : text' = [text EXCEPT ![o] = t] /\ gamma' = gamma
    BY <1>5 DEF PlugLit, PlugStep, Plug
  <2>2. Plugged' = Plugged \cup {o}
    BY <2>1, StreamAssumption DEF Plugged, LightInv, TypeOK
  <2>3. transform' = [transform EXCEPT ![o] = Transform(gamma)]
        /\ UNCHANGED <<floor, ceiling>>
    BY <1>5 DEF PlugLit
  <2>4. LightTypeOK'
    BY <1>1, <1>2, <2>3 DEF LightTypeOK
  <2>5. OutputsLit'
    BY <1>1, <2>1, <2>2, <2>3 DEF OutputsLit, LightTypeOK, Transform
  <2> QED
    BY <2>4, <2>5 DEF LightInv
<1>6. ASSUME NEW o \in Outputs, UnplugLit(o)
      PROVE  LightInv'
  <2>1. PICK t \in TextsOf(Plugged \ {o}) : text' = t /\ gamma' = gamma
    BY <1>6 DEF UnplugLit, UnplugStep, Unplug
  <2>2. Plugged' = Plugged \ {o}
    BY <2>1 DEF TextsOf, Plugged
  <2>3. transform' = [transform EXCEPT ![o] = None]
        /\ UNCHANGED <<floor, ceiling>>
    BY <1>6 DEF UnplugLit
  <2>4. LightTypeOK'
    BY <1>1, <2>3 DEF LightTypeOK
  <2>5. OutputsLit'
    BY <1>1, <2>1, <2>2, <2>3 DEF OutputsLit, LightTypeOK, Transform
  <2> QED
    BY <2>4, <2>5 DEF LightInv
<1>7. CASE UNCHANGED lightVars
  BY <1>1, <1>7
     DEF lightVars, vars, LightInv, LightTypeOK, OutputsLit, Transform, Plugged
<1> QED
  BY <1>3, <1>4, <1>5, <1>6, <1>7 DEF LightNext

LEMMA LightInitInv == LightInit => Inv /\ LightInv
<1> SUFFICES ASSUME LightInit PROVE Inv /\ LightInv
  OBVIOUS
<1>1. Inv
  BY InitInv DEF LightInit
<1>2. LightTypeOK
  BY DEF LightInit, LightTypeOK, Neutral
<1>3. OutputsLit
  BY DEF LightInit, Init, OutputsLit, Neutral, Transform
<1> QED
  BY <1>1, <1>2, <1>3 DEF Inv, LightInv

LEMMA LightInvariance == LightSpec => [](Inv /\ LightInv)
<1>1. Inv /\ LightInv /\ [LightNext]_lightVars => (Inv /\ LightInv)'
  <2> SUFFICES ASSUME Inv, LightInv, [LightNext]_lightVars
               PROVE  Inv' /\ LightInv'
    OBVIOUS
  <2>1. [Next]_vars
    BY LightStepIsStream DEF LightInv, TypeOK
  <2>2. Inv' /\ TypeOK'
    BY <2>1, NextInv DEF Inv
  <2> QED
    BY <2>2, LightStepInv
<1> QED
  BY <1>1, LightInitInv, PTL DEF LightSpec

(* The night light with its command and hot-plugging keeps to the status   *)
(* stream: what is proved of the stream holds for it, and every setting    *)
(* the command makes is in its range (ipc.c:435-533).                      *)
THEOREM LightImplementsStream == LightSpec => Spec
<1>1. LightInit => Init
  BY DEF LightInit
<1>2. LightInv /\ [LightNext]_lightVars => [Next]_vars
  BY LightStepIsStream DEF LightInv, TypeOK
<1> QED
  BY <1>1, <1>2, LightInvariance, PTL DEF LightSpec, Spec

(* Every output that is plugged in shows the light as it is set, also one  *)
(* that was plugged in later (gamma.c:51-107, output.c:176).               *)
THEOREM EveryOutputLit == LightSpec => []OutputsLit
<1>1. LightInv => OutputsLit
  BY DEF LightInv
<1> QED
  BY <1>1, LightInvariance, PTL
=============================================================================
