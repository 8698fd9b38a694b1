--------------------------- MODULE KeyboardsProofs ---------------------------
(***************************************************************************)
(* Proofs about Keyboards, for any set of keyboards, keys, bindings and    *)
(* windows: its variables keep their types, no client believes a key held  *)
(* that no keyboard holds, the client that has the keyboard knows the      *)
(* state of Logo, and a physical keyboard is offered to the clients;       *)
(* and of its steps: the keyboard follows the focus, and bound keys are    *)
(* kept from the clients.                                                  *)
(***************************************************************************)
EXTENDS Keyboards, TLAPS

(***************************************************************************)
(* The invariant.  Sound(s, held): the seat s is set to a keyboard that is *)
(* there, what its client believes held is held according to `held`, and   *)
(* the client's Logo is its keyboard's.  It is stated of any such seat     *)
(* because one handler changes the seat several times.                     *)
(***************************************************************************)
Sound(s, held) ==
    /\ s \in Seats
    /\ s.keyboard \in keyboards \cup {None}
    /\ \A key \in s.keys : \E k \in Devices : key \in held[k]
    /\ s.surface # None /\ s.keyboard # None => s.logo = logo[s.keyboard]

\* A keyboard that is not there holds nothing.
Quiet == \A k \in Devices \ keyboards : down[k] = {} /\ logo[k] = FALSE

\* Only a keyboard that is there is offered, and a physical one always is.
Offer ==
    /\ capable => keyboards # {}
    /\ keyboards \ Virtual # {} => capable

Inv ==
    /\ TypeOK
    /\ Quiet
    /\ Sound(seat, down)
    /\ Offer

Held == [Devices -> SUBSET Keys]

Focus == [focused : Windows \cup {None}, layer : {Launcher, None}, seat : Seats]

-----------------------------------------------------------------------------
(* What the seat's operations preserve *)

LEMMA SetKeyboardSound ==
    ASSUME TypeOK, NEW s, NEW held, Sound(s, held), NEW k \in keyboards
    PROVE  /\ Sound(SetKeyboard(s, k), held)
           /\ SetKeyboard(s, k).keyboard = k
           /\ SetKeyboard(s, k).keys = s.keys
           /\ SetKeyboard(s, k).surface = s.surface
BY KeyboardsAssumption DEF Sound, SetKeyboard, Seats, TypeOK

LEMMA EnterSound ==
    ASSUME TypeOK, NEW s, NEW held \in Held, Sound(s, held),
           NEW x \in Surfaces
    PROVE  Sound(EnterIfKeyboard(s, x, held), held)
<1>1. CASE s.keyboard = None \/ s.surface = x
  BY <1>1 DEF EnterIfKeyboard, Enter
<1>2. CASE s.keyboard # None /\ s.surface # x
  <2>1. s.keyboard \in Devices
    BY <1>2 DEF Sound, TypeOK
  <2>2. held[s.keyboard] \subseteq Keys
    BY <2>1 DEF Held
  <2> QED
    BY <1>2, <2>1, <2>2 DEF EnterIfKeyboard, Enter, Sound, Seats, TypeOK
<1> QED
  BY <1>1, <1>2

LEMMA LeaveSound ==
    ASSUME NEW s, NEW held, Sound(s, held)
    PROVE  Sound(Leave(s), held)
BY DEF Leave, Sound, Seats

LEMMA FocusWindowSound ==
    ASSUME TypeOK, NEW held \in Held, NEW f \in Focus, Sound(f.seat, held),
           NEW w \in Windows
    PROVE  /\ FocusWindow(f, w, held) \in Focus
           /\ Sound(FocusWindow(f, w, held).seat, held)
<1>1. Sound(EnterIfKeyboard(f.seat, w, held), held)
  BY EnterSound DEF Surfaces
<1>2. EnterIfKeyboard(f.seat, w, held) \in Seats
  BY <1>1 DEF Sound
<1> QED
  BY <1>1, <1>2 DEF FocusWindow, Focus

LEMMA FocusActiveSound ==
    ASSUME TypeOK, NEW held \in Held, NEW f \in Focus, Sound(f.seat, held),
           NEW w \in Windows \cup {None}
    PROVE  /\ FocusActive(f, w, held) \in Focus
           /\ Sound(FocusActive(f, w, held).seat, held)
<1>1. CASE w = None
  <2>1. Sound(Leave(f.seat), held)
    BY LeaveSound
  <2>2. Leave(f.seat) \in Seats
    BY <2>1 DEF Sound
  <2> QED
    BY <1>1, <2>1, <2>2 DEF FocusActive, Focus
<1>2. CASE w # None
  <2> DEFINE g == [f EXCEPT !.focused = None]
  <2>1. g \in Focus /\ g.seat = f.seat
    BY DEF Focus
  <2> HIDE DEF g
  <2>2. FocusWindow(g, w, held) \in Focus /\ Sound(FocusWindow(g, w, held).seat, held)
    BY <1>2, <2>1, FocusWindowSound
  <2> QED
    BY <1>2, <2>2 DEF FocusActive, g
<1> QED
  BY <1>1, <1>2

LEMMA RefocusedSound ==
    ASSUME TypeOK, NEW held \in Held, NEW f \in Focus, Sound(f.seat, held),
           NEW g \in Refocused(f, held)
    PROVE  g \in Focus /\ Sound(g.seat, held)
BY FocusWindowSound, FocusActiveSound DEF Refocused

LEMMA CurrentSound ==
    ASSUME Inv
    PROVE  Current \in Focus /\ Sound(Current.seat, down) /\ down \in Held
BY DEF Inv, Current, Focus, TypeOK, Held

-----------------------------------------------------------------------------
(* Every action preserves the invariant.  A step that leaves the keyboards *)
(* alone need only set a sound seat.                                       *)

LEMMA UnchangedKeyboards ==
    ASSUME Inv, NEW f \in Focus, Sound(f.seat, down), SetFocus(f),
           inhibitors' \subseteq Windows,
           bound' \subseteq Bindings,
           UNCHANGED <<keyboards, down, logo, capable>>
    PROVE  Inv'
<1>1. seat' = f.seat
  BY DEF SetFocus
<1>2. Sound(seat, down)'
  BY <1>1 DEF Sound
<1>3. TypeOK'
  BY DEF Inv, TypeOK, SetFocus, Focus
<1> QED
  BY <1>2, <1>3 DEF Inv, Quiet, Offer, Sound

LEMMA ChangeFocusInv ==
    ASSUME Inv, ChangeFocus
    PROVE  Inv'
<1>1. TypeOK /\ inhibitors' \subseteq Windows /\ bound' \subseteq Bindings
  BY DEF Inv, TypeOK, ChangeFocus
<1>2. PICK f \in Refocused(Current, down) : SetFocus(f)
  BY DEF ChangeFocus
<1>3. f \in Focus /\ Sound(f.seat, down)
  BY <1>1, <1>2, CurrentSound, RefocusedSound
<1> QED
  BY <1>1, <1>2, <1>3, UnchangedKeyboards DEF ChangeFocus

LEMMA MapLauncherInv ==
    ASSUME Inv, MapLauncher
    PROVE  Inv'
<1> DEFINE f == [focused |-> focused, layer |-> Launcher,
                 seat |-> EnterIfKeyboard(seat, Launcher, down)]
<1>1. Sound(EnterIfKeyboard(seat, Launcher, down), down)
  BY CurrentSound, EnterSound DEF Inv, Surfaces
<1>2. f \in Focus /\ f.seat = EnterIfKeyboard(seat, Launcher, down)
  BY <1>1 DEF Sound, Focus, Inv, TypeOK
<1>3. SetFocus(f) /\ inhibitors' \subseteq Windows /\ bound' \subseteq Bindings
  BY DEF MapLauncher, Inv, TypeOK
<1> QED
  BY <1>1, <1>2, <1>3, UnchangedKeyboards DEF MapLauncher

LEMMA UnmapLauncherInv ==
    ASSUME Inv, UnmapLauncher
    PROVE  Inv'
<1> DEFINE g == [Current EXCEPT !.layer = None]
<1>1. TypeOK /\ inhibitors' \subseteq Windows /\ bound' \subseteq Bindings
  BY DEF Inv, TypeOK, UnmapLauncher
<1>2. g \in Focus /\ g.seat = seat
  BY CurrentSound DEF Focus, Current
<1>3. Sound(g.seat, down) /\ down \in Held
  BY <1>2, CurrentSound DEF Inv
<1>4. PICK w \in Windows \cup {None} : SetFocus(FocusActive(g, w, down))
  BY DEF UnmapLauncher
<1> HIDE DEF g
<1>5. /\ FocusActive(g, w, down) \in Focus
      /\ Sound(FocusActive(g, w, down).seat, down)
  BY <1>1, <1>2, <1>3, FocusActiveSound
<1> QED
  BY <1>1, <1>4, <1>5, UnchangedKeyboards DEF UnmapLauncher

LEMMA InhibitInv ==
    ASSUME Inv, NEW w \in Windows, Inhibit(w)
    PROVE  Inv'
<1>1. Current \in Focus /\ Sound(Current.seat, down)
  BY CurrentSound
<1>2. SetFocus(Current) /\ inhibitors' \subseteq Windows /\ bound' \subseteq Bindings
  BY DEF Inhibit, SetFocus, Current, Inv, TypeOK
<1> QED
  BY <1>1, <1>2, UnchangedKeyboards DEF Inhibit

\* Whatever is mapped and unmapped, only what may be bound is.
LEMMA ReboundBindings ==
    ASSUME bound \subseteq Bindings, NEW table \in Rebound
    PROVE  table \subseteq Bindings
BY KeyboardsAssumption DEF Rebound, Added, Removed

LEMMA MapCommandInv ==
    ASSUME Inv, MapCommand
    PROVE  Inv'
<1>1. bound' \subseteq Bindings
  BY ReboundBindings DEF Inv, TypeOK, MapCommand
<1>2. Current \in Focus /\ Sound(Current.seat, down)
  BY CurrentSound
<1>3. SetFocus(Current) /\ inhibitors' \subseteq Windows
  BY DEF MapCommand, SetFocus, Current, Inv, TypeOK
<1> QED
  BY <1>1, <1>2, <1>3, UnchangedKeyboards DEF MapCommand

-----------------------------------------------------------------------------
(* Keys *)

\* Once k's own modifiers may have changed, the seat is sound again because
\* the modifiers event follows.
LEMMA ModifiedSound ==
    ASSUME Inv, NEW k \in keyboards, NEW key \in Keys, NEW held \in BOOLEAN,
           NEW f \in Focus, NEW keys \in Held, Sound(f.seat, keys),
           key = Super \/ held = logo[k] \/ logo' = logo,
           logo' = [logo EXCEPT ![k] = IF key = Super THEN held ELSE @],
           SetFocus([f EXCEPT !.seat = Modified(@, k, key, held)]),
           down' = keys, keyboards' = keyboards, capable' = capable,
           inhibitors' = inhibitors
    PROVE  /\ seat' \in Seats
           /\ focused' \in Windows \cup {None}
           /\ layer' \in {Launcher, None}
           /\ Sound(seat, down)'
<1> DEFINE s == SetKeyboard(f.seat, k)
<1>1. k \in Devices /\ TypeOK
  BY DEF Inv, TypeOK
<1>2. /\ Sound(s, keys)
      /\ s.keyboard = k /\ s.keys = f.seat.keys /\ s.surface = f.seat.surface
  BY <1>1, SetKeyboardSound
<1>3. /\ seat' = Modified(f.seat, k, key, held)
      /\ focused' = f.focused
      /\ layer' = f.layer
  BY DEF SetFocus, Focus
<1>4. CASE key = Super
  <2>1. seat' = NotifyLogo(s, held)
    BY <1>3, <1>4 DEF Modified
  <2>2. logo'[k] = held
    BY <1>1, <1>4 DEF TypeOK
  <2> HIDE DEF s
  <2>3. /\ seat' \in Seats /\ seat'.keyboard = k /\ seat'.keys = s.keys
        /\ seat'.surface = s.surface
        /\ s.surface # None => seat'.logo = held
    BY <1>2, <2>1 DEF Sound, NotifyLogo, Seats
  <2>4. Sound(seat, down)'
    BY <1>2, <2>2, <2>3 DEF Sound
  <2> QED
    BY <1>3, <2>3, <2>4 DEF Focus
<1>5. CASE key # Super
  <2>1. seat' = f.seat /\ logo' = logo
    BY <1>1, <1>3, <1>5 DEF Modified, TypeOK
  <2>2. Sound(seat, down)'
    BY <2>1 DEF Sound
  <2> QED
    BY <1>3, <2>1, <2>2 DEF Focus
<1> QED
  BY <1>4, <1>5

LEMMA PressInv ==
    ASSUME Inv, NEW k \in Devices, NEW key \in Keys, Press(k, key)
    PROVE  Inv'
<1> DEFINE keys == [down EXCEPT ![k] = @ \cup {key}]
<1>1. TypeOK /\ k \in keyboards
  BY DEF Inv, Press
<1>2. keys \in Held /\ down' = keys
  BY <1>1 DEF TypeOK, Held, Press
<1>3. \A j \in Devices : down[j] \subseteq keys[j]
  BY <1>1 DEF TypeOK
<1>4. key \in keys[k]
  BY <1>1 DEF TypeOK
<1> HIDE DEF keys
<1>5. Current \in Focus /\ Current.seat = seat /\ Sound(seat, keys)
  BY <1>3, CurrentSound DEF Current, Sound, Inv
<1>6. PICK f : /\ \/ f = Current
                  \/ f \in Refocused(Current, keys)
                  \/ f = [Current EXCEPT !.seat = ForwardPress(k, key)]
               /\ SetFocus([f EXCEPT !.seat = Modified(@, k, key, TRUE)])
  BY DEF Press, keys
<1>7. f \in Focus /\ Sound(f.seat, keys)
  <2>1. CASE f \in Refocused(Current, keys)
    BY <1>1, <1>2, <1>5, <2>1, RefocusedSound
  <2>2. CASE f = [Current EXCEPT !.seat = ForwardPress(k, key)]
    <3> DEFINE s == SetKeyboard(seat, k)
    <3>1. Sound(s, keys)
      BY <1>1, <1>5, SetKeyboardSound
    <3> HIDE DEF s
    <3>2. Sound(NotifyPress(s, key), keys)
      BY <1>1, <1>4, <3>1 DEF NotifyPress, Sound, Seats
    <3>3. ForwardPress(k, key) = NotifyPress(s, key)
      BY DEF ForwardPress, s
    <3>4. f.seat = ForwardPress(k, key) /\ (ForwardPress(k, key) \in Seats => f \in Focus)
      BY <1>5, <2>2 DEF Focus
    <3> QED
      BY <3>2, <3>3, <3>4 DEF Sound
  <2> QED
    BY <1>5, <1>6, <2>1, <2>2
<1>8. logo' = [logo EXCEPT ![k] = IF key = Super THEN TRUE ELSE @]
  BY <1>1 DEF Press, TypeOK
<1>9. /\ keyboards' = keyboards /\ capable' = capable
      /\ inhibitors' = inhibitors
  BY DEF Press
<1>10. key = Super \/ TRUE = logo[k] \/ logo' = logo
  BY <1>1, <1>8 DEF TypeOK
<1>11. /\ seat' \in Seats /\ Sound(seat, down)'
       /\ focused' \in Windows \cup {None} /\ layer' \in {Launcher, None}
  BY <1>1, <1>2, <1>6, <1>7, <1>8, <1>9, <1>10, ModifiedSound
<1>12. bound' \subseteq Bindings
  BY <1>1, ReboundBindings DEF Press, TypeOK
<1>13. TypeOK'
  BY <1>1, <1>2, <1>8, <1>9, <1>11, <1>12 DEF TypeOK, Held
<1>14. Quiet'
  <2> SUFFICES ASSUME NEW j \in Devices, j \notin keyboards
               PROVE  down'[j] = {} /\ logo'[j] = FALSE
    BY <1>9 DEF Quiet
  <2> QED
    BY <1>1, <1>2, <1>8 DEF keys, Inv, Quiet, TypeOK
<1> QED
  BY <1>9, <1>11, <1>13, <1>14 DEF Inv, Offer, Sound

\* No client holds a key that a keyboard has just let go, unless another
\* keyboard holds it.
LEMMA ReleaseInv ==
    ASSUME Inv, NEW k \in Devices, NEW key \in Keys, Release(k, key)
    PROVE  Inv'
<1> DEFINE keys == [down EXCEPT ![k] = @ \ {key}]
           s == ForwardRelease(k, key)
           f == [focused |-> focused, layer |-> layer, seat |-> s]
<1>1. TypeOK /\ k \in keyboards
  BY DEF Inv, Release
<1>2. keys \in Held /\ down' = keys
  BY <1>1 DEF TypeOK, Held, Release
<1>3. /\ Sound(SetKeyboard(seat, k), down)
      /\ SetKeyboard(seat, k).keys = seat.keys
  BY <1>1, SetKeyboardSound DEF Inv
<1>4. Sound(s, keys)
  <2> DEFINE t == SetKeyboard(seat, k)
  <2>1. s = [t EXCEPT !.keys = @ \ {key}]
    BY DEF ForwardRelease, NotifyRelease
  <2> HIDE DEF t
  <2>2. Sound(t, down)
    BY <1>3 DEF t
  <2>3. /\ s \in Seats /\ s.keyboard = t.keyboard /\ s.surface = t.surface
        /\ s.logo = t.logo /\ s.keys = t.keys \ {key}
    BY <2>1, <2>2 DEF Sound, Seats
  <2>4. \A other \in s.keys : \E j \in Devices : other \in keys[j]
    <3> SUFFICES ASSUME NEW other \in s.keys
                 PROVE  \E j \in Devices : other \in keys[j]
      OBVIOUS
    <3>1. PICK j \in Devices : other \in down[j]
      BY <2>2, <2>3 DEF Sound
    <3>2. other # key
      BY <2>3
    <3> QED
      BY <1>1, <3>1, <3>2 DEF TypeOK
  <2> QED
    BY <2>2, <2>3, <2>4 DEF Sound
<1>5. f \in Focus /\ f.seat = s
  BY <1>1, <1>4 DEF Sound, Focus, TypeOK
<1> HIDE DEF keys, s
<1>6. SetFocus([f EXCEPT !.seat = Modified(@, k, key, FALSE)])
  BY DEF Release, SetFocus, s
<1>7. logo' = [logo EXCEPT ![k] = IF key = Super THEN FALSE ELSE @]
  BY <1>1 DEF Release, TypeOK
<1>8. /\ keyboards' = keyboards /\ capable' = capable
      /\ inhibitors' = inhibitors /\ bound' = bound
  BY DEF Release
<1>9. key = Super \/ FALSE = logo[k] \/ logo' = logo
  BY <1>1, <1>7 DEF TypeOK
<1> HIDE DEF f
<1>10. /\ seat' \in Seats /\ Sound(seat, down)'
       /\ focused' \in Windows \cup {None} /\ layer' \in {Launcher, None}
  BY <1>1, <1>2, <1>4, <1>5, <1>6, <1>7, <1>8, <1>9, ModifiedSound
<1>11. TypeOK'
  BY <1>1, <1>2, <1>7, <1>8, <1>10 DEF TypeOK, Held
<1>12. Quiet'
  <2> SUFFICES ASSUME NEW j \in Devices, j \notin keyboards
               PROVE  down'[j] = {} /\ logo'[j] = FALSE
    BY <1>8 DEF Quiet
  <2> QED
    BY <1>1, <1>2, <1>7 DEF keys, Inv, Quiet, TypeOK
<1> QED
  BY <1>8, <1>10, <1>11, <1>12 DEF Inv, Offer, Sound

-----------------------------------------------------------------------------
(* Keyboards come and go *)

\* What comes of the seat s when the capabilities are updated, or left alone:
\* its client hears nothing new but what is down on the seat's keyboard.
Becomes(s) ==
    /\ seat' \in Seats /\ capable' \in BOOLEAN
    /\ seat'.keyboard = s.keyboard /\ seat'.surface = s.surface
    /\ \/ seat'.keys \subseteq s.keys
       \/ s.keyboard # None /\ seat'.keys = down[s.keyboard]
    /\ s.surface # None /\ s.keyboard # None =>
          seat'.logo \in {s.logo, logo[s.keyboard]}

LEMMA UpdateBecomes ==
    ASSUME TypeOK, NEW s \in Seats, UpdateCapabilities(s)
    PROVE  Becomes(s) /\ capable' = (keyboards' # {})
<1>1. /\ capable' = (keyboards' # {})
      /\ seat' \in {s, Offered(s), [s EXCEPT !.keys = {}]}
  BY DEF UpdateCapabilities
<1>2. s.keyboard # None =>
        down[s.keyboard] \subseteq Keys /\ logo[s.keyboard] \in BOOLEAN
  BY DEF Seats, TypeOK
<1>3. CASE seat' \in {s, [s EXCEPT !.keys = {}]}
  BY <1>1, <1>3 DEF Becomes, Seats
<1>4. CASE seat' = Offered(s)
  <2>1. CASE s.surface = None \/ s.keyboard = None
    BY <1>1, <1>4, <2>1 DEF Becomes, Offered
  <2>2. CASE s.surface # None /\ s.keyboard # None
    BY <1>1, <1>2, <1>4, <2>2 DEF Becomes, Offered, Seats
  <2> QED
    BY <2>1, <2>2
<1> QED
  BY <1>1, <1>3, <1>4

LEMMA AddInv ==
    ASSUME Inv, NEW k \in Devices, AddKeyboard(k),
           Becomes(SetKeyboard(seat, k)), Offer'
    PROVE  Inv'
<1> DEFINE s == SetKeyboard(seat, k)
<1>1. TypeOK
  BY DEF Inv
<1>2. /\ s.keyboard = k /\ s.keys = seat.keys /\ s.surface = seat.surface
      /\ s.surface # None => s.logo = logo[k]
  BY KeyboardsAssumption DEF Inv, SetKeyboard, Sound, Seats, TypeOK
<1>3. /\ keyboards' = keyboards \cup {k}
      /\ UNCHANGED <<down, logo, focused, layer, inhibitors, bound>>
  BY DEF AddKeyboard
<1> HIDE DEF s
<1>4. Becomes(s)
  BY DEF s
<1>5. /\ seat' \in Seats /\ capable' \in BOOLEAN /\ seat'.keyboard = k
      /\ seat'.keys \subseteq seat.keys \/ seat'.keys = down[k]
      /\ seat'.surface # None => seat'.logo = logo[k]
  BY <1>2, <1>4, KeyboardsAssumption DEF Becomes
<1>6. TypeOK'
  BY <1>1, <1>3, <1>5 DEF TypeOK
<1>7. Sound(seat, down)'
  BY <1>3, <1>5 DEF Inv, Sound
<1>8. Quiet'
  BY <1>3 DEF Inv, Quiet
<1> QED
  BY <1>6, <1>7, <1>8 DEF Inv

\* A pointer that comes may have the keyboard offered that was not.
LEMMA NewDeviceInv ==
    ASSUME Inv, NewDevice
    PROVE  Inv'
<1>1. TypeOK /\ seat \in Seats
      /\ UNCHANGED <<keyboards, down, logo, focused, layer, inhibitors, bound>>
  BY DEF Inv, Sound, NewDevice
<1>2. Becomes(seat) /\ capable' = (keyboards # {})
  BY <1>1, UpdateBecomes DEF NewDevice
<1>3. TypeOK'
  BY <1>1, <1>2 DEF TypeOK, Becomes
<1>4. Sound(seat, down)'
  BY <1>1, <1>2 DEF Inv, Sound, Becomes, TypeOK
<1> QED
  BY <1>1, <1>2, <1>3, <1>4 DEF Inv, Quiet, Offer

LEMMA RemoveInv ==
    ASSUME Inv, NEW k \in Devices, RemoveKeyboard(k)
    PROVE  Inv'
<1> DEFINE e == Emptied(k)
           s == Forgotten(e, k)
<1>1. TypeOK /\ k \in keyboards
  BY DEF Inv, RemoveKeyboard
<1>2. /\ Sound(SetKeyboard(seat, k), down)
      /\ SetKeyboard(seat, k).keyboard = k
      /\ SetKeyboard(seat, k).keys = seat.keys
  BY <1>1, SetKeyboardSound DEF Inv
<1>3. /\ e \in Seats
      /\ e.keyboard \in keyboards \cup {None}
      /\ \A key \in e.keys : key \in seat.keys /\ key \notin down[k]
      /\ e.keyboard \notin {k, None} /\ e.surface # None
            => e.logo = logo[e.keyboard]
  <2>1. CASE down[k] = {}
    BY <2>1 DEF Emptied, Inv, Sound
  <2>2. CASE down[k] # {}
    <3> DEFINE t == SetKeyboard(seat, k)
    <3>1. e = [t EXCEPT !.keys = @ \ down[k]]
      BY <2>2 DEF Emptied
    <3>2. t \in Seats /\ t.keyboard = k /\ t.keys = seat.keys
      BY <1>2 DEF Sound
    <3> HIDE DEF t
    <3> QED
      BY <1>1, <3>1, <3>2 DEF Seats
  <2> QED
    BY <2>1, <2>2
<1> HIDE DEF e
<1>4. /\ s \in Seats
      /\ s.keyboard \in (keyboards \ {k}) \cup {None}
      /\ s.keys = e.keys
      /\ s.keyboard # None /\ s.surface # None => s.logo = logo[s.keyboard]
  BY <1>3 DEF Forgotten, Seats
<1>5. UpdateCapabilities(s)
  BY DEF RemoveKeyboard, e
<1> HIDE DEF s
<1>6. Becomes(s) /\ capable' = (keyboards' # {})
  BY <1>1, <1>4, <1>5, UpdateBecomes
<1>7. /\ keyboards' = keyboards \ {k}
      /\ down' = [down EXCEPT ![k] = {}]
      /\ logo' = [logo EXCEPT ![k] = FALSE]
      /\ UNCHANGED <<focused, layer, inhibitors, bound>>
  BY DEF RemoveKeyboard
<1>8. TypeOK'
  BY <1>1, <1>6, <1>7 DEF TypeOK, Becomes
<1>9. \A key \in seat'.keys : \E j \in Devices : key \in down'[j]
  <2> SUFFICES ASSUME NEW key \in seat'.keys
               PROVE  \E j \in Devices : key \in down'[j]
    OBVIOUS
  <2>1. CASE key \in s.keys
    <3>1. key \in seat.keys /\ key \notin down[k]
      BY <1>3, <1>4, <2>1
    <3>2. PICK j \in Devices : key \in down[j]
      BY <3>1 DEF Inv, Sound
    <3> QED
      BY <1>1, <1>7, <3>1, <3>2 DEF TypeOK
  <2>2. CASE key \notin s.keys
    <3>1. s.keyboard \in keyboards \ {k} /\ key \in down[s.keyboard]
      BY <1>4, <1>6, <2>2 DEF Becomes
    <3> QED
      BY <1>1, <1>7, <3>1 DEF TypeOK
  <2> QED
    BY <2>1, <2>2
<1>10. seat'.keyboard \in keyboards' \cup {None}
  BY <1>4, <1>6, <1>7 DEF Becomes
<1>11. seat'.surface # None /\ seat'.keyboard # None
          => seat'.logo = logo'[seat'.keyboard]
  BY <1>1, <1>4, <1>6, <1>7 DEF TypeOK, Becomes
<1>12. Quiet' /\ Offer'
  BY <1>1, <1>6, <1>7 DEF Inv, Quiet, Offer, TypeOK
<1> QED
  BY <1>6, <1>8, <1>9, <1>10, <1>11, <1>12 DEF Inv, Sound, Becomes

-----------------------------------------------------------------------------

LEMMA InitInv == Init => Inv
<1> SUFFICES ASSUME Init PROVE Inv
  OBVIOUS
<1>1. seat \in Seats
  BY DEF Init, Seats
<1>2. TypeOK
  BY <1>1, KeyboardsAssumption DEF Init, TypeOK
<1>3. Quiet /\ Sound(seat, down) /\ Offer
  BY <1>1 DEF Init, Quiet, Sound, Offer
<1> QED
  BY <1>2, <1>3 DEF Inv

LEMMA NextInv == Inv /\ [Next]_vars => Inv'
<1> SUFFICES ASSUME Inv, [Next]_vars PROVE Inv'
  OBVIOUS
<1>1. CASE UNCHANGED vars
  BY <1>1 DEF vars, Inv, TypeOK, Quiet, Sound, Offer
<1>2. ASSUME NEW k \in Devices, NewKeyboard(k)
      PROVE  Inv'
  <2>1. /\ TypeOK /\ AddKeyboard(k) /\ SetKeyboard(seat, k) \in Seats
        /\ UpdateCapabilities(SetKeyboard(seat, k)) /\ keyboards' # {}
    BY <1>2 DEF NewKeyboard, AddKeyboard, SetKeyboard, Seats, Inv, TypeOK
  <2>2. Becomes(SetKeyboard(seat, k)) /\ Offer'
    BY <2>1, UpdateBecomes DEF Offer
  <2> QED
    BY <2>1, <2>2, AddInv
<1>3. ASSUME NEW k \in Devices, NewVirtualKeyboard(k)
      PROVE  Inv'
  <2>1. AddKeyboard(k) /\ Becomes(SetKeyboard(seat, k))
    BY <1>3 DEF NewVirtualKeyboard, Becomes, SetKeyboard, Seats, Inv, TypeOK
  <2>2. Offer'
    BY <1>3 DEF NewVirtualKeyboard, AddKeyboard, Offer, Inv
  <2> QED
    BY <2>1, <2>2, AddInv
<1> QED
  BY <1>1, <1>2, <1>3, NewDeviceInv, RemoveInv, PressInv, ReleaseInv, ChangeFocusInv,
     MapLauncherInv, UnmapLauncherInv, InhibitInv, MapCommandInv DEF Next

(* Every variable keeps its type, for any keyboards, keys and windows: in  *)
(* particular the seat is never set to a keyboard that does not exist.     *)
THEOREM TypeCorrect == Spec => []TypeOK
<1>1. Inv => TypeOK
  BY DEF Inv
<1> QED
  BY <1>1, InitInv, NextInv, PTL DEF Spec

(* No client is left with a key it believes held and nobody holds          *)
(* (keyboard_key forwards every release).                                  *)
THEOREM KeysComeUp == Spec => []NoStuckKeys
<1>1. Inv => NoStuckKeys
  <2> SUFFICES ASSUME Inv, NEW key \in seat.keys
               PROVE  \E k \in Devices : key \in HeldOn(k)
    BY DEF NoStuckKeys
  <2>1. PICK k \in Devices : key \in down[k]
    BY DEF Inv, Sound
  <2> QED
    BY <2>1 DEF HeldOn, Inv, Quiet
<1> QED
  BY <1>1, InitInv, NextInv, PTL DEF Spec

(* The client that has the keyboard and the keyboard agree about Logo      *)
(* (keyboard_modifiers).                                                   *)
THEOREM LogoAgreed == Spec => []LogoInStep
<1>1. Inv => LogoInStep
  BY DEF Inv, Sound, LogoInStep
<1> QED
  BY <1>1, InitInv, NextInv, PTL DEF Spec

(* For every instance: what clients are offered does not go while there is *)
(* a keyboard left and goes with the last one, and a physical keyboard is  *)
(* always offered, whatever comes and goes in whatever order.  That a      *)
(* virtual one is offered does not follow, and is not so (seat.c:133-152). *)
THEOREM KeyboardOffered == Spec => Advertised
<1>1. Inv /\ Inv' /\ [Next]_vars =>
        [/\ keyboards' = {} => ~capable'
         /\ capable /\ keyboards' # {} => capable'
         /\ keyboards' \ Virtual # {} => capable']_vars
  <2> SUFFICES ASSUME Inv', Next, capable, keyboards' # {}
               PROVE  capable'
    BY DEF Inv, Offer
  <2>1. CASE UNCHANGED capable
    BY <2>1
  <2>2. ASSUME NEW s, UpdateCapabilities(s) PROVE capable'
    BY <2>2 DEF UpdateCapabilities
  <2> QED
    BY <2>1, <2>2
       DEF Next, NewKeyboard, NewVirtualKeyboard, NewDevice, RemoveKeyboard,
           Press, Release, ChangeFocus, MapLauncher, UnmapLauncher, Inhibit,
           MapCommand
<1> QED
  BY <1>1, InitInv, NextInv, PTL DEF Spec, Advertised

-----------------------------------------------------------------------------
(* Steps: who gets the keyboard, and what it hears of bindings.            *)

(* The focus g comes of the focus f without a launcher coming or going:    *)
(* if another window has the focus it has the keyboard too, or the         *)
(* launcher keeps it; and no surface hears of a key it did not know unless *)
(* it was entered.                                                         *)
Moved(g, f) ==
    /\ g.layer = f.layer
    /\ f.seat.keyboard # None /\ g.focused # f.focused =>
          g.seat.surface \in IF f.layer = None THEN {g.focused}
                             ELSE {f.seat.surface, None}
    /\ g.seat.surface = f.seat.surface => g.seat.keys \subseteq f.seat.keys

LEMMA EnterMoves ==
    ASSUME NEW s \in Seats, NEW held \in Held, NEW x
    PROVE  /\ EnterIfKeyboard(s, x, held).surface = s.surface =>
                EnterIfKeyboard(s, x, held).keys = s.keys
           /\ s.keyboard # None => EnterIfKeyboard(s, x, held).surface = x
<1>1. CASE s.keyboard = None \/ s.surface = x
  BY <1>1 DEF EnterIfKeyboard, Enter
<1>2. CASE s.keyboard # None /\ s.surface # x
  BY <1>2 DEF EnterIfKeyboard, Enter, Seats
<1> QED
  BY <1>1, <1>2

LEMMA FocusWindowMoves ==
    ASSUME NEW held \in Held, NEW f \in Focus, NEW w \in Windows
    PROVE  Moved(FocusWindow(f, w, held), f)
<1>1. CASE f.layer # None \/ f.focused = w
  BY <1>1 DEF FocusWindow, Moved
<1>2. CASE f.layer = None /\ f.focused # w
  <2> DEFINE s == EnterIfKeyboard(f.seat, w, held)
             g == [f EXCEPT !.focused = w, !.seat = s]
  <2>1. FocusWindow(f, w, held) = g
    BY <1>2 DEF FocusWindow, Focus
  <2>2. f.seat \in Seats
    BY DEF Focus
  <2>3. /\ s.surface = f.seat.surface => s.keys = f.seat.keys
        /\ f.seat.keyboard # None => s.surface = w
    BY <2>2, EnterMoves
  <2> HIDE DEF s
  <2>4. g.focused = w /\ g.seat = s /\ g.layer = f.layer
    BY DEF Focus
  <2> HIDE DEF g
  <2> QED
    BY <1>2, <2>1, <2>3, <2>4 DEF Moved
<1> QED
  BY <1>1, <1>2

LEMMA FocusActiveMoves ==
    ASSUME NEW held \in Held, NEW f \in Focus, NEW w \in Windows \cup {None}
    PROVE  Moved(FocusActive(f, w, held), f)
<1>1. CASE w = None
  <2>1. f.seat \in Seats
    BY DEF Focus
  <2>2. Leave(f.seat).surface = None /\ Leave(f.seat).keys = {}
    BY <2>1 DEF Leave, Seats
  <2>3. FocusActive(f, w, held).focused = None
        /\ FocusActive(f, w, held).seat = Leave(f.seat)
        /\ FocusActive(f, w, held).layer = f.layer
    BY <1>1 DEF FocusActive, Focus
  <2> QED
    BY <2>2, <2>3 DEF Moved
<1>2. CASE w # None
  <2> DEFINE g == [f EXCEPT !.focused = None]
             h == FocusWindow(g, w, held)
  <2>1. g \in Focus /\ g.seat = f.seat /\ g.layer = f.layer /\ g.focused = None
    BY DEF Focus
  <2>2. FocusActive(f, w, held) = h
    BY <1>2 DEF FocusActive
  <2> HIDE DEF g
  <2>3. Moved(h, g)
    BY <1>2, <2>1, FocusWindowMoves
  <2>4. h.focused # None => h.focused # g.focused
    BY <2>1
  <2>5. f.layer # None => h = g
    BY <2>1 DEF FocusWindow
  <2>6. f.layer = None => h.focused = w
    BY <1>2, <2>1 DEF FocusWindow, Focus
  <2> HIDE DEF h
  <2> QED
    BY <1>2, <2>1, <2>2, <2>3, <2>4, <2>5, <2>6 DEF Moved
<1> QED
  BY <1>1, <1>2

LEMMA RefocusedMoves ==
    ASSUME NEW held \in Held, NEW f \in Focus, NEW g \in Refocused(f, held)
    PROVE  Moved(g, f)
<1>1. Moved(f, f)
  BY DEF Moved
<1> QED
  BY <1>1, FocusWindowMoves, FocusActiveMoves DEF Refocused

(* What follows a key event changes neither who has the keyboard nor what  *)
(* keys it knows of.                                                       *)
LEMMA ModifiedQuiet ==
    ASSUME TypeOK, NEW s \in Seats, NEW k \in keyboards, NEW key \in Keys,
           NEW held \in BOOLEAN
    PROVE  /\ Modified(s, k, key, held).surface = s.surface
           /\ Modified(s, k, key, held).keys = s.keys
<1> DEFINE t == SetKeyboard(s, k)
<1>1. t \in Seats /\ t.surface = s.surface /\ t.keys = s.keys
  BY DEF SetKeyboard, Seats, TypeOK
<1> HIDE DEF t
<1>2. NotifyLogo(t, held).surface = t.surface /\ NotifyLogo(t, held).keys = t.keys
  BY <1>1 DEF NotifyLogo, Seats
<1> QED
  BY <1>1, <1>2 DEF Modified, t

(* A press that honey keeps moves the focus or nothing at all; one that is *)
(* forwarded leaves the focus where it is.                                 *)
LEMMA PressMoves ==
    ASSUME Inv, NEW k \in Devices, NEW key \in Keys, Press(k, key)
    PROVE  /\ layer' = layer
           /\ seat.keyboard # None /\ focused' # focused =>
                 seat'.surface \in IF layer = None THEN {focused'}
                                   ELSE {seat.surface, None}
           /\ Handled(k, key) /\ seat'.surface = seat.surface =>
                 seat'.keys \subseteq seat.keys
<1> DEFINE keys == [down EXCEPT ![k] = @ \cup {key}]
<1>1. TypeOK /\ k \in keyboards
  BY DEF Inv, Press
<1>2. keys \in Held
  BY <1>1 DEF TypeOK, Held
<1>3. /\ Current \in Focus /\ Current.seat = seat /\ Current.layer = layer
      /\ Current.focused = focused
  BY CurrentSound DEF Current
<1>4. PICK f : /\ \/ f = Current
                  \/ f \in Refocused(Current, keys)
                  \/ /\ ~ Handled(k, key)
                     /\ f = [Current EXCEPT !.seat = ForwardPress(k, key)]
               /\ SetFocus([f EXCEPT !.seat = Modified(@, k, key, TRUE)])
  BY DEF Press
<1> HIDE DEF keys
<1>5. CASE f \in {Current} \cup Refocused(Current, keys)
  <2>1. f \in Focus
    <3>1. Sound(Current.seat, keys)
      BY <1>1, CurrentSound DEF keys, Sound, TypeOK
    <3> QED
      BY <1>1, <1>2, <1>3, <1>5, <3>1, RefocusedSound
  <2>2. Moved(f, Current)
    <3>1. Moved(Current, Current)
      BY DEF Moved
    <3> QED
      BY <1>2, <1>3, <1>5, <3>1, RefocusedMoves
  <2>3. /\ layer' = f.layer /\ focused' = f.focused
        /\ seat' = Modified(f.seat, k, key, TRUE)
    BY <1>4, <2>1 DEF SetFocus, Focus
  <2>4. seat'.surface = f.seat.surface /\ seat'.keys = f.seat.keys
    BY <1>1, <2>1, <2>3, ModifiedQuiet DEF Focus
  <2> QED
    BY <1>3, <2>2, <2>3, <2>4 DEF Moved
<1>6. CASE ~ Handled(k, key)
           /\ f = [Current EXCEPT !.seat = ForwardPress(k, key)]
  <2>1. layer' = layer /\ focused' = focused
    BY <1>3, <1>4, <1>6 DEF SetFocus, Focus
  <2> QED
    BY <1>6, <2>1
<1> QED
  BY <1>4, <1>5, <1>6

(* The other actions that move the focus.                                  *)
Followed ==
    seat.keyboard # None /\ <<focused, layer>>' # <<focused, layer>> =>
        \/ layer' = None /\ seat'.surface = focused'
        \/ layer' # None /\ layer = None /\ seat'.surface = layer'
        \/ layer' # None /\ seat'.surface \in {seat.surface, None}

LEMMA FocusSteps ==
    ASSUME Inv, ChangeFocus \/ MapLauncher \/ UnmapLauncher
    PROVE  Followed
<1>1. /\ Current \in Focus /\ Current.seat = seat /\ Current.layer = layer
      /\ Current.focused = focused /\ down \in Held /\ seat \in Seats
  BY CurrentSound DEF Current, Focus
<1>2. CASE ChangeFocus
  <2>1. PICK f \in Refocused(Current, down) : SetFocus(f)
    BY <1>2 DEF ChangeFocus
  <2>2. Moved(f, Current)
    BY <1>1, RefocusedMoves
  <2> QED
    BY <1>1, <2>1, <2>2 DEF Moved, SetFocus, Followed
<1>3. CASE MapLauncher
  <2>1. /\ layer = None /\ layer' = Launcher
        /\ seat' = EnterIfKeyboard(seat, Launcher, down)
    BY <1>3 DEF MapLauncher, SetFocus
  <2> QED
    BY <1>1, <2>1, EnterMoves, KeyboardsAssumption DEF Followed
<1>4. CASE UnmapLauncher
  <2> DEFINE g == [Current EXCEPT !.layer = None]
  <2>1. PICK w \in Windows \cup {None} : SetFocus(FocusActive(g, w, down))
    BY <1>4 DEF UnmapLauncher
  <2>2. g \in Focus /\ g.seat = seat /\ g.layer = None
    BY <1>1 DEF Focus
  <2> HIDE DEF g
  <2>3. g.seat.keyboard # None => FocusActive(g, w, down).seat.surface = w
    <3>1. CASE w = None
      BY <1>1, <2>2, <3>1 DEF FocusActive, Leave, Focus, Seats
    <3>2. CASE w # None
      <4> DEFINE h == [g EXCEPT !.focused = None]
      <4>1. h \in Focus /\ h.seat = seat /\ h.layer = None /\ h.focused = None
        BY <2>2 DEF Focus
      <4> HIDE DEF h
      <4>2. FocusActive(g, w, down) = FocusWindow(h, w, down)
        BY <3>2 DEF FocusActive, h
      <4>3. FocusWindow(h, w, down).seat = EnterIfKeyboard(seat, w, down)
        BY <3>2, <4>1 DEF FocusWindow, Focus
      <4> QED
        BY <1>1, <2>2, <4>2, <4>3, EnterMoves
    <3> QED
      BY <3>1, <3>2
  <2>4. /\ FocusActive(g, w, down).focused = w
        /\ FocusActive(g, w, down).layer = None
    BY <2>2 DEF FocusActive, FocusWindow, Focus
  <2> QED
    BY <2>1, <2>2, <2>3, <2>4 DEF SetFocus, Followed
<1> QED
  BY <1>2, <1>3, <1>4

(* For every instance: with a keyboard on the seat, whoever gets the focus *)
(* gets the keyboard in the same handler, a window under a launcher only   *)
(* when the launcher goes (window.c:335, layer.c:64).                      *)
THEOREM FocusTakesKeyboard == Spec => FocusFollowed
<1>1. Inv /\ [Next]_vars =>
        [seat.keyboard # None /\ <<focused, layer>>' # <<focused, layer>> =>
            \/ layer' = None /\ seat.surface' = focused'
            \/ layer' # None /\ layer = None /\ seat.surface' = layer'
            \/ layer' # None /\ seat.surface' \in {seat.surface, None}]_vars
  <2> SUFFICES ASSUME Inv, Next PROVE Followed
    BY DEF Followed
  <2>1. ASSUME NEW k \in Devices, NEW key \in Keys, Press(k, key)
        PROVE  Followed
    BY <2>1, PressMoves DEF Followed
  <2>2. ASSUME UNCHANGED <<focused, layer>> PROVE Followed
    BY <2>2 DEF Followed
  <2> QED
    BY <2>1, <2>2, FocusSteps
       DEF Next, NewKeyboard, NewVirtualKeyboard, NewDevice, AddKeyboard,
           RemoveKeyboard, Release, Inhibit, MapCommand
<1> QED
  BY <1>1, InitInv, NextInv, PTL DEF Spec, FocusFollowed

(* For every instance: no client that keeps the keyboard hears of a bound  *)
(* key that goes down, on any keyboard, whatever the binding does          *)
(* (seat.c:106).                                                           *)
THEOREM BindingsAreKept == Spec => ShortcutsKept
<1>1. Inv /\ [Next]_vars =>
        [\A k \in keyboards : \A key \in down'[k] \ down[k] :
            /\ ~(focused \in inhibitors) \/ key \in Switches
            /\ key \in Switches \/ <<logo[k], key>> \in bound
            /\ seat.surface' = seat.surface
            => seat.keys' \subseteq seat.keys]_vars
  <2> SUFFICES ASSUME Inv, Next,
                      NEW k \in keyboards, NEW key \in down'[k] \ down[k],
                      ~(focused \in inhibitors) \/ key \in Switches,
                      key \in Switches \/ <<logo[k], key>> \in bound,
                      seat'.surface = seat.surface
               PROVE  seat'.keys \subseteq seat.keys
    OBVIOUS
  <2>1. k \in Devices /\ down \in [Devices -> SUBSET Keys]
    BY DEF Inv, TypeOK
  <2>2. PICK j \in Devices, pressed \in Keys : Press(j, pressed)
    BY <2>1 DEF Next, NewKeyboard, NewVirtualKeyboard, NewDevice, AddKeyboard,
                RemoveKeyboard, Release, ChangeFocus, MapLauncher,
                UnmapLauncher, Inhibit, MapCommand
  <2>3. j = k /\ pressed = key
    BY <2>1, <2>2 DEF Press
  <2>4. Handled(k, key)
    BY DEF Handled, Inhibited
  <2> QED
    BY <2>2, <2>3, <2>4, PressMoves
<1> QED
  BY <1>1, InitInv, NextInv, PTL DEF Spec, ShortcutsKept
=============================================================================
