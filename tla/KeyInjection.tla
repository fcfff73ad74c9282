---------------------------- MODULE KeyInjection ----------------------------
(***************************************************************************)
(* Keyboard and button injection on a started session: the input methods   *)
(* of PortalSession (backends/portal.py), the frames EisClient             *)
(* (backends/eis.py) makes of them and the key resolver (backends/xkb.py), *)
(* against a compositor that may change its keymap and drop the            *)
(* connection.  A method is one step; each call it makes may fail.         *)
(***************************************************************************)
EXTENDS Naturals, Sequences, SequencesExt, FiniteSetsExt

CONSTANTS
    Codes,       \* key codes, a finite set of numbers
    Characters,  \* keysyms of one character within Latin-1
    Exotic,      \* characters beyond Latin-1
    Keymaps,     \* keymaps the compositor uses: key code to levels
    Us,          \* the built-in US table, the fallback
    Offset,      \* by how much a key's number in a keymap exceeds the code that
                 \* the EIS connection takes for the key
    Texts        \* what type_text is asked for

\* "Shift_L" is the modifier, "left" a button, "NoSymbol" what a keymap says of
\* a level the parser drops.
Keysyms == Characters \cup {"Shift_L"}

Levels == Seq(Keysyms \cup {"NoSymbol"})

ASSUME KeyAssumption ==
    /\ Codes \in SUBSET Nat /\ Offset \in Nat
    /\ Keysyms \cap {"left", "NoSymbol"} = {}
    /\ \A k \in Keymaps \cup {Us} :
         DOMAIN k \subseteq Codes /\ \A c \in DOMAIN k : k[c] \in Levels \ {<<>>}
    /\ "Shift_L" \notin Characters /\ Characters \cap Exotic = {}
    /\ Texts \subseteq Seq(Characters \cup Exotic)

VARIABLES
    transport,  \* "eis" or "notify"
    layout,     \* the compositor's keymap
    offered,    \* keymap events sent and not yet pumped
    keymapText, \* what EisClient has received last
    resolver,   \* _resolver: <<>>, or <<the keymap it looks keysyms up in>>
    link,       \* the EIS connection: "resumed", "emulating" or "closed"
    down,       \* what the compositor takes for pressed: key codes ("eis"),
                \* keysyms ("notify") and buttons
    owed,       \* ghost: the keysyms and buttons whose press may have been
                \* sent and whose release has not been answered since
    typed       \* ghost: the text type_text was asked for, the text its keys
                \* name in the keymap and what was received, if nothing interfered

vars == <<transport, layout, offered, keymapText, resolver, link, down, owed, typed>>

Blank == [asked |-> <<>>, named |-> <<>>, got |-> <<>>]

\* The session has just been started.
Fresh(t) ==
    /\ transport' = t
    /\ keymapText' = layout'
    /\ offered' = <<>>
    /\ resolver' = <<>>
    /\ link' = "resumed"
    /\ down' = {} /\ owed' = {}
    /\ typed' = Blank

Init ==
    /\ transport \in {"eis", "notify"}
    /\ layout \in Keymaps
    /\ offered = <<>>
    /\ keymapText = layout
    /\ resolver = <<>>
    /\ link = "resumed"
    /\ down = {} /\ owed = {}
    /\ typed = Blank

-----------------------------------------------------------------------------
(* xkb.py: which key, at which level, is a keysym?                         *)

Readable(levels) == SelectSeq(levels, LAMBDA s : s # "NoSymbol")

\* parse_keymap_text: symbols it does not know are left out of a key's levels,
\* and keys that have none left are left out.
Parse(text) ==
    [c \in {c \in DOMAIN text : Readable(text[c]) # <<>>} |-> Readable(text[c])]

Having(k, s) == {c \in DOMAIN k : Contains(k[c], s)}

\* Keymap.resolve: the first key (in the order of the codes) that has the keysym
\* at any level.
Find(k, s) ==
    LET c == Min(Having(k, s))
    IN  [code |-> c, level |-> Min({i \in DOMAIN k[c] : k[c][i] = s}) - 1]

\* build_resolver: the keymap wins where it knows the keysym.
Resolvable(k, s) == Having(k, s) # {} \/ Having(Us, s) # {}

Resolve(k, s) == IF Having(k, s) # {} THEN Find(k, s) ELSE Find(Us, s)

\* Bug variant: the resolver is built anew for every key.
ResolverInUseFresh == Parse(keymapText)

\* _resolve_key builds the resolver once and keeps it.
ResolverInUse == IF resolver = <<>> THEN Parse(keymapText) ELSE Head(resolver)

-----------------------------------------------------------------------------
(* portal.py: the calls an input method makes.                             *)

\* What can be pressed: a key by its code, a keysym as such, a button.
Code(c) == <<"code", c>>
Sym(s) == <<"keysym", s>>
Left == <<"button", "left">>
Nothing == <<"motion", "none">>

Event(x, press) == [key |-> x, press |-> press]

\* Can _key_eis carry the keysym out?  If not it raises before any call.
Supported(s) ==
    \/ transport = "notify"
    \/ LET k == ResolverInUse
       IN  /\ Resolvable(k, s)
           /\ \/ Resolve(k, s).level = 0
              \/ Resolve(k, s).level = 1 /\ Resolvable(k, "Shift_L")

\* Bug variant: Shift is pressed after the key.
KeyEventsLateShift(s, press) ==
    LET k == ResolverInUse
        key == Event(Code(Resolve(k, s).code), press)
        shift == Event(Code(Resolve(k, "Shift_L").code), press)
    IN  IF transport = "notify" THEN <<Event(Sym(s), press)>>
        ELSE IF Resolve(k, s).level = 0 THEN <<key>>
        ELSE <<key, shift>>

\* The keysym itself for Notify*; for EIS its key, with Shift_L around it at
\* level 1.
KeyEvents(s, press) ==
    LET k == ResolverInUse
        key == Event(Code(Resolve(k, s).code), press)
        shift == Event(Code(Resolve(k, "Shift_L").code), press)
    IN  IF transport = "notify" THEN <<Event(Sym(s), press)>>
        ELSE IF Resolve(k, s).level = 0 THEN <<key>>
        ELSE IF press THEN <<shift, key>> ELSE <<key, shift>>

Tap(s) == KeyEvents(s, TRUE) \o KeyEvents(s, FALSE)

\* type_text stops at the first character it cannot type.
Typeable(ch) == ch \in Characters /\ Supported(ch)

Prefix(text) ==
    IF \A i \in DOMAIN text : Typeable(text[i]) THEN text
    ELSE SubSeq(text, 1, Min({i \in DOMAIN text : ~Typeable(text[i])}) - 1)

TextEvents(text) == FlattenSeq([i \in DOMAIN text |-> Tap(text[i])])

-----------------------------------------------------------------------------
(* The compositor.                                                         *)

\* What is pressed after the first n events, d before.
After(es, n, d) ==
    LET last(x) == Max({i \in 1..n : es[i].key = x})
        named == {es[i].key : i \in 1..n}
    IN  {x \in d \cup named : IF x \in named THEN es[last(x)].press ELSE TRUE}

\* The keymap by the codes that a client may send.
OnWire == [c \in {c \in Codes : c + Offset \in DOMAIN layout} |-> layout[c + Offset]]

Shifted(m, d) ==
    \E c \in DOMAIN m : Code(c) \in d /\ Head(m[c]) = "Shift_L"

\* The keysym that pressing x, with d pressed, has an application receive, if m
\* says what the codes are: CapsLock exchanges the two levels of a letter.
Received(m, locked, x, d) ==
    LET levels == m[x[2]]
    IN  IF transport = "notify" THEN x[2]
        ELSE IF x[2] \notin DOMAIN m THEN "NoSymbol"
        ELSE IF (Shifted(m, d) <=> ~locked) /\ Len(levels) > 1 THEN levels[2]
        ELSE levels[1]

\* What the n-th event has it receive, as a text; a Shift is none.
Adds(m, locked, es, n, d) ==
    LET s == Received(m, locked, es[n].key, After(es, n - 1, d))
    IN  IF es[n].press /\ s # "Shift_L" THEN <<s>> ELSE <<>>

TextOf(m, locked, es, d) == FlattenSeq([n \in DOMAIN es |-> Adds(m, locked, es, n, d)])

\* What follows a frame begun while the device is still emulating: a protocol
\* error (docs/eis-protocol.md: start_emulating requires RESUMED).
Drop == link' = "closed" /\ down' = {}

-----------------------------------------------------------------------------
(* eis.py: every event is a frame (start_emulating, event, frame and       *)
(* stop_emulating); the sends go out until one fails.                      *)

\* n events take effect.  A send that fails within a frame leaves the device
\* emulating; one that fails before the frame request loses the event.
Send(es, ok) ==
    \/ /\ es = <<>> /\ ok
       /\ UNCHANGED <<link, down>>
    \/ /\ transport = "notify" /\ es # <<>>
       /\ \E n \in 0..Len(es) :
            /\ ok => n = Len(es)
            /\ down' = After(es, n, down)
       /\ UNCHANGED link
    \/ /\ transport = "eis" /\ es # <<>> /\ link = "resumed"
       /\ \E n \in 0..Len(es) :
            /\ down' = After(es, n, down)
            /\ \/ ok /\ n = Len(es) /\ link' = "resumed"
               \/ ~ok /\ n < Len(es) /\ link' = "resumed"
               \/ ~ok /\ link' = "emulating"
    \/ /\ transport = "eis" /\ es # <<>> /\ link = "emulating"
       /\ Drop
    \/ /\ transport = "eis" /\ es # <<>> /\ link = "closed" /\ ~ok
       /\ UNCHANGED <<link, down>>

-----------------------------------------------------------------------------
(* The input methods, for any client in any order.                         *)

frame == <<transport, layout, offered, keymapText>>

Resolving == resolver' = IF transport = "eis" THEN <<ResolverInUse>> ELSE resolver

\* key(): pressed, released or tapped; ~ok is a PortalFailedError or the like.
Key(s, state) ==
    /\ IF Supported(s)
       THEN \E ok \in BOOLEAN :
              LET es == CASE state = "press"   -> KeyEvents(s, TRUE)
                          [] state = "release" -> KeyEvents(s, FALSE)
                          [] OTHER             -> Tap(s)
              IN  /\ Send(es, ok)
                  /\ owed' = CASE state = "press"       -> owed \cup {s}
                               [] state # "press" /\ ok -> owed \ {s}
                               [] state = "tap" /\ ~ok  -> owed \cup {s}
                               [] OTHER                 -> owed
       ELSE UNCHANGED <<link, down, owed>>
    /\ Resolving
    /\ typed' = Blank
    /\ UNCHANGED frame

\* The compositor's keymap is read whole: no level is dropped, and Shift_L is
\* where it is looked for.
Plain(k) ==
    /\ \A c \in DOMAIN k : ~Contains(k[c], "NoSymbol")
    /\ Having(k, "Shift_L") # {} /\ Find(k, "Shift_L").level = 0

\* Nothing but the text decides what is received: nothing is pressed, CapsLock
\* is off, and the resolver stands for the keymap in use and knows the
\* characters.
Undisturbed(text, locked) ==
    /\ link = "resumed" /\ down = {} /\ ~locked
    /\ transport = "eis" =>
         /\ Plain(layout) /\ ResolverInUse = layout
         /\ \A i \in DOMAIN text : Having(layout, text[i]) # {}

\* The user may have turned CapsLock on, which the client never sees; for
\* Notify* the compositor allows for it.
Locks == IF transport = "eis" THEN BOOLEAN ELSE {FALSE}

TypeText(text) ==
    LET done == Prefix(text)
        es == TextEvents(done)
        some == {done[i] : i \in DOMAIN done}
    IN  \E ok \in BOOLEAN, locked \in Locks :
          /\ Send(es, ok)
          /\ owed' = IF ok THEN owed \ some ELSE owed \cup some
          /\ typed' = IF ok /\ done = text /\ Undisturbed(text, locked)
                      THEN [asked |-> text, named |-> TextOf(layout, locked, es, down),
                            got |-> TextOf(OnWire, locked, es, down)]
                      ELSE Blank
          /\ IF text = <<>> \/ text[1] \in Exotic THEN UNCHANGED resolver ELSE Resolving
          /\ UNCHANGED frame

\* button()
Button(press) ==
    /\ \E ok \in BOOLEAN :
         /\ Send(<<Event(Left, press)>>, ok)
         /\ owed' = IF press THEN owed \cup {"left"}
                    ELSE IF ok THEN owed \ {"left"} ELSE owed
    /\ typed' = Blank
    /\ UNCHANGED <<frame, resolver>>

\* move_abs(), move_rel() and scroll(): an event that presses nothing, or none
\* (a position outside the regions, no EIS, nothing to scroll).
Motion ==
    /\ \E es \in {<<>>, <<Event(Nothing, FALSE)>>}, ok \in BOOLEAN : Send(es, ok)
    /\ typed' = Blank
    /\ UNCHANGED <<frame, resolver, owed>>

-----------------------------------------------------------------------------
\* The user switches the layout; the compositor sends the keymap.
ChangeLayout(k) ==
    /\ k # layout /\ offered = <<>>
    /\ layout' = k
    /\ offered' = IF transport = "eis" /\ link # "closed" THEN <<k>> ELSE <<>>
    /\ typed' = Blank
    /\ UNCHANGED <<transport, keymapText, resolver, link, down, owed>>

\* Bug variant: a keymap of a type that is not known wipes out the last one.
OnKeymapWiped ==
    /\ offered # <<>>
    /\ keymapText' \in {Head(offered), <<>>}
    /\ offered' = Tail(offered)
    /\ typed' = Blank
    /\ UNCHANGED <<transport, layout, resolver, link, down, owed>>

\* _on_keyboard_keymap, when the connection is pumped.
OnKeymap ==
    /\ offered # <<>>
    /\ keymapText' \in {Head(offered), keymapText}   \* or it cannot be read
    /\ offered' = Tail(offered)
    /\ typed' = Blank
    /\ UNCHANGED <<transport, layout, resolver, link, down, owed>>

\* The compositor goes away: it forgets what is pressed.
Disconnect ==
    /\ transport = "eis" /\ link # "closed"
    /\ Drop
    /\ typed' = Blank
    /\ UNCHANGED <<frame, resolver, owed>>

\* The session is closed and another one started; start() resets the resolver.
Restart == \E t \in {"eis", "notify"} : UNCHANGED layout /\ Fresh(t)

Next ==
    \/ \E s \in Keysyms, state \in {"press", "release", "tap"} : Key(s, state)
    \/ \E text \in Texts : TypeText(text)
    \/ \E press \in BOOLEAN : Button(press)
    \/ Motion
    \/ \E k \in Keymaps : ChangeLayout(k)
    \/ OnKeymap \/ Disconnect \/ Restart

Spec == Init /\ [][Next]_vars

-----------------------------------------------------------------------------
(* Properties.                                                             *)

Pressable == {Code(c) : c \in Codes} \cup {Sym(s) : s \in Keysyms} \cup {Left}

TypeOK ==
    /\ transport \in {"eis", "notify"}
    /\ layout \in Keymaps /\ keymapText \in Keymaps
    /\ offered \in {<<>>} \cup {<<k>> : k \in Keymaps}
    /\ resolver \in {<<>>} \cup {<<Parse(k)>> : k \in Keymaps}
    /\ link \in {"resumed", "emulating", "closed"}
    /\ down \subseteq Pressable
    /\ owed \subseteq Keysyms \cup {"left"}

\* What a keysym or button has the compositor hold while it is pressed.
Holds(x) ==
    IF x = "left" THEN {Left}
    ELSE IF Supported(x) THEN {KeyEvents(x, TRUE)[i].key : i \in DOMAIN KeyEvents(x, TRUE)}
    ELSE {}

\* No key stays down that no client answers for: whatever is pressed at the
\* compositor is held by a keysym or button whose press was asked for and whose
\* release has not been answered since; also when a call fails half-way, when
\* characters share a key or a Shift, and when the layout changes in between
\* (the resolver is kept, so a release names the keys of its press).
DownIsOwed == down \subseteq UNION {Holds(x) : x \in owed}

\* type_text answered without an error has sent the keys that spell the text in
\* the keymap, Shift and all, if nothing was pressed before, CapsLock is off and
\* the keymap known is the one in use; whatever was typed, failed or changed
\* before.  Which code stands for a key is another question.
KeysSpellText == typed.named = typed.asked

\* xkb.py:3-4: the EIS keyboard "takes evdev keycodes, so keysym-to-keycode
\* translation happens client-side": what an application then receives is the
\* text.
TypedAsAsked == typed.got = typed.asked
=============================================================================
