-------------------------------- MODULE Input --------------------------------
(***************************************************************************)
(* What the interrupt handlers of keyboard, mouse and timer leave for the  *)
(* desktop's loop: the ring of characters (drivers/keyboard.c), the last   *)
(* packet of the mouse (drivers/mouse.c) and the request to synchronise    *)
(* (drivers/pit.c).  The loop runs with interrupts enabled, so a handler   *)
(* runs between any two of its accesses; a handler itself is one step.     *)
(*                                                                         *)
(* A character is the number of its keystroke and its case; the axes of    *)
(* the mouse are one, and its wheel is left out.                           *)
(***************************************************************************)
EXTENDS Integers, Sequences, FiniteSets

CONSTANTS
    RingSize,       \* KEYBOARD_RING_SIZE
    Width,          \* of the screen
    MaxKeys,        \* bound on the characters typed
    MaxChanges,     \* bound on modifier keys pressed or released
    MaxPackets,     \* bound on the packets the mouse sends
    MaxLost,        \* bound on bytes of packets that are lost
    MaxRequests,    \* bound on requests to synchronise
    MaxInterrupts   \* bound on keystrokes, bytes and requests together

VARIABLES
    ring, head, tail, count,    \* keyboard_ring and its indices
    held,                       \* is_shift_down, is_caps_lock_on, kb_ctrl_held
    typed,                      \* history: the case of each character pushed
    answers,                    \* history: the characters read
    clobbered,                  \* history: an update of the count was lost
    changes,                    \* modifier keys so far
    packet,                     \* mouse_packet up to mouse_packet_index
    pointer,                    \* mouse_x and mouse_buttons
    ready,                      \* mouse_packet_ready
    sent,                       \* bytes the mouse has sent
    plain,                      \* no byte but the first of a packet has bit 3
    lost, mixed,                \* bytes lost; packets made of bytes of two
    seen,                       \* desktop_cursor_x and buttons of desktop_run
    missed,                     \* history: a packet was taken from the desktop
    pending,                    \* pit_fs_sync_pending
    requests, owed,             \* requests so far; history: one is not served
    pc,                         \* where the desktop's loop is
    load                        \* the count as keyboard_read_char loaded it

keyVars == <<ring, head, tail, count, held, typed, answers, clobbered, changes>>
mouseVars == <<packet, pointer, ready, sent, plain, lost, mixed, seen, missed>>
syncVars == <<pending, requests, owed>>
vars == <<keyVars, mouseVars, syncVars, pc, load>>

Char == [key : 0..MaxKeys, upper : BOOLEAN]
Byte == [of : 1..MaxPackets, index : 1..3, delta : {-1, 1}, pressed : BOOLEAN]

\* keyboard_init, mouse_init and pit_init: the pointer starts mid-screen.
Init ==
    /\ ring = [i \in 0 .. RingSize - 1 |-> [key |-> 0, upper |-> FALSE]]
    /\ head = 0 /\ tail = 0 /\ count = 0
    /\ held = {} /\ typed = <<>> /\ answers = <<>> /\ clobbered = FALSE /\ changes = 0
    /\ packet = <<>> /\ ready = FALSE /\ sent = 0 /\ lost = 0 /\ mixed = 0
    /\ pointer = [x |-> Width \div 2, pressed |-> FALSE]
    /\ plain \in BOOLEAN
    /\ seen = pointer /\ missed = FALSE
    /\ pending = FALSE /\ requests = 0 /\ owed = FALSE
    /\ pc = "flag" /\ load = 0

-----------------------------------------------------------------------------
(* Interrupt handlers. *)

\* Mutant of Push: a full ring is overwritten at its tail.
PushOverwrites(upper) ==
    /\ ring' = [ring EXCEPT ![tail] = [key |-> Len(typed) + 1, upper |-> upper]]
    /\ tail' = (tail + 1) % RingSize
    /\ count' = IF count < RingSize THEN count + 1 ELSE count
    /\ typed' = Append(typed, upper)

\* keyboard_ring_push: a character for which there is no room is dropped.
Push(upper) ==
    IF count >= RingSize
    THEN UNCHANGED <<ring, tail, count, typed>>
    ELSE /\ ring' = [ring EXCEPT ![tail] = [key |-> Len(typed) + 1, upper |-> upper]]
         /\ tail' = (tail + 1) % RingSize
         /\ count' = count + 1
         /\ typed' = Append(typed, upper)

\* keyboard_handle_irq: a letter; shift and caps lock undo each other.
Letter ==
    /\ Len(typed) < MaxKeys
    /\ Push(("shift" \in held) # ("caps" \in held))
    /\ UNCHANGED <<head, held, answers, clobbered, changes, mouseVars, syncVars, pc, load>>

\* keyboard_handle_irq: F5 and delete are pushed whatever is held.
Special ==
    /\ Len(typed) < MaxKeys
    /\ Push(FALSE)
    /\ UNCHANGED <<head, held, answers, clobbered, changes, mouseVars, syncVars, pc, load>>

\* keyboard_handle_irq: control and shift go down and up, caps lock toggles.
Modifier ==
    /\ changes < MaxChanges
    /\ changes' = changes + 1
    /\ \E k \in {"ctrl", "shift", "caps"} :
           held' = IF k \in held THEN held \ {k} ELSE held \cup {k}
    /\ UNCHANGED <<ring, head, tail, count, typed, answers, clobbered, mouseVars, syncVars, pc, load>>

\* mouse_handle_irq: a byte at the start of a packet must have bit 3.
Synced(b) == Len(packet) > 0 \/ b.index = 1 \/ ~plain

\* Mutant of Moved: the pointer leaves the screen.
MovedFreely(delta) == pointer.x + delta

\* mouse_handle_irq: the position moves by the packet and stays on the screen.
Moved(delta) ==
    LET x == pointer.x + delta
    IN  IF x < 0 THEN 0 ELSE IF x >= Width THEN Width - 1 ELSE x

\* mouse_handle_irq: the byte joins the packet; the third one ends it.  A packet
\* that ends between copy and clear of mouse_get_state is missed.
Accept(b) ==
    IF ~Synced(b)
    THEN UNCHANGED <<packet, pointer, ready, mixed, missed>>
    ELSE IF Len(packet) < 2
    THEN packet' = Append(packet, b) /\ UNCHANGED <<pointer, ready, mixed, missed>>
    ELSE /\ packet' = <<>>
         /\ pointer' = [x |-> Moved(packet[2].delta), pressed |-> packet[1].pressed]
         /\ ready' = TRUE
         /\ missed' = (missed \/ pc = "clear ready")
         /\ mixed' = IF packet[1].index = 1 /\ b.of = packet[1].of THEN mixed ELSE mixed + 1

\* The mouse sends its next byte; the controller may lose it.
MouseByte ==
    /\ sent < 3 * MaxPackets
    /\ sent' = sent + 1
    /\ \E b \in Byte :
           /\ b.of = (sent \div 3) + 1 /\ b.index = (sent % 3) + 1
           /\ b.index # 1 => ~b.pressed
           /\ b.index # 2 => b.delta = 1
           /\ \/ Accept(b) /\ UNCHANGED lost
              \/ /\ lost < MaxLost
                 /\ lost' = lost + 1
                 /\ UNCHANGED <<packet, pointer, ready, mixed, missed>>
    /\ UNCHANGED <<plain, seen, keyVars, syncVars, pc, load>>

\* isr_dispatch: every 500 ticks the timer asks for a synchronisation.
TimerRequest ==
    /\ requests < MaxRequests
    /\ requests' = requests + 1
    /\ pending' = TRUE
    /\ owed' = TRUE
    /\ UNCHANGED <<keyVars, mouseVars, pc, load>>

-----------------------------------------------------------------------------
(* desktop_run: one pass of its loop. *)

Goto(from, to) == pc = from /\ pc' = to

\* pit_take_fs_sync_request: the test of the flag.
TestFlag ==
    /\ Goto("flag", IF pending THEN "clear flag" ELSE "mouse")
    /\ UNCHANGED <<keyVars, mouseVars, syncVars, load>>

\* Mutant of ClearFlag: the flag is cleared and the synchronisation is left to
\* the next request.
ClearFlagOnly ==
    /\ Goto("clear flag", "mouse")
    /\ pending' = FALSE
    /\ UNCHANGED <<requests, owed, keyVars, mouseVars, load>>

\* pit_take_fs_sync_request: the flag is cleared, then fat32_sync begins.
ClearFlag ==
    /\ Goto("clear flag", "sync")
    /\ pending' = FALSE
    /\ UNCHANGED <<requests, owed, keyVars, mouseVars, load>>

Sync ==
    /\ Goto("sync", "mouse")
    /\ owed' = FALSE
    /\ UNCHANGED <<pending, requests, keyVars, mouseVars, load>>

\* Mutant of CopyState: the buttons are copied only when the position changed.
CopyStateIfMoved ==
    /\ Goto("mouse", IF ready THEN "clear ready" ELSE "keys")
    /\ seen' = IF ready /\ pointer.x # seen.x THEN [seen EXCEPT !.pressed = pointer.pressed] ELSE seen
    /\ UNCHANGED <<packet, pointer, ready, sent, plain, lost, mixed, missed, keyVars, syncVars, load>>

\* mouse_get_state: the buttons are copied when a packet is ready.
CopyState ==
    /\ Goto("mouse", IF ready THEN "clear ready" ELSE "keys")
    /\ seen' = IF ready THEN [seen EXCEPT !.pressed = pointer.pressed] ELSE seen
    /\ UNCHANGED <<packet, pointer, ready, sent, plain, lost, mixed, missed, keyVars, syncVars, load>>

\* mouse_get_state: what came since the copy is forgotten.
ClearReady ==
    /\ Goto("clear ready", "position")
    /\ ready' = FALSE
    /\ UNCHANGED <<packet, pointer, sent, plain, lost, mixed, seen, missed, keyVars, syncVars, load>>

\* mouse_get_pos, after mouse_get_state.
ReadPosition ==
    /\ Goto("position", "keys")
    /\ seen' = [seen EXCEPT !.x = pointer.x]
    /\ UNCHANGED <<packet, pointer, ready, sent, plain, lost, mixed, missed, keyVars, syncVars, load>>

\* keyboard_read_char: the test, the character and the head of the ring.
TakeKey ==
    /\ Goto("keys", IF count = 0 THEN "draw" ELSE "count")
    /\ IF count = 0
       THEN UNCHANGED <<answers, head>>
       ELSE /\ answers' = Append(answers, ring[head])
            /\ head' = (head + 1) % RingSize
    /\ UNCHANGED <<ring, tail, count, held, typed, clobbered, changes, mouseVars, syncVars, load>>

\* keyboard_read_char: the count is loaded, lowered and stored.
LoadCount ==
    /\ Goto("count", "store")
    /\ load' = count
    /\ UNCHANGED <<keyVars, mouseVars, syncVars>>

StoreCount ==
    /\ Goto("store", "keys")
    /\ count' = load - 1
    /\ load' = 0
    /\ clobbered' = (clobbered \/ load # count)
    /\ UNCHANGED <<ring, head, tail, held, typed, answers, changes, mouseVars, syncVars>>

\* keyboard_read_char compiled to one instruction.
LowerCount ==
    /\ Goto("count", "keys")
    /\ count' = count - 1
    /\ UNCHANGED <<ring, head, tail, held, typed, answers, clobbered, changes, mouseVars, syncVars, load>>

\* desktop_draw_scene: an open mixer takes the packet that is ready
\* (mixer_update_drag); without one it only draws.
Draw ==
    /\ Goto("draw", "flag")
    /\ \E mixer \in BOOLEAN :
           /\ ready' = (ready /\ ~mixer)
           /\ missed' = (missed \/ (ready /\ mixer))
    /\ UNCHANGED <<packet, pointer, sent, plain, lost, mixed, seen, keyVars, syncVars, load>>

Interrupt == Letter \/ Special \/ Modifier \/ MouseByte \/ TimerRequest

Next ==
    \/ Len(typed) + changes + sent + requests < MaxInterrupts /\ Interrupt
    \/ TestFlag \/ ClearFlag \/ Sync
    \/ CopyState \/ ClearReady \/ ReadPosition
    \/ TakeKey \/ LoadCount \/ StoreCount \/ LowerCount \/ Draw

Spec == Init /\ [][Next]_vars

-----------------------------------------------------------------------------
(* Properties. *)

\* The variables are of their types.
TypeOK ==
    /\ ring \in [0 .. RingSize - 1 -> Char]
    /\ head \in 0 .. RingSize - 1 /\ tail \in 0 .. RingSize - 1
    /\ count \in 0 .. RingSize
    /\ held \subseteq {"ctrl", "shift", "caps"}
    /\ typed \in Seq(BOOLEAN)
    /\ pointer.x \in 0 .. Width - 1
    /\ \A i \in DOMAIN packet : packet[i] \in Byte

\* Keys are read once each, in the order and the case they were typed in, and
\* those not read are in the ring and counted, as long as no keystroke fell
\* between keyboard_read_char's load and store of the count.
KeysInOrder ==
    ~clobbered =>
        /\ answers = [n \in DOMAIN answers |-> [key |-> n, upper |-> typed[n]]]
        /\ pc \in {"flag", "mouse", "draw"} => Len(typed) = Len(answers) + count

\* When no packet waits and none was taken from the desktop by the clear that
\* follows the copy or by the mixer, the desktop acts on the mouse's last
\* position and buttons.
PointerSeen ==
    pc \in {"keys", "draw", "flag"} /\ ~ready /\ ~missed => seen = pointer

\* A lost byte spoils at most one packet, when no movement has bit 3 set.
Resynchronises == plain => mixed <= lost

\* A request of the timer is served by a synchronisation that starts after it,
\* though the flag may be raised again just before it is cleared.
RequestsServed == owed => pending \/ pc \in {"clear flag", "sync"}

InputSound == KeysInOrder /\ PointerSeen /\ Resynchronises /\ RequestsServed
=============================================================================
