-------------------------------- MODULE Sound --------------------------------
(***************************************************************************)
(* Sound on a Sound Blaster, whose interrupt mixes the active sources into *)
(* the idle half of a double buffer (audio/audio.c, audio/synth.c,         *)
(* drivers/sb16.c), or without one on the speaker, which the timer's       *)
(* interrupt switches off (drivers/speaker.c); and the mixer's controls    *)
(* (apps/mixer_app.c).                                                     *)
(*                                                                         *)
(* The task that asks for a sound is interrupted between any two steps,    *)
(* unless it asks by a system call.  A sample is the sound it is of, and a *)
(* sound is as long as the halves it fills; what is mixed is left out.     *)
(***************************************************************************)
EXTENDS Integers, FiniteSets

CONSTANTS
    MaxSources,     \* AUDIO_MAX_SOURCES
    Ticks,          \* the timer's counter counts modulo this
    MaxLength,      \* bound on a sound's length, in buffers or ticks
    MaxSounds,      \* bound on the sounds asked for
    MaxClicks       \* bound on the changes made in the mixer

VARIABLES
    backend,    \* audio_backend
    source,     \* audio_sources
    buffer,     \* synth_buffers: the sound in each
    shifted,    \* history: a sound was started on a slot other than its buffer's
    task,       \* where synth_alloc_and_generate and speaker_beep are
    want,       \* the sound it is about: its number, length and slot
    masked,     \* it was called by a system call
    sounds,     \* sounds so far
    tick,       \* pit_ticks
    gate,       \* the speaker's gate is open
    beeping, stopTick,      \* speaker_beep_active, speaker_stop_tick
    channel, muted, drag,   \* mixer_channel_volume, mixer_channel_muted, mixer_drag_target
    restarted,  \* history: the slots that played a sound since the mixer set them
    clicks      \* changes so far

cardVars == <<source, buffer, shifted>>
speakerVars == <<tick, gate, beeping, stopTick>>
mixerVars == <<channel, muted, drag, restarted, clicks>>
taskVars == <<task, want, masked, sounds>>
vars == <<backend, cardVars, speakerVars, mixerVars, taskVars>>

Slots == 0 .. MaxSources - 1
NoSlot == MaxSources

\* The signed difference of two readings of the timer.
Signed(a, b) == LET d == (a - b) % Ticks IN IF d < Ticks \div 2 THEN d ELSE d - Ticks

Silent == [active |-> FALSE, samples |-> NoSlot, total |-> 0, position |-> 0,
           loud |-> FALSE, plays |-> 0]

\* audio_init: the card when its reset answers, with both halves primed; the
\* mixer's window opens later.
Init ==
    /\ backend \in {"card", "speaker"}
    /\ source = [s \in Slots |-> Silent]
    /\ buffer = [s \in Slots |-> 0]
    /\ shifted = FALSE
    /\ task = "idle" /\ want = [sound |-> 0, length |-> 1, slot |-> NoSlot]
    /\ masked = FALSE /\ sounds = 0
    /\ tick \in 0 .. Ticks - 1 /\ gate = FALSE /\ beeping = FALSE /\ stopTick = 0
    /\ channel = [s \in Slots |-> TRUE] /\ muted = {} /\ drag = NoSlot
    /\ restarted = Slots /\ clicks = 0

-----------------------------------------------------------------------------
(* The card's interrupt. *)

\* audio_mix: every active source gives its next part, and is over at its end.
Advance(src) ==
    IF ~src.active THEN src
    ELSE [src EXCEPT !.position = src.position + 1,
                     !.active = src.position + 1 < src.total]

\* sb16_handle_irq: a half is played; the idle one is mixed and started.
CardInterrupt ==
    /\ backend = "card" /\ ~masked
    /\ source' = [s \in Slots |-> Advance(source[s])]
    /\ UNCHANGED <<backend, buffer, shifted, speakerVars, mixerVars, taskVars>>

-----------------------------------------------------------------------------
(* synth_alloc_and_generate, speaker_beep: called by the desktop, by the     *)
(* mixer and by the system call.                                             *)

Free(s) == ~source[s].active

Lowest(S) == IF S = {} THEN NoSlot ELSE CHOOSE s \in S : \A u \in S : s <= u

\* A sound is asked for; the first slot not in use is found.
Ask(length, sys) ==
    LET slot == Lowest({s \in Slots : Free(s)})
    IN  /\ task = "idle" /\ sounds < MaxSounds
        /\ sounds' = sounds + 1
        /\ want' = [sound |-> sounds + 1, length |-> length,
                    slot |-> IF backend = "card" THEN slot ELSE NoSlot]
        /\ task' = IF backend = "speaker" THEN "tone"
                   ELSE IF slot = NoSlot THEN "idle" ELSE "generate"
        /\ masked' = (sys /\ task' # "idle")

Sound ==
    /\ \E length \in 1 .. MaxLength, sys \in BOOLEAN : Ask(length, sys)
    /\ UNCHANGED <<backend, cardVars, speakerVars, mixerVars>>

\* synth_generate: the slot's buffer is filled.
Generate ==
    /\ task = "generate"
    /\ buffer' = [buffer EXCEPT ![want.slot] = want.sound]
    /\ task' = "play"
    /\ UNCHANGED <<backend, source, shifted, want, masked, sounds, speakerVars, mixerVars>>

\* Mutant of Play: the source is active before the old sound's end is reset.
PlayOn ==
    /\ task = "play"
    /\ LET slot == Lowest(Slots \ {want.slot})
       IN  /\ source' = [source EXCEPT ![slot] =
                 [active |-> TRUE, samples |-> want.slot, total |-> want.length,
                  position |-> 0, loud |-> TRUE, plays |-> want.sound]]
           /\ restarted' = restarted \cup {slot}
    /\ task' = "idle" /\ masked' = FALSE
    /\ UNCHANGED <<backend, buffer, shifted, want, sounds, speakerVars, channel, muted, drag, clicks>>

\* audio_play: the buffer is given to the first slot not active now.
Play ==
    /\ task = "play"
    /\ LET slot == Lowest({s \in Slots : Free(s)})
       IN  /\ source' = [source EXCEPT ![slot] =
                 [active |-> TRUE, samples |-> want.slot, total |-> want.length,
                  position |-> 0, loud |-> TRUE, plays |-> want.sound]]
           /\ shifted' = (shifted \/ slot # want.slot)
           /\ restarted' = restarted \cup {slot}
    /\ task' = "idle" /\ masked' = FALSE
    /\ UNCHANGED <<backend, buffer, want, sounds, speakerVars, channel, muted, drag, clicks>>

\* speaker_play_tone: the gate is opened.
Tone ==
    /\ task = "tone"
    /\ gate' = TRUE
    /\ task' = "ticks"
    /\ UNCHANGED <<backend, want, masked, sounds, tick, beeping, stopTick, cardVars, mixerVars>>

\* speaker_beep: the timer is read for the tick the tone ends at.
ReadTicks ==
    /\ task = "ticks"
    /\ want' = [want EXCEPT !.length = (tick + want.length) % Ticks]
    /\ task' = "arm"
    /\ UNCHANGED <<backend, masked, sounds, speakerVars, cardVars, mixerVars>>

\* speaker_beep: the tick and the flag are stored.
Arm ==
    /\ task = "arm"
    /\ stopTick' = want.length
    /\ beeping' = TRUE
    /\ want' = [want EXCEPT !.length = 1]
    /\ task' = "idle" /\ masked' = FALSE
    /\ UNCHANGED <<backend, sounds, tick, gate, cardVars, mixerVars>>

\* Mutant of Expired: the ticks are compared as they are.
ExpiredUnsigned(now) == beeping /\ now >= stopTick

\* speaker_update: a tone whose tick is reached is switched off.
Expired(now) == beeping /\ Signed(now, stopTick) >= 0

Update(now) ==
    /\ gate' = (gate /\ ~Expired(now))
    /\ beeping' = (beeping /\ ~Expired(now))
    /\ stopTick' = IF Expired(now) THEN 0 ELSE stopTick

\* pit_handle_irq.  Arming a tone takes less than a tick, counted from its
\* reading of the timer: at most one interrupt falls in between.
TimerInterrupt ==
    /\ backend = "speaker" /\ ~masked
    /\ task = "arm" => Signed(want.length, tick) > 0
    /\ tick' = (tick + 1) % Ticks
    /\ Update(tick')
    /\ UNCHANGED <<backend, cardVars, mixerVars, taskVars>>

\* desktop_run: its loop updates the speaker too.
Loop ==
    /\ backend = "speaker" /\ task = "idle"
    /\ Expired(tick)
    /\ Update(tick)
    /\ UNCHANGED <<backend, tick, cardVars, mixerVars, taskVars>>

-----------------------------------------------------------------------------
(* The mixer: its window's callbacks run between sounds. *)

\* Mutant of Commit: the level of a muted channel is applied too.
CommitLevels(levels, mutes) ==
    /\ clicks < MaxClicks /\ clicks' = clicks + 1
    /\ channel' = levels /\ muted' = mutes /\ restarted' = {}
    /\ source' = [s \in Slots |-> [source[s] EXCEPT !.loud = levels[s]]]
    /\ UNCHANGED <<backend, buffer, shifted, speakerVars, taskVars>>

\* mixer_commit_audio: every slot's volume is its channel's unless muted.
Commit(levels, mutes) ==
    /\ clicks < MaxClicks /\ clicks' = clicks + 1
    /\ channel' = levels /\ muted' = mutes /\ restarted' = {}
    /\ source' = [s \in Slots |-> [source[s] EXCEPT !.loud = s \notin mutes /\ levels[s]]]
    /\ UNCHANGED <<backend, buffer, shifted, speakerVars, taskVars>>

\* mixer_on_init: controls start at the volumes in force, or at 200 for none.
Open ==
    /\ task = "idle"
    /\ drag' = NoSlot
    /\ Commit([s \in Slots |-> TRUE], {})

\* mixer_on_click: a mute button, or a slider, which is then dragged.
ClickMute ==
    /\ task = "idle"
    /\ \E s \in Slots : Commit(channel, IF s \in muted THEN muted \ {s} ELSE muted \cup {s})
    /\ UNCHANGED drag

ClickSlider ==
    /\ task = "idle"
    /\ \E s \in Slots, on \in BOOLEAN :
           /\ drag' = s
           /\ Commit([channel EXCEPT ![s] = on], muted)

\* mixer_update_drag: the slider follows the pointer, until the packet taken
\* from the mouse has no button or there is none.
DragSlider ==
    /\ task = "idle" /\ drag # NoSlot
    /\ \/ /\ drag' = NoSlot
          /\ UNCHANGED <<backend, channel, muted, restarted, clicks, cardVars, speakerVars, taskVars>>
       \/ /\ \E on \in BOOLEAN : Commit([channel EXCEPT ![drag] = on], muted)
          /\ UNCHANGED drag

Next ==
    \/ CardInterrupt \/ TimerInterrupt
    \/ Sound \/ Generate \/ Play \/ Tone \/ ReadTicks \/ Arm \/ Loop
    \/ backend = "card" /\ (Open \/ ClickMute \/ ClickSlider \/ DragSlider)

Spec == Init /\ [][Next]_vars

-----------------------------------------------------------------------------
(* Properties. *)

\* The variables are of their types.
TypeOK ==
    /\ backend \in {"card", "speaker"}
    /\ source \in [Slots -> [active : BOOLEAN, samples : Slots \cup {NoSlot}, total : 0 .. MaxLength,
                             position : 0 .. MaxLength, loud : BOOLEAN, plays : 0 .. MaxSounds]]
    /\ buffer \in [Slots -> 0 .. MaxSounds]
    /\ task \in {"idle", "generate", "play", "tone", "ticks", "arm"}
    /\ tick \in 0 .. Ticks - 1 /\ stopTick \in 0 .. Ticks - 1
    /\ muted \subseteq Slots /\ drag \in Slots \cup {NoSlot}

\* A source plays the sound it was started with to its end: nothing is generated
\* into a buffer in use, as long as no slot before the one found became free
\* while a sound was being generated.
SoundsWhole ==
    ~shifted => \A s \in Slots : source[s].active => buffer[source[s].samples] = source[s].plays

\* Two sources never share a buffer, under the same condition.
BuffersApart ==
    ~shifted => \A s, u \in Slots :
        s # u /\ source[s].active /\ source[u].active => source[s].samples # source[u].samples

\* Once speaker_beep has returned an open gate is one that will be closed: the
\* beep is active and its end is at most its length away, also when the timer's
\* counter wraps.
TonesEnd ==
    gate /\ task = "idle" => beeping /\ Signed(stopTick, tick) \in 0 .. MaxLength

\* A muted channel is silent until a sound is started on its slot.
MutedSilent == \A s \in muted \ restarted : ~source[s].loud

SoundSound == SoundsWhole /\ BuffersApart /\ TonesEnd /\ MutedSilent
=============================================================================
