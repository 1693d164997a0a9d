------------------------------ MODULE ModVoice ------------------------------
(***************************************************************************)
(* What the rows of a module do to the voices (modplayer/modplayer.c):     *)
(* MOD_UpdateRow starts notes and commands, MOD_UpdateEffect bends pitch   *)
(* and volume on the ticks between, and a program sets the music's volume  *)
(* and plays sounds of its own.  Polls come from the program's loop or, as *)
(* modplayer.h would have it, from the timer's interrupt: then they also   *)
(* come in the middle of these calls.                                      *)
(*                                                                         *)
(* A row of a channel is [sample, period, fx, x, y]: 0 for no sample or no *)
(* note, the command and the two digits of its parameter.  Reset and wait  *)
(* of the SPU, the panning and where a sample starts are left out.         *)
(***************************************************************************)
EXTENDS Integers, FiniteSets

CONSTANTS
  PeriodTable,  \* note number -> period: Notes for each fine tuning
  Notes,        \* notes of one tuning: 36 in the source
  Tunings,      \* fine tunings: 16 in the source
  Instruments,  \* sample number -> [finetune, volume], from 1
  RowSet,       \* the rows that songs are made of
  Volumes,      \* volumes a program sets for the music: up to 65535
  Lowest, Highest,   \* the periods slides are held to: 108 and 907
  HasCalls      \* whether the program sets the volume and plays sounds of its own

(* The first tuning has every period once.                                 *)
ASSUME NotesAssumption ==
  /\ Notes \in Nat \ {0} /\ Tunings \in Nat \ {0}
  /\ Lowest \in Nat \ {0} /\ Highest \in Nat /\ Lowest < Highest
  /\ PeriodTable \in [0 .. Tunings * Notes - 1 -> Lowest .. Highest]
  /\ \A i, j \in 0 .. Notes - 1 : PeriodTable[i] = PeriodTable[j] => i = j

(* "where musicVolume is between 0 and 65535" (modplayer.h).               *)
Loudest == 65535

(* A row has four-bit digits; a sample number 0 is no sample.              *)
ASSUME RowsAssumption ==
  /\ RowSet \subseteq [sample : {0} \cup DOMAIN Instruments, period : Nat,
                        fx : 0 .. 15, x : 0 .. 15, y : 0 .. 15]
  /\ Volumes \subseteq 0 .. Loudest

ASSUME InstrumentsAssumption ==
  /\ 1 \in DOMAIN Instruments
  /\ \A s \in DOMAIN Instruments :
       Instruments[s].volume \in Nat /\ Instruments[s].finetune \in 0 .. Tunings - 1

VARIABLES
  voice,     \* s_channelData of the song's channel, what the SPU was given
             \* (rate, level), and history: whether that level is not, or not
             \* yet, its volume's (bent), and whether its volume was set by a
             \* poll amid a call of the program's (amid)
  row,       \* the row it plays
  finetune,  \* s_spuInstrumentData's, which a song can change
  master,    \* s_masterVolume
  call,      \* where the program is in a call, and the volume it put aside
  music,     \* history: the volume the program gave the music
  asked      \* history: the note the last row asked for, or -1

voiceVars == <<voice, row, finetune, master, call, music, asked>>

Default == 16384
Silent == [note |-> 0, period |-> 0, slideTo |-> 0, slideSpeed |-> 0, volume |-> 0,
           sample |-> 1, vibrato |-> 0, vibratoSize |-> 0, vibratoWave |-> 0,
           tremolo |-> 0, tremoloSize |-> 0, tremoloWave |-> 0,
           rate |-> Lowest, level |-> 0, bent |-> FALSE, amid |-> FALSE]
NoRow == [sample |-> 0, period |-> 0, fx |-> 0, x |-> 0, y |-> 0]

VoiceInit ==
  /\ voice = Silent /\ row = NoRow
  /\ finetune = [s \in DOMAIN Instruments |-> Instruments[s].finetune]
  /\ master = Default /\ music = Default
  /\ call = <<"none", 0>> /\ asked = -1

-----------------------------------------------------------------------------
AtMost(n, top) == IF n > top THEN top ELSE n
AtLeast(n, low) == IF n < low THEN low ELSE n

(* SPUSetVoiceVolume of a volume in 0 .. 64: (volume << 8) * master >> 16. *)
Level(n, m) == (n * m) \div 256
Amid        == call[1] # "none"
Loud(v, n)  == [v EXCEPT !.volume = n, !.level = Level(n, master),
                         !.bent = FALSE, !.amid = Amid]
Pitch(v, p) == [v EXCEPT !.period = p, !.rate = p]
Value(r)    == 16 * r.x + r.y

(* The search for a note's number: the loop tests and then counts down, so *)
(* it begins below the last note; -1 when none has the period.             *)
NoteOf(p) ==
  LET hits == {i \in 0 .. Notes - 2 : PeriodTable[i] = p}
  IN  IF hits = {} THEN -1 ELSE CHOOSE i \in hits : \A j \in hits : j <= i

(* A 16-bit index past the table reads whatever lies there.                *)
Period(note) == IF note \in DOMAIN PeriodTable THEN PeriodTable[note] ELSE -1

(* The first half of a row: its sample, then its note.                     *)
WithSample(v, r) ==
  IF r.sample = 0 THEN v
  ELSE LET n == AtMost(Instruments[r.sample].volume, 63) IN
       IF r.fx = 7 THEN [v EXCEPT !.sample = r.sample, !.volume = n,
                                  !.bent = TRUE, !.amid = Amid]
                   ELSE Loud([v EXCEPT !.sample = r.sample], n)

(* Mutant: the note is tuned as the sample that was playing.               *)
OldTuning(v, r) ==
  IF r.period = 0 THEN v
  ELSE LET note == NoteOf(r.period) + finetune[voice.sample] * Notes
       IN  Pitch([v EXCEPT !.note = note], IF r.fx \in {3, 5} THEN v.period ELSE Period(note))

WithNote(v, r) ==
  IF r.period = 0 THEN v
  ELSE LET note  == NoteOf(r.period) + finetune[v.sample] * Notes
           noted == [v EXCEPT !.note = note,
                              !.vibrato = IF v.vibratoWave < 4 THEN 0 ELSE @,
                              !.tremolo = IF v.tremoloWave < 4 THEN 0 ELSE @]
       IN  IF r.fx \in {3, 5} THEN Pitch(noted, v.period) ELSE Pitch(noted, Period(note))

(* The extended commands of a row that touch its voice.                    *)
Extended(v, r) ==
  CASE r.x = 1  -> Pitch(v, v.period - r.y)
    [] r.x = 2  -> Pitch(v, v.period + r.y)
    [] r.x = 4  -> [v EXCEPT !.vibratoWave = r.y]
    [] r.x = 7  -> [v EXCEPT !.tremoloWave = r.y]
    [] r.x = 10 -> Loud(v, AtMost(v.volume + r.y, 63))
    [] r.x = 11 -> Loud(v, AtLeast(v.volume - r.y, 0))
    [] OTHER    -> v

(* Sizes are two digits: the low one the speed, the high one the depth.    *)
(* The vibrato's depth is taken from the digit of its speed.               *)
Size(old, low, high) ==
  (IF low = 0 THEN old % 16 ELSE low)
    + 16 * (IF high[1] = 0 THEN old \div 16 ELSE high[2])

WithCommand(v, r) ==
  CASE r.fx = 3  -> [v EXCEPT !.slideSpeed = IF Value(r) = 0 THEN @ ELSE Value(r),
                              !.slideTo = IF r.period = 0 THEN @ ELSE Period(v.note)]
    [] r.fx = 4  -> [v EXCEPT !.vibratoSize = Size(@, r.x, <<r.y, r.x>>)]
    [] r.fx = 7  -> [v EXCEPT !.tremoloSize = Size(@, r.x, <<r.y, r.y>>)]
    [] r.fx = 12 -> Loud(v, IF Value(r) > 64 THEN 63 ELSE Value(r))
    [] r.fx = 14 -> Extended(v, r)
    [] OTHER     -> v

(* E5 retunes the row's sample, or the first one when the row has none.    *)
Retuned(r) ==
  IF r.fx = 14 /\ r.x = 5
  THEN [finetune EXCEPT ![IF r.sample = 0 THEN 1 ELSE r.sample] = r.y] ELSE finetune

(* A channel's first row that is not empty plays a note, and a glide has a *)
(* note to go to: other rows would divide by a period of 0.                *)
Playable(r) ==
  /\ voice.period = 0 => r = NoRow \/ (r.sample # 0 /\ r.period # 0 /\ r.fx \notin {3, 5})
  /\ r.fx \in {3, 5} => voice.slideTo # 0 \/ (r.fx = 3 /\ r.period # 0)

MOD_UpdateRow(r) ==
  /\ Playable(r)
  /\ voice' = WithCommand(WithNote(WithSample(voice, r), r), r)
  /\ finetune' = Retuned(r)
  /\ row' = r
  /\ asked' = IF r.period = 0 THEN -1
              ELSE (CHOOSE i \in 0 .. Notes - 1 : PeriodTable[i] = r.period)
                   + finetune[voice'.sample] * Notes
  /\ UNCHANGED <<master, call, music>>

-----------------------------------------------------------------------------
(* The commands that go on between rows.                                   *)
VolumeSlide(v, r) ==
  Loud(v, IF Value(r) <= 16 THEN AtLeast(v.volume - Value(r), 0)
                            ELSE AtMost(v.volume + r.x, 63))

Glide(v) ==
  Pitch(v, IF v.period < v.slideTo THEN AtMost(v.period + v.slideSpeed, v.slideTo)
           ELSE AtLeast(v.period - v.slideSpeed, v.slideTo))

(* The waveforms: a place in the wave to 0 .. 255; pos is -32 .. 31.       *)
SineTable == <<0, 24, 49, 74, 97, 120, 141, 161, 180, 197, 212, 224, 235, 244, 250, 253,
               255, 253, 250, 244, 235, 224, 212, 197, 180, 161, 141, 120, 97, 74, 49, 24>>
Wave(shape, pos, falling) ==
  CASE shape % 4 = 1 -> IF falling THEN 255 - 8 * (pos % 32) ELSE 8 * (pos % 32)
    [] shape % 4 = 2 -> 255
    [] OTHER         -> SineTable[(pos % 32) + 1]

Onward(pos, speed) == IF pos + speed >= 32 THEN pos + speed - 64 ELSE pos + speed

Vibrato(v) ==
  LET bend == (Wave(v.vibratoWave, v.vibrato, v.vibrato < 0) * (v.vibratoSize \div 16)) \div 128
  IN  [v EXCEPT !.rate = v.period + (IF v.vibrato < 0 THEN -bend ELSE bend),
                !.vibrato = Onward(@, v.vibratoSize % 16)]

(* The depth of the tremolo is its waveform's number.                      *)
Tremolo(v) ==
  LET bend == (Wave(v.vibratoWave, v.tremolo, v.tremolo < 0) * v.tremoloWave) \div 64
      n    == AtMost(v.volume + (IF v.tremolo < 0 THEN -bend ELSE bend), 63)
  IN  [v EXCEPT !.level = Level(n, master), !.bent = TRUE,
                !.tremolo = Onward(@, v.tremoloSize % 16)]

Arpeggio(v, r, tick) ==
  [v EXCEPT !.rate = CASE tick % 3 = 0 -> v.period
                       [] tick % 3 = 1 -> Period(v.note + r.x)
                       [] OTHER        -> Period(v.note + r.y)]

MOD_UpdateEffect(v, r, tick) ==
  CASE r.fx = 0 /\ Value(r) # 0 -> Arpeggio(v, r, tick)
    [] r.fx = 1  -> Pitch(v, AtLeast(v.period - Value(r), Lowest))
    [] r.fx = 2  -> Pitch(v, AtMost(v.period + Value(r), Highest))
    [] r.fx = 3  -> Glide(v)
    [] r.fx = 4  -> Vibrato(v)
    [] r.fx = 5  -> Glide(VolumeSlide(v, r))
    [] r.fx = 6  -> Vibrato(VolumeSlide(v, r))
    [] r.fx = 7  -> Tremolo(v)
    [] r.fx = 10 -> VolumeSlide(v, r)
    [] r.fx = 14 /\ r.x = 12 /\ r.y = tick -> Loud(v, 0)
    [] OTHER     -> v

Tick(tick) ==
  /\ voice' = MOD_UpdateEffect(voice, row, tick)
  /\ UNCHANGED <<row, finetune, master, call, music, asked>>

-----------------------------------------------------------------------------
(* MOD_Load: the voices and the instruments anew, the master volume not.   *)
(* The program polls no song that it is loading.                           *)
LoadVoices ==
  /\ ~Amid
  /\ voice' = Silent /\ row' = NoRow /\ asked' = -1
  /\ finetune' = [s \in DOMAIN Instruments |-> Instruments[s].finetune]
  /\ UNCHANGED <<master, call, music>>

(* MOD_SetMusicVolume: the macro that gives a volume to the SPU shifts the *)
(* volume it is handed by 8 bits.  Here that is the channel's own, which   *)
(* has no more: it is left at 0, and the SPU is given that, or what a poll *)
(* has put there since, with no shift.                                     *)
MOD_SetMusicVolume(m) ==
  /\ HasCalls /\ ~Amid
  /\ call' = <<"setting", 0>> /\ master' = m /\ music' = m
  /\ voice' = [voice EXCEPT !.bent = TRUE]
  /\ UNCHANGED <<row, finetune, asked>>

ShiftsOut ==
  /\ call[1] = "setting" /\ call' = <<"shifted", 0>>
  /\ voice' = [voice EXCEPT !.volume = 0, !.bent = TRUE, !.amid = FALSE]
  /\ UNCHANGED <<row, finetune, master, music, asked>>

Unshifted == (voice.volume * master) \div 65536
GivesVolume ==
  /\ call[1] = "shifted" /\ call' = <<"none", 0>>
  /\ \E n \in {0, Unshifted} : voice' = [voice EXCEPT !.level = n, !.bent = FALSE]
  /\ UNCHANGED <<row, finetune, master, music, asked>>

(* MOD_PlaySoundEffect, on a voice the song does not use: the master volume*)
(* is put aside, the note played, the volume put back.                     *)
PutAside ==
  /\ HasCalls /\ ~Amid
  /\ call' = <<"playing", master>> /\ master' = Default
  /\ UNCHANGED <<voice, row, finetune, music, asked>>

(* Mutant: a sound effect leaves its own volume behind.                    *)
NeverPutBack ==
  /\ call[1] = "playing"
  /\ call' = <<"none", 0>>
  /\ UNCHANGED <<voice, row, finetune, music, asked, master>>

PutBack ==
  /\ call[1] = "playing"
  /\ master' = call[2] /\ call' = <<"none", 0>>
  /\ UNCHANGED <<voice, row, finetune, music, asked>>

VoiceNext ==
  \/ \E r \in RowSet : MOD_UpdateRow(r)
  \/ \E tick \in 0 .. 5 : Tick(tick)
  \/ LoadVoices
  \/ (\E m \in Volumes : MOD_SetMusicVolume(m)) \/ ShiftsOut \/ GivesVolume
  \/ PutAside \/ PutBack

VoiceSpec == VoiceInit /\ [][VoiceNext]_voiceVars

-----------------------------------------------------------------------------
(* Songs that keep to the table: their periods are found in it, their      *)
(* arpeggios do not lead past a tuning's last note from any of their own   *)
(* notes, and no fine slide, which nothing holds, takes a period anywhere. *)
Arpeggios == {r \in RowSet : r.fx = 0 /\ Value(r) # 0}
KeepsToTable ==
  /\ \A s \in RowSet : s.period # 0 =>
       /\ NoteOf(s.period) # -1
       /\ \A r \in Arpeggios : NoteOf(s.period) + r.x < Notes /\ NoteOf(s.period) + r.y < Notes
  /\ \A r \in RowSet : r.fx = 14 => r.x \notin {1, 2} /\ (r.x = 5 => r.y < Tunings)

RowDigits == [sample : {0} \cup DOMAIN Instruments, period : Nat,
              fx : 0 .. 15, x : 0 .. 15, y : 0 .. 15]

(* The type of a channel's data: its volume is one the SPU takes, and its  *)
(* note lies in the table, whatever rows, tunings and commands came before.*)
VoiceTypeOK ==
  /\ voice.volume \in 0 .. 64 /\ voice.note \in DOMAIN PeriodTable
  /\ voice.vibrato \in -32 .. 31 /\ voice.tremolo \in -32 .. 31
  /\ voice.slideSpeed \in 0 .. 255 /\ voice.vibratoSize \in 0 .. 255
  /\ voice.tremoloSize \in 0 .. 255 /\ row \in RowDigits
  /\ call[1] \in {"none", "playing", "setting", "shifted"} /\ master \in 0 .. Loudest

(* Every sample rate is divided by a period that is one a note can have,   *)
(* give or take a vibrato: slides, glides, arpeggios and retuned samples,  *)
(* one after another, never lead to 0 or out of the table.                 *)
RatesArePlayable == voice.rate \in (Lowest - 29) .. (Highest + 29)

(* The SPU is never given a volume below zero: its highest bit would       *)
(* start a sweep.                                                          *)
LevelsArePlayable == voice.level >= 0

(* "behaves as a master music volume throughout the lifetime of the app"   *)
(* (modplayer.h): outside a tremolo a voice of the song is as loud as its  *)
(* channel's volume at the volume the program gave the music, however      *)
(* polls, sound effects and new volumes follow one another.  A volume that *)
(* a poll set amid a call is excepted, until the next volume is set.       *)
MusicVolumeHolds ==
  ~voice.bent /\ ~voice.amid => voice.level = Level(voice.volume, music)

MusicKeepsItsVolume == LevelsArePlayable /\ MusicVolumeHolds

(* The period table has the last note of the third octave ("octave 3 tune  *)
(* 0", modplayer.c): a row that asks for a note gets that note.            *)
RowsPlayTheirNote == asked # -1 => voice.note = asked

(* What becomes of the notes of a song that keeps to the table.            *)
NotesArePlayed == VoiceTypeOK /\ RatesArePlayable /\ RowsPlayTheirNote
=============================================================================
