------------------------------ MODULE Terminal ------------------------------
(***************************************************************************)
(* The console's edge: how wide the terminal is and how the guest comes to *)
(* know (site/js/terminal.js, the manifest and the winsize files of        *)
(* site/js/boot.js), and the key bar with its sticky modifiers             *)
(* (site/js/keybar.js).                                                    *)
(*                                                                         *)
(* The grid is one number, the columns a face of a given size leaves in a  *)
(* container of a given width.  A file of the share is written at once, as *)
(* the guest sees it; a name it has not found is looked up again.          *)
(***************************************************************************)
EXTENDS Integers, TLC

CONSTANTS
  Widths,           \* the widths the container may have
  FontMin, FontMax, \* the faces zoom goes to
  MaxTaps,          \* bound: how often a key of the bar is pressed
  MaxReflows        \* bound: how often the container or the face changes

ASSUME TerminalAssumption ==
  /\ Widths \subseteq Nat
  /\ FontMin \in Nat \ {0} /\ FontMax \in Nat /\ FontMin <= FontMax

VARIABLES
  width, font,  \* the container and the face
  phase,        \* "opening", "held" with the share there, "running", "mounted"
  manifest,     \* the size in the manifest
  resizes,      \* how many sizes were handed over ...
  files,        \* ... and the winsize files they went to
  tty,          \* the size the guest's console has, 0 before it is set
  n,            \* the file the guest's loop waits for
  armed,        \* the modifiers that are armed
  taps, used,   \* history: how often each was tapped and applied to a key
  reflows

window == <<width, font, reflows>>
inside == <<phase, manifest, resizes, files, tty, n>>
keys == <<armed, taps, used>>
edge == <<window, inside, keys>>

Modifiers == {"ctrl", "alt"}
Grid(w, f) == w \div f

Min2(a, b) == IF a < b THEN a ELSE b
Max2(a, b) == IF a > b THEN a ELSE b

-----------------------------------------------------------------------------
(***************************************************************************)
(* The size.                                                               *)
(***************************************************************************)

\* Mutant: the files are numbered from 0.
RefitFromZero(w, f) ==
  /\ width' = w /\ font' = f
  /\ IF Grid(w, f) # Grid(width, font) /\ phase # "opening"
       THEN resizes' = resizes + 1 /\ files' = (resizes :> Grid(w, f)) @@ files
     ELSE UNCHANGED <<resizes, files>>

\* fit, and the listener startVM adds once it has the share.
Refit(w, f) ==
  /\ width' = w /\ font' = f
  /\ IF Grid(w, f) # Grid(width, font) /\ phase # "opening"
       THEN resizes' = resizes + 1 /\ files' = (resizes' :> Grid(w, f)) @@ files
     ELSE UNCHANGED <<resizes, files>>

\* The window, or a phone's keyboard, leaves the container another width.
Reflow(w) ==
  /\ reflows < MaxReflows /\ reflows' = reflows + 1
  /\ w # width /\ Refit(w, font)
  /\ UNCHANGED <<phase, manifest, tty, n, keys>>

\* startVM has the file system and listens to sizes from here on.
Filesystem ==
  /\ phase = "opening" /\ phase' = "held"
  /\ UNCHANGED <<window, manifest, resizes, files, tty, n, keys>>

\* vm.run: the manifest says what size the terminal has by now.
RunWithSize ==
  /\ phase = "held" /\ phase' = "running"
  /\ manifest' = Grid(width, font)
  /\ UNCHANGED <<window, resizes, files, tty, n, keys>>

\* The guest reads the manifest, which sets the size and starts the loop.
ReadManifest ==
  /\ phase = "running" /\ phase' = "mounted"
  /\ tty' = manifest /\ n' = 1
  /\ UNCHANGED <<window, manifest, resizes, files, keys>>

\* One turn of the loop that finds its file.
Apply ==
  /\ phase = "mounted" /\ n \in DOMAIN files
  /\ tty' = files[n] /\ n' = n + 1
  /\ UNCHANGED <<window, phase, manifest, resizes, files, keys>>

-----------------------------------------------------------------------------
(***************************************************************************)
(* The key bar.                                                            *)
(***************************************************************************)
Tapped == taps["ctrl"] + taps["alt"]
disarm == armed' = {}
Applied == used' = [m \in Modifiers |-> used[m] + IF m \in armed THEN 1 ELSE 0]

PressModifier(m) ==
  /\ Tapped < MaxTaps /\ taps' = [taps EXCEPT ![m] = @ + 1]
  /\ armed' = IF m \in armed THEN armed \ {m} ELSE armed \cup {m}
  /\ UNCHANGED <<used, window, inside>>

\* Mutant: an arrow leaves the modifiers armed, as a paste does.
PressCursorArmed ==
  /\ armed # {} /\ Applied
  /\ UNCHANGED <<armed, taps, window, inside>>

\* An arrow, Home or End takes the modifiers in its sequence.
PressCursor ==
  /\ armed # {} /\ Applied /\ disarm
  /\ UNCHANGED <<taps, window, inside>>

\* A- or A+: another face, within its limits.
PressZoom(step) ==
  /\ reflows < MaxReflows /\ reflows' = reflows + 1
  /\ Refit(width, Min2(FontMax, Max2(FontMin, font + step)))
  /\ UNCHANGED <<phase, manifest, tty, n, keys>>

\* transform: one character, from the bar or the keyboard, takes them and uses
\* them up.  Anything longer - PgUp, PgDn, a paste - passes and leaves them.
Transform(length) ==
  /\ armed # {}
  /\ IF length = 1 THEN Applied /\ disarm ELSE UNCHANGED <<armed, used>>
  /\ UNCHANGED <<taps, window, inside>>

-----------------------------------------------------------------------------
EdgeInit ==
  /\ width \in Widths /\ font \in FontMin..FontMax /\ reflows = 0
  /\ phase = "opening" /\ manifest = 0 /\ resizes = 0 /\ files = <<>> /\ tty = 0 /\ n = 0
  /\ armed = {} /\ taps = [m \in Modifiers |-> 0] /\ used = taps

EdgeNext ==
  \/ \E w \in Widths : Reflow(w)
  \/ Filesystem \/ RunWithSize \/ ReadManifest \/ Apply
  \/ \E m \in Modifiers : PressModifier(m)
  \/ PressCursor
  \/ \E step \in {-1, 1} : PressZoom(step)
  \/ \E length \in 1..2 : Transform(length)

\* The guest's processor runs on; the reader does what they like.
EdgeFairness == WF_edge(ReadManifest) /\ WF_edge(Apply)

EdgeSpec == EdgeInit /\ [][EdgeNext]_edge /\ EdgeFairness

-----------------------------------------------------------------------------
(***************************************************************************)
(* Properties.                                                             *)
(***************************************************************************)

\* Once the terminal is left alone, a guest that has been let run comes to
\* have its size, whether it last changed before the share was there, before
\* the manifest was written or in the middle of the loop; boot.js:83-112, 317.
SizeCatchesUp == <>[](phase \in {"running", "mounted"} => phase = "mounted" /\ tty = Grid(width, font))

\* A modifier is spent on one key: no more keys go out modified than it was
\* tapped, the tap that is still armed included; keybar.js:97-138.
OneKeyPerModifier ==
  \A m \in Modifiers : used[m] + (IF m \in armed THEN 1 ELSE 0) <= taps[m]
=============================================================================
