----------------------------- MODULE Handshake -----------------------------
(***************************************************************************)
(* From the release of QEMU to a shell the reader can use: vm.run, resume, *)
(* coldBoot and watchConsole of site/js/boot.js on the page's side, the    *)
(* pty and the serial port between, QEMU, and nix/guest/init in the guest. *)
(*                                                                         *)
(* init prints a line, parks on a read, and mounts the share once the read *)
(* returns.  A cold guest is seen to print that line.  A resumed guest     *)
(* printed it before the snapshot was taken; all the page can hear is QEMU *)
(* saying that the restored machine runs, and not every engine says it.    *)
(***************************************************************************)
EXTENDS Naturals, Sequences

CONSTANTS
  UartSize,    \* bound: input QEMU takes in before the guest reads it
  MaxPending   \* bound: input waiting in the pty for the poll to add more

ASSUME HandshakeAssumption == UartSize \in Nat \ {0} /\ MaxPending \in Nat \ {0}

VARIABLES
  how,      \* cold: no snapshot; traced, mute: does QEMU say it resumed?
  slow,     \* whether the guest may take longer than HANDSHAKE_TIMEOUT_MS
  page,     \* where vm.run stands
  polling,  \* whether the interval that offers newlines is set
  machine,  \* QEMU: held back, loading the stream, running
  guest,    \* init, up to the shell it starts
  pty,      \* input sent by the page and not taken by QEMU
  uart,     \* input in the serial port and the guest's tty
  said,     \* the markers in the console transcript
  typed,    \* what became of a command typed through window.trynix
  blind,    \* history: the page sent a newline it had no cue for
  spare     \* history: the shell was handed an empty line

vars == <<how, slow, page, polling, machine, guest, pty, uart, said, typed, blind, spare>>

link == <<pty, uart>>

Input == {"newline", "command", "redraw"}

Send(x) == pty' = Append(pty, x)

Holds(s, x) == \E i \in DOMAIN s : s[i] = x

-----------------------------------------------------------------------------
(***************************************************************************)
(* The page.                                                               *)
(***************************************************************************)
\* vm.run: the run dependency goes, and the handshake begins.
Run ==
  /\ page = "held"
  /\ page' = IF how = "cold" THEN "ready?" ELSE "resumed?"
  /\ machine' = IF how = "cold" THEN "running" ELSE "loading"
  /\ guest' = IF how = "cold" THEN "booting" ELSE "none"
  /\ UNCHANGED <<how, slow, polling, link, said, typed, spare, blind>>

\* coldBoot: init said it is parked, or the wait for it timed out.
AnswerReady ==
  /\ page = "ready?"
  /\ "ready" \in said \/ slow
  /\ page' = "mounted?"
  /\ blind' = ("ready" \notin said)
  /\ Send("newline")
  /\ UNCHANGED <<how, slow, polling, machine, guest, uart, said, typed, spare>>

\* Mutant: the interval is set whether or not QEMU spoke.
HearPolling ==
  /\ page = "resumed?" /\ "resumed" \in said
  /\ page' = "mounted?"
  /\ polling' = TRUE
  /\ Send("newline")
  /\ UNCHANGED <<how, slow, machine, guest, uart, said, typed, spare, blind>>

\* resume: QEMU says the machine runs, and one newline is enough.
Hear ==
  /\ page = "resumed?" /\ "resumed" \in said
  /\ page' = "mounted?"
  /\ Send("newline")
  /\ UNCHANGED <<how, slow, polling, machine, guest, uart, said, typed, spare, blind>>

\* Mutant: nothing is offered again after RESUMED_TIMEOUT_MS.
HearNothingOnce ==
  /\ page = "resumed?" /\ "resumed" \notin said
  /\ page' = "mounted?"
  /\ blind' = TRUE
  /\ Send("newline")
  /\ UNCHANGED <<how, slow, polling, machine, guest, uart, said, typed, spare>>

\* RESUMED_TIMEOUT_MS passes in silence: newlines are offered blind.
HearNothing ==
  /\ page = "resumed?" /\ "resumed" \notin said
  /\ page' = "mounted?"
  /\ blind' = TRUE
  /\ polling' = TRUE
  /\ Send("newline")
  /\ UNCHANGED <<how, slow, machine, guest, uart, said, typed, spare>>

Poll ==
  /\ polling
  /\ Len(pty) < MaxPending
  /\ Send("newline")
  /\ UNCHANGED <<how, slow, page, polling, machine, guest, uart, said, typed, spare, blind>>

\* Mutant: the page looks for the marker init printed before it parked.
SeeParked ==
  /\ page = "mounted?"
  /\ said # {} \/ slow
  /\ page' = IF how = "cold" THEN "done" ELSE "settle"
  /\ polling' = FALSE
  /\ pty' = IF how = "cold" THEN Append(pty, "redraw") ELSE pty
  /\ UNCHANGED <<how, slow, machine, guest, uart, said, typed, spare, blind>>

\* Mutant: the waiter has no timeout.
SeeMountedOnly ==
  /\ page = "mounted?"
  /\ "mounted" \in said
  /\ page' = IF how = "cold" THEN "done" ELSE "settle"
  /\ polling' = FALSE
  /\ pty' = IF how = "cold" THEN Append(pty, "redraw") ELSE pty
  /\ UNCHANGED <<how, slow, machine, guest, uart, said, typed, spare, blind>>

\* The guest says it has mounted, or HANDSHAKE_TIMEOUT_MS passes; a cold
\* boot is handed over at once, a resumed guest when it has gone quiet.
SeeMounted ==
  /\ page = "mounted?"
  /\ "mounted" \in said \/ slow
  /\ page' = IF how = "cold" THEN "done" ELSE "settle"
  /\ polling' = FALSE
  /\ pty' = IF how = "cold" THEN Append(pty, "redraw") ELSE pty
  /\ UNCHANGED <<how, slow, machine, guest, uart, said, typed, spare, blind>>

Settle ==
  /\ page = "settle"
  /\ page' = "done"
  /\ Send("redraw")
  /\ UNCHANGED <<how, slow, polling, machine, guest, uart, said, typed, spare, blind>>

\* window.trynix is there from the end of startVM on, and so is the
\* terminal: a command can be typed at any time.
Type ==
  /\ typed = "no"
  /\ typed' = "sent"
  /\ Send("command")
  /\ UNCHANGED <<how, slow, page, polling, machine, guest, uart, said, spare, blind>>

-----------------------------------------------------------------------------
(***************************************************************************)
(* QEMU.                                                                   *)
(***************************************************************************)
TakeInput ==
  /\ machine # "held"
  /\ pty # << >> /\ Len(uart) < UartSize
  /\ uart' = Append(uart, Head(pty))
  /\ pty' = Tail(pty)
  /\ UNCHANGED <<how, slow, page, polling, machine, guest, said, typed, spare, blind>>

\* What happens to a typed command when the serial port is emptied under it.
Dropped == IF Holds(uart, "command") THEN "lost" ELSE typed

\* The stream is loaded: the restored device state overwrites the serial
\* port, and the guest is where the snapshot caught it.
Resume ==
  /\ machine = "loading"
  /\ machine' = "running"
  /\ guest' = "parked"
  /\ uart' = << >>
  /\ typed' = Dropped
  /\ said' = IF how = "traced" THEN said \cup {"resumed"} ELSE said
  /\ UNCHANGED <<how, slow, page, polling, pty, spare, blind>>

-----------------------------------------------------------------------------
(***************************************************************************)
(* The guest.  Opening the console may throw away what came before.        *)
(***************************************************************************)
Park ==
  /\ guest = "booting"
  /\ guest' = "parked"
  /\ said' = said \cup {"ready"}
  /\ \/ UNCHANGED <<uart, typed>>
     \/ uart' = << >> /\ typed' = Dropped
  /\ UNCHANGED <<how, slow, page, polling, machine, pty, spare, blind>>

\* read -r _handshake: whatever line comes first.
ReadHandshake ==
  /\ guest = "parked" /\ uart # << >>
  /\ uart' = Tail(uart)
  /\ guest' = IF Head(uart) = "redraw" THEN "parked" ELSE "mounting"
  /\ typed' = IF Head(uart) = "command" THEN "swallowed" ELSE typed
  /\ UNCHANGED <<how, slow, page, polling, machine, pty, said, spare, blind>>

\* The share is mounted, the manifest is sourced, and init greets the reader.
Mount ==
  /\ guest = "mounting"
  /\ guest' = "greeted"
  /\ said' = said \cup {"mounted"}
  /\ UNCHANGED <<how, slow, page, polling, machine, link, typed, spare, blind>>

\* setsid -c /bin/sh, or the plain shell: what is in the tty waits for it.
StartShell ==
  /\ guest = "greeted"
  /\ guest' = "shell"
  /\ UNCHANGED <<how, slow, page, polling, machine, link, said, typed, spare, blind>>

ShellReads ==
  /\ guest = "shell" /\ uart # << >>
  /\ uart' = Tail(uart)
  /\ spare' = (spare \/ Head(uart) = "newline")
  /\ typed' = IF Head(uart) = "command" THEN "ran" ELSE typed
  /\ UNCHANGED <<how, slow, page, polling, machine, guest, pty, said, blind>>

-----------------------------------------------------------------------------
Init ==
  /\ how \in {"cold", "traced", "mute"} /\ slow \in BOOLEAN
  /\ page = "held" /\ polling = FALSE
  /\ machine = "held" /\ guest = "none"
  /\ pty = << >> /\ uart = << >>
  /\ said = {} /\ typed = "no"
  /\ blind = FALSE /\ spare = FALSE

PageStep == Run \/ AnswerReady \/ Hear \/ HearNothing \/ Poll \/ SeeMounted \/ Settle

GuestStep == Park \/ ReadHandshake \/ Mount \/ StartShell \/ ShellReads

Next == PageStep \/ Type \/ TakeInput \/ Resume \/ GuestStep

Spec == Init /\ [][Next]_vars

(***************************************************************************)
(* Timers fire and waiters are resolved, so each of the page's steps is    *)
(* fair on its own: the interval does not keep the waiter from being       *)
(* resolved.  Nobody has to type, and QEMU and the guest may hang: that    *)
(* they run on is the hypothesis of the properties that need it.           *)
(***************************************************************************)
PageFairness ==
  /\ WF_vars(Run \/ AnswerReady \/ Hear \/ HearNothing)
  /\ WF_vars(SeeMounted)
  /\ WF_vars(Settle)
  /\ WF_vars(Poll)

GuestFairness ==
  /\ WF_vars(TakeInput)
  /\ WF_vars(Resume)
  /\ WF_vars(GuestStep)

FairSpec == Spec /\ PageFairness

-----------------------------------------------------------------------------
\* Every variable holds a value of its kind, the serial port never more input
\* than it has room for, and newlines are offered only while the page waits
\* for the guest to mount (boot.js, resume: clearInterval).
TypeOK ==
  /\ how \in {"cold", "traced", "mute"} /\ slow \in BOOLEAN
  /\ page \in {"held", "ready?", "resumed?", "mounted?", "settle", "done"}
  /\ polling \in BOOLEAN /\ (polling => page = "mounted?")
  /\ machine \in {"held", "loading", "running"}
  /\ guest \in {"none", "booting", "parked", "mounting", "greeted", "shell"}
  /\ pty \in Seq(Input)
  /\ uart \in Seq(Input) /\ Len(uart) <= UartSize
  /\ said \subseteq {"ready", "resumed", "mounted"}
  /\ typed \in {"no", "sent", "ran", "swallowed", "lost"}
  /\ blind \in BOOLEAN /\ spare \in BOOLEAN

\* A page that heard its cue, and was not typed over, hands the guest one
\* newline and no more: the shell never reads an empty line the page sent,
\* and so never litters the console (boot.js resume and coldBoot;
\* tools/boot-test.py counts the prompts).
QuietWhenHeard == ~blind /\ typed = "no" => ~spare

\* The page hands the console over at the marker, which init prints before it
\* starts the shell: the guest need not be at its prompt yet.
HandedOver == page \in {"settle", "done"}

\* Unless the page gave up waiting, no command is lost to the restored serial
\* port, or to init's read, once the console was handed over, whenever it was
\* typed: from then on the shell is the next to read (boot.js, coldBoot and
\* resume; nix/guest/init).
TypedIsKept ==
  [][~slow /\ HandedOver /\ typed' \in {"swallowed", "lost"} => typed' = typed]_vars

\* The guest comes up, whatever was lost while the stream was loading, and
\* whether or not QEMU says that it resumed.
GuestComesUp == ~slow /\ GuestFairness => <>(guest = "shell")

\* The page hands the console over in the end, even over a guest that hangs.
PageReturns == slow \/ GuestFairness => <>(page = "done")

=============================================================================
