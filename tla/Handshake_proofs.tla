-------------------------- MODULE Handshake_proofs --------------------------
(***************************************************************************)
(* Theorems about Handshake, for serial ports and ptys of any size and     *)
(* with a reader who may type at any time.                                 *)
(***************************************************************************)
EXTENDS Handshake, Terminal, TLAPS

Early == {"held", "ready?", "resumed?"}   \* the page has sent nothing yet
Before == {"none", "booting"}             \* init does not read yet

-----------------------------------------------------------------------------
(***************************************************************************)
(* The inductive invariant.                                                *)
(***************************************************************************)
\* Who has come how far, and what that has made the guest say.
Stages ==
  /\ page = "held" <=> machine = "held"
  /\ machine = "held" => guest = "none"
  /\ machine = "loading" => guest = "none"
  /\ guest = "none" => said = {}
  /\ guest = "booting" => said = {}
  /\ page \in {"settle", "done"} /\ ~slow => "mounted" \in said
  /\ "mounted" \in said => guest \in {"greeted", "shell"}
  /\ page \in Early => ~blind

\* The newline is still on its way to init, in the serial port or before it,
\* and nothing is with it but what redraws the console.
Due ==
  \/ /\ uart # << >> /\ uart[1] = "newline"
     /\ \A i \in DOMAIN uart : i # 1 => uart[i] = "redraw"
     /\ \A i \in DOMAIN pty : pty[i] = "redraw"
  \/ /\ uart = << >>
     /\ pty # << >> /\ pty[1] = "newline"
     /\ \A i \in DOMAIN pty : i # 1 => pty[i] = "redraw"

\* Only what redraws the console is on its way.
Served ==
  /\ \A i \in DOMAIN uart : uart[i] = "redraw"
  /\ \A i \in DOMAIN pty : pty[i] = "redraw"

\* One newline, and none before the guest said it is there.
OneNewline ==
  /\ ~polling /\ ~spare
  /\ page \in Early => pty = << >> /\ uart = << >> /\ guest \in Before \cup {"parked"}
  /\ page \notin Early => guest \notin Before
  /\ page \notin Early /\ guest = "parked" => Due
  /\ page \notin Early /\ guest # "parked" => Served

HInv == TypeOK /\ Stages /\ (~blind /\ typed = "no" => OneNewline)

-----------------------------------------------------------------------------
LEMMA InitH == Init => HInv
<1> SUFFICES ASSUME Init PROVE HInv
  OBVIOUS
<1>1. TypeOK
  <2>1. << >> \in Seq(Input) /\ Len(<< >>) <= UartSize
    BY HandshakeAssumption
  <2>2. polling \in BOOLEAN /\ ~polling /\ blind \in BOOLEAN /\ spare \in BOOLEAN
    BY DEF Init
  <2> QED BY <2>1, <2>2 DEF Init, TypeOK
<1>2. Stages /\ OneNewline
  BY DEF Init, Stages, OneNewline, Early, Before
<1> QED BY <1>1, <1>2 DEF HInv

\* Sending keeps the pty a sequence of inputs, with one more at its end.
LEMMA Sent ==
  ASSUME TypeOK, NEW x \in Input, Send(x)
  PROVE  /\ pty' \in Seq(Input) /\ Len(pty') = Len(pty) + 1 /\ pty' # << >>
         /\ \A i \in DOMAIN pty : pty'[i] = pty[i]
         /\ pty'[Len(pty) + 1] = x
         /\ DOMAIN pty' = DOMAIN pty \cup {Len(pty) + 1}
BY DEF TypeOK, Send

\* What the page does keeps the kinds.
LEMMA PageType ==
  ASSUME TypeOK, PageStep \/ Type
  PROVE  TypeOK'
<1> USE DEF TypeOK, link
<1>1. CASE Run
  BY <1>1 DEF Run
<1>2. CASE AnswerReady
  BY <1>2, Sent DEF AnswerReady, Input
<1>3. CASE Hear
  BY <1>3, Sent DEF Hear, Input
<1>4. CASE HearNothing
  BY <1>4, Sent DEF HearNothing, Input
<1>5. CASE Poll
  BY <1>5, Sent DEF Poll, Input
<1>6. CASE SeeMounted
  <2>1. pty' \in Seq(Input)
    BY <1>6 DEF SeeMounted, Input
  <2> QED BY <1>6, <2>1 DEF SeeMounted
<1>7. CASE Settle
  BY <1>7, Sent DEF Settle, Input
<1>8. CASE Type
  BY <1>8, Sent DEF Type, Input
<1> QED BY <1>1, <1>2, <1>3, <1>4, <1>5, <1>6, <1>7, <1>8 DEF PageStep

\* What becomes of what was sent, and of a command that is thrown away.
LEMMA Taken ==
  ASSUME TypeOK
  PROVE  /\ Dropped \in {"no", "sent", "ran", "swallowed", "lost"}
         /\ pty # << >> => Head(pty) \in Input /\ Tail(pty) \in Seq(Input)
         /\ uart # << >> =>
              /\ Head(uart) \in Input
              /\ Tail(uart) \in Seq(Input) /\ Len(Tail(uart)) <= UartSize
BY HandshakeAssumption DEF TypeOK, Dropped

LEMMA GuestType ==
  ASSUME TypeOK, TakeInput \/ Resume \/ GuestStep
  PROVE  TypeOK'
<1> USE Taken, HandshakeAssumption DEF TypeOK, link
<1>1. CASE TakeInput
  BY <1>1 DEF TakeInput
<1>2. CASE Resume
  BY <1>2 DEF Resume
<1>3. CASE Park
  <2>1. << >> \in Seq(Input) /\ Len(<< >>) <= UartSize
    OBVIOUS
  <2>2. uart' \in Seq(Input) /\ Len(uart') <= UartSize
    BY <1>3, <2>1 DEF Park
  <2> QED BY <1>3, <2>2 DEF Park
<1>4. CASE ReadHandshake
  BY <1>4 DEF ReadHandshake
<1>5. CASE Mount
  BY <1>5 DEF Mount
<1>6. CASE StartShell
  BY <1>6 DEF StartShell
<1>7. CASE ShellReads
  BY <1>7 DEF ShellReads
<1> QED BY <1>1, <1>2, <1>3, <1>4, <1>5, <1>6, <1>7 DEF GuestStep

LEMMA StepStages ==
  ASSUME TypeOK, Stages, Next
  PROVE  Stages'
<1> USE DEF Stages, TypeOK, Early
<1>1. CASE Run
  BY <1>1 DEF Run
<1>2. CASE AnswerReady \/ Hear \/ HearNothing
  <2>1. page \in {"ready?", "resumed?"} /\ page' = "mounted?"
    BY <1>2 DEF AnswerReady, Hear, HearNothing
  <2>2. UNCHANGED <<machine, guest, said, slow>>
    BY <1>2 DEF AnswerReady, Hear, HearNothing
  <2> QED BY <2>1, <2>2
<1>3. CASE SeeMounted \/ Settle
  <2>1. UNCHANGED <<machine, guest, said, slow, blind>>
    BY <1>3 DEF SeeMounted, Settle
  <2>2. page \in {"mounted?", "settle"} /\ page' \in {"settle", "done"}
    BY <1>3 DEF SeeMounted, Settle
  <2>3. ~slow => "mounted" \in said
    BY <1>3 DEF SeeMounted, Settle
  <2> QED BY <2>1, <2>2, <2>3
<1>4. CASE Poll \/ Type \/ TakeInput \/ ReadHandshake \/ ShellReads
  <2>1. UNCHANGED <<page, machine, said, slow, blind>>
    BY <1>4 DEF Poll, Type, TakeInput, ReadHandshake, ShellReads
  <2>2. guest' = guest \/ (guest = "parked" /\ guest' \in {"parked", "mounting"})
    BY <1>4 DEF Poll, Type, TakeInput, ReadHandshake, ShellReads
  <2> QED BY <2>1, <2>2
<1>5. CASE Resume
  BY <1>5 DEF Resume
<1>6. CASE Park \/ Mount \/ StartShell
  BY <1>6 DEF Park, Mount, StartShell, link
<1> QED BY <1>1, <1>2, <1>3, <1>4, <1>5, <1>6 DEF Next, PageStep, GuestStep

\* The page sends its newline to a guest that is parked and has been sent
\* nothing.
LEMMA FirstNewline ==
  ASSUME HInv, ~blind, typed = "no", "ready" \in said \/ "resumed" \in said,
         page \in {"ready?", "resumed?"}, Send("newline"),
         page' = "mounted?", UNCHANGED <<polling, guest, uart, spare>>
  PROVE  OneNewline'
<1>1. OneNewline
  BY DEF HInv
<1>2. pty = << >> /\ uart = << >> /\ guest = "parked"
  BY <1>1 DEF HInv, Stages, OneNewline, Early, Before
<1>3. pty' = <<"newline">>
  BY <1>2 DEF Send
<1>4. Due'
  BY <1>2, <1>3 DEF Due
<1> QED BY <1>1, <1>2, <1>4 DEF OneNewline, Early, Before

\* What follows the newline redraws the console.
LEMMA OneRedraw ==
  ASSUME HInv, OneNewline, page \notin Early, Send("redraw"),
         page' \notin Early, ~polling', UNCHANGED <<guest, uart, spare>>
  PROVE  OneNewline'
<1>1. /\ pty' \in Seq(Input) /\ Len(pty') = Len(pty) + 1 /\ pty' # << >>
      /\ \A i \in DOMAIN pty : pty'[i] = pty[i]
      /\ pty'[Len(pty) + 1] = "redraw"
      /\ DOMAIN pty' = DOMAIN pty \cup {Len(pty) + 1}
  BY Sent DEF HInv, Input
<1>2. Served => Served'
  BY <1>1 DEF Served
<1>3. Due => Due'
  <2>1. pty # << >> => 1 \in DOMAIN pty
    BY DEF HInv, TypeOK
  <2>2. Len(pty) \in Nat
    BY DEF HInv, TypeOK
  <2>3. pty # << >> => Len(pty) + 1 # 1
    BY <2>2 DEF HInv, TypeOK
  <2> QED BY <1>1, <2>1, <2>3 DEF Due
<1> QED BY <1>2, <1>3 DEF OneNewline

LEMMA PageNewline ==
  ASSUME HInv, PageStep, ~blind', typed = "no", OneNewline, ~blind
  PROVE  OneNewline'
<1>1. CASE Run
  BY <1>1 DEF Run, OneNewline, Early, Before, HInv, Stages, link
<1>2. CASE AnswerReady
  BY <1>2, FirstNewline DEF AnswerReady
<1>3. CASE Hear
  BY <1>3, FirstNewline DEF Hear
<1>4. ~HearNothing
  BY DEF HearNothing
<1>5. ~Poll
  BY DEF Poll, OneNewline
<1>6. CASE SeeMounted
  <2>1. page \notin Early /\ page' \notin Early /\ ~polling'
    BY <1>6 DEF SeeMounted, Early
  <2>2. CASE how = "cold"
    BY <1>6, <2>1, <2>2, OneRedraw DEF SeeMounted, Send
  <2>3. CASE how # "cold"
    <3>1. UNCHANGED <<guest, uart, spare, pty>>
      BY <1>6, <2>3 DEF SeeMounted
    <3> QED BY <2>1, <3>1 DEF OneNewline, Due, Served
  <2> QED BY <2>2, <2>3
<1>7. CASE Settle
  <2>1. page \notin Early /\ page' \notin Early
    BY <1>7 DEF Settle, Early
  <2> QED BY <1>7, <2>1, OneRedraw DEF Settle, OneNewline
<1> QED BY <1>1, <1>2, <1>3, <1>4, <1>5, <1>6, <1>7 DEF PageStep

\* QEMU hands on what it takes, in the order it came.
LEMMA TakeNewline ==
  ASSUME HInv, TakeInput, OneNewline
  PROVE  OneNewline'
<1>1. /\ page \notin Early
      /\ UNCHANGED <<page, polling, guest, spare>>
      /\ pty # << >> /\ uart' = Append(uart, Head(pty)) /\ pty' = Tail(pty)
  BY DEF TakeInput, OneNewline
<1>2. /\ uart' # << >> /\ DOMAIN uart' = DOMAIN uart \cup {Len(uart) + 1}
      /\ \A i \in DOMAIN uart : uart'[i] = uart[i]
      /\ uart'[Len(uart) + 1] = pty[1]
      /\ uart # << >> => 1 \in DOMAIN uart /\ Len(uart) + 1 # 1
      /\ uart = << >> => Len(uart) = 0
  BY <1>1 DEF HInv, TypeOK
<1>3. /\ 1 \in DOMAIN pty
      /\ \A i \in DOMAIN pty' : i + 1 \in DOMAIN pty /\ i + 1 # 1 /\ pty'[i] = pty[i + 1]
  BY <1>1 DEF HInv, TypeOK
<1>4. Served => Served'
  BY <1>2, <1>3 DEF Served
<1>5. Due => Due'
  <2>1. CASE uart # << >> /\ Due
    BY <1>2, <1>3, <2>1 DEF Due
  <2>2. CASE uart = << >> /\ Due
    <3>1. DOMAIN uart' = {1} /\ uart'[1] = "newline"
      BY <1>2, <2>2 DEF Due
    <3>2. \A i \in DOMAIN pty' : pty'[i] = "redraw"
      BY <1>3, <2>2 DEF Due
    <3> QED BY <1>2, <3>1, <3>2 DEF Due
  <2> QED BY <2>1, <2>2
<1> QED BY <1>1, <1>4, <1>5 DEF OneNewline

\* What the guest reads first, it loses from the front of the serial port.
LEMMA Read ==
  ASSUME HInv, uart # << >>, uart' = Tail(uart)
  PROVE  /\ 1 \in DOMAIN uart /\ Head(uart) = uart[1]
         /\ \A i \in DOMAIN uart' : i + 1 \in DOMAIN uart /\ i + 1 # 1 /\ uart'[i] = uart[i + 1]
BY DEF HInv, TypeOK

LEMMA GuestNewline ==
  ASSUME HInv, Resume \/ GuestStep, OneNewline
  PROVE  OneNewline'
<1>1. CASE Resume
  <2>1. page \in Early
    BY <1>1 DEF Resume, HInv, Stages, OneNewline, Before
  <2> QED BY <1>1, <2>1 DEF Resume, OneNewline
<1>2. CASE Park
  <2>1. page \in Early /\ uart = << >>
    BY <1>2 DEF Park, OneNewline, Before
  <2> QED BY <1>2, <2>1 DEF Park, OneNewline
<1>3. CASE ReadHandshake
  <2>1. page \notin Early /\ Due /\ Head(uart) = "newline"
    BY <1>3, Read DEF ReadHandshake, OneNewline, Due
  <2>2. Served'
    BY <1>3, <2>1, Read DEF ReadHandshake, Due, Served
  <2> QED BY <1>3, <2>1, <2>2 DEF ReadHandshake, OneNewline, Before
<1>4. CASE Mount \/ StartShell
  <2>1. page \notin Early /\ guest # "parked" /\ guest' \notin Before \cup {"parked"}
    BY <1>4 DEF Mount, StartShell, OneNewline, Before
  <2>2. UNCHANGED <<page, polling, spare, uart, pty>>
    BY <1>4 DEF Mount, StartShell, link
  <2> QED BY <2>1, <2>2 DEF OneNewline, Before, Served, Due
<1>5. CASE ShellReads
  <2>1. page \notin Early /\ Served /\ Head(uart) = "redraw"
    BY <1>5, Read DEF ShellReads, OneNewline, Before, Served
  <2>2. Served'
    BY <1>5, <2>1, Read DEF ShellReads, Served
  <2> QED BY <1>5, <2>1, <2>2 DEF ShellReads, OneNewline, Before
<1> QED BY <1>1, <1>2, <1>3, <1>4, <1>5 DEF GuestStep

\* Once something was typed, or a newline was sent blind, that stays so.
LEMMA Once ==
  ASSUME Stages, Next, ~blind', typed' = "no"
  PROVE  ~blind /\ typed = "no"
<1>1. typed = "no"
  BY DEF Next, PageStep, GuestStep, Run, AnswerReady, Hear, HearNothing, Poll, SeeMounted,
         Settle, Type, TakeInput, Resume, Park, ReadHandshake, Mount, StartShell, ShellReads, Dropped
<1>2. ~blind
  <2>1. CASE page \in Early
    BY <2>1 DEF Stages
  <2>2. CASE page \notin Early
    <3>1. ~ (Run \/ AnswerReady \/ Hear \/ HearNothing)
      BY <2>2 DEF Run, AnswerReady, Hear, HearNothing, Early
    <3>2. blind' = blind
      BY <3>1 DEF Next, PageStep, GuestStep, Poll, SeeMounted, Settle, Type, TakeInput,
                  Resume, Park, ReadHandshake, Mount, StartShell, ShellReads
    <3> QED BY <3>2
  <2> QED BY <2>1, <2>2
<1> QED BY <1>1, <1>2

LEMMA StepH ==
  ASSUME HInv, [Next]_vars
  PROVE  HInv'
<1>1. CASE Next
  <2>1. TypeOK'
    BY <1>1, PageType, GuestType DEF HInv, Next
  <2>2. Stages'
    BY <1>1, StepStages DEF HInv
  <2>3. ASSUME ~blind', typed' = "no" PROVE OneNewline'
    <3>1. ~blind /\ typed = "no" /\ OneNewline
      BY <1>1, <2>3, Once DEF HInv
    <3>2. ~Type
      BY <2>3 DEF Type
    <3> QED BY <1>1, <2>3, <3>1, <3>2, PageNewline, TakeNewline, GuestNewline DEF Next
  <2> QED BY <2>1, <2>2, <2>3 DEF HInv
<1>2. CASE UNCHANGED vars
  BY <1>2 DEF vars, HInv, TypeOK, Stages, OneNewline, Due, Served
<1> QED BY <1>1, <1>2

\* Where page and guest stand, and how a guest that was heard gets its one
\* newline.
THEOREM Invariant == Spec => []HInv
BY InitH, StepH, PTL DEF Spec

\* Once the console is handed over, no command is lost any more, unless the
\* page gave up waiting (boot.js, coldBoot and resume; nix/guest/init).
THEOREM NothingTypedIsLost == Spec => TypedIsKept
<1>1. ASSUME HInv, [Next]_vars, ~slow, HandedOver, typed' \in {"swallowed", "lost"}
      PROVE  typed' = typed
  <2>1. guest \in {"greeted", "shell"} /\ machine # "loading"
    BY <1>1 DEF HInv, Stages, HandedOver
  <2>2. ~ (Resume \/ Park \/ ReadHandshake)
    BY <2>1 DEF Resume, Park, ReadHandshake
  <2> QED BY <1>1, <2>2 DEF Next, PageStep, GuestStep, Run, AnswerReady, Hear,
             HearNothing, Poll, SeeMounted, Settle, Type, TakeInput, Mount, StartShell,
             ShellReads, vars
<1>2. HInv /\ [Next]_vars =>
        [~slow /\ HandedOver /\ typed' \in {"swallowed", "lost"} => typed' = typed]_vars
  BY <1>1
<1> QED BY <1>2, Invariant, PTL DEF Spec, TypedIsKept

\* A page that heard its cue and was not typed over leaves the shell no empty
\* line, however long its waits and whatever the console drops (boot.js,
\* coldBoot and resume).
THEOREM NoSpareLine == Spec => []QuietWhenHeard
<1>1. HInv => QuietWhenHeard
  BY DEF HInv, OneNewline, QuietWhenHeard
<1> QED BY <1>1, Invariant, PTL

-----------------------------------------------------------------------------
(***************************************************************************)
(* The key bar of Terminal, beside which the shell is used.                *)
(***************************************************************************)
Counts == taps \in [Modifiers -> Nat] /\ used \in [Modifiers -> Nat]

BarInv == Counts /\ OneKeyPerModifier

\* A key takes the modifiers that are armed, and they are armed no more.
LEMMA KeyTakes ==
  ASSUME BarInv, Applied, disarm, taps' = taps
  PROVE  BarInv'
<1>1. \A m \in Modifiers : used'[m] = used[m] + IF m \in armed THEN 1 ELSE 0
  BY DEF Applied
<1>2. used' \in [Modifiers -> Nat]
  BY DEF Applied, BarInv, Counts
<1>3. \A m \in Modifiers : used'[m] <= taps'[m] /\ used'[m] \in Nat /\ m \notin armed'
  BY <1>1, <1>2 DEF BarInv, OneKeyPerModifier, disarm
<1> QED BY <1>2, <1>3 DEF BarInv, Counts, OneKeyPerModifier

LEMMA TapArms ==
  ASSUME BarInv, NEW m \in Modifiers, PressModifier(m)
  PROVE  BarInv'
<1>1. /\ taps' = [taps EXCEPT ![m] = @ + 1] /\ used' = used
      /\ armed' = IF m \in armed THEN armed \ {m} ELSE armed \cup {m}
  BY DEF PressModifier
<1>2. ASSUME NEW x \in Modifiers
      PROVE  /\ taps'[x] = IF x = m THEN taps[x] + 1 ELSE taps[x]
             /\ used'[x] = used[x] /\ used[x] \in Nat /\ taps[x] \in Nat
             /\ x # m => (x \in armed' <=> x \in armed)
             /\ x = m => (x \in armed' <=> x \notin armed)
  BY <1>1 DEF BarInv, Counts
<1>3. ASSUME NEW x \in Modifiers
      PROVE  used'[x] + (IF x \in armed' THEN 1 ELSE 0) <= taps'[x]
  <2>1. used[x] + (IF x \in armed THEN 1 ELSE 0) <= taps[x]
    BY DEF BarInv, OneKeyPerModifier
  <2> QED BY <1>2, <2>1
<1>4. Counts'
  BY <1>1 DEF BarInv, Counts
<1> QED BY <1>3, <1>4 DEF BarInv, OneKeyPerModifier

\* A modifier tapped modifies one key, whatever else is pressed, pasted or
\* resized meanwhile, however often; keybar.js:85-138.
THEOREM OneKeyEach == EdgeSpec => []OneKeyPerModifier
<1>1. EdgeInit => BarInv
  <2> SUFFICES ASSUME EdgeInit PROVE BarInv
    OBVIOUS
  <2>1. armed = {} /\ taps = [m \in Modifiers |-> 0] /\ used = [m \in Modifiers |-> 0]
    BY DEF EdgeInit
  <2> QED BY <2>1 DEF BarInv, Counts, OneKeyPerModifier
<1>2. BarInv /\ [EdgeNext]_edge => BarInv'
  <2> SUFFICES ASSUME BarInv, [EdgeNext]_edge PROVE BarInv'
    OBVIOUS
  <2>1. CASE UNCHANGED keys
    BY <2>1 DEF keys, BarInv, Counts, OneKeyPerModifier
  <2>2. CASE \E m \in Modifiers : PressModifier(m)
    BY <2>2, TapArms
  <2>3. CASE PressCursor
    BY <2>3, KeyTakes DEF PressCursor
  <2>4. CASE \E length \in 1 .. 2 : Transform(length)
    <3>1. UNCHANGED <<armed, used, taps>> \/ (Applied /\ disarm /\ taps' = taps)
      BY <2>4 DEF Transform
    <3> QED BY <2>1, <3>1, KeyTakes DEF keys
  <2>5. CASE \/ (\E w \in Widths : Reflow(w)) \/ Filesystem \/ RunWithSize \/ ReadManifest \/ Apply
             \/ \E step \in {-1, 1} : PressZoom(step)
    BY <2>1, <2>5 DEF Reflow, Filesystem, RunWithSize, ReadManifest, Apply, PressZoom
  <2>6. UNCHANGED edge => UNCHANGED keys
    BY DEF edge
  <2> QED BY <2>1, <2>2, <2>3, <2>4, <2>5, <2>6 DEF EdgeNext
<1>3. BarInv => OneKeyPerModifier
  BY DEF BarInv
<1> QED BY <1>1, <1>2, <1>3, PTL DEF EdgeSpec
=============================================================================
