------------------------- MODULE AgentDriver_proofs -------------------------
(***************************************************************************)
(* Theorems about AgentDriver, for any number of runs, any commands and    *)
(* outputs, and a transcript of any length.                                *)
(***************************************************************************)
EXTENDS AgentDriver, TLAPS

-----------------------------------------------------------------------------
(***************************************************************************)
(* The inductive invariant.                                                *)
(***************************************************************************)
Is(line, kind, r) == line.kind = kind /\ line.of = r

\* The line of a run begins with its opening fence, or what is left of it.
Opening(line) == line.kind \in {"go", "spoilt"}
Opens(line, r) == Opening(line) /\ line.of = r

In(x, s) == \E i \in DOMAIN s : s[i] = x
Once(s) == \A i, j \in DOMAIN s : s[i] = s[j] /\ s[i] \in Run => i = j

Begun(r) == \E i \in DOMAIN log : Opens(log[i], r)
AtShell(r) == shell.at # "prompt" /\ shell.of = r

\* The line of a run is in one place: on the wire, in the tty, or taken.
OneLine ==
  /\ Once(wire) /\ Once(tty)
  /\ \A r \in Run :
       /\ ~ (In(r, wire) /\ In(r, tty))
       /\ In(r, wire) \/ In(r, tty) => ~Begun(r)
       /\ In(r, wire) \/ In(r, tty) \/ Begun(r) => r <= runs

\* Between two places of the log there is nothing but what the command of r
\* prints, and what nobody at the shell does.
Own(line, r) == line.kind \in {"echo", "aside"} \/ Is(line, "out", r)
Between(go, end, r) ==
  \A i \in DOMAIN log : go < i /\ i < end => Own(log[i], r)

\* The run whose command the shell is at has its opening fence in the log and
\* its own lines behind, up to the closing fence if that has begun to arrive.
Printing(r) ==
  \E go \in DOMAIN log :
    /\ Opens(log[go], r)
    /\ Between(go, Len(log), r)
    /\ Len(log) > go /\ shell.at # "closing" => Own(log[Len(log)], r)

\* The opening fence of a run is written once, ahead of its closing one, which
\* has the status of its command.
GoesOnce ==
  /\ \A i, j \in DOMAIN log :
       Opening(log[i]) /\ Opening(log[j]) /\ log[i].of = log[j].of => i = j
  /\ \A i \in DOMAIN log : Opening(log[i]) => log[i].n = 0 /\ log[i].of \in Run

Closed(end, r) ==
  /\ r \in Run /\ log[end].n = exit[r] /\ exit[r] # NoStatus
  /\ ~AtShell(r)
  /\ \E go \in DOMAIN log : go < end /\ Opens(log[go], r) /\ Between(go, end, r)

Fenced ==
  /\ GoesOnce
  /\ \A end \in DOMAIN log : log[end].kind = "end" => Closed(end, log[end].of)
  /\ \A r \in Run : AtShell(r) => Printing(r)
  /\ shell.at = "closing" =>
       /\ shell.of \in Run /\ exit[shell.of] \in Status
       /\ Len(log) > 0 /\ log[Len(log)].kind = "ending"

\* What is dropped from the transcript, and the rest of it.
Lost == Len(log) - Len(transcript)
Kept ==
  /\ Lost >= 0
  /\ Lost > 0 => Len(transcript) = TranscriptLimit
  /\ \A i \in DOMAIN transcript : transcript[i] = log[i + Lost]

\* What a run that resolved was told.
Answered == StatusIsOwn /\ OutputIsOwn /\ OutputIsWhole

DInv == TypeOK /\ OneLine /\ Fenced /\ Kept /\ Answered

-----------------------------------------------------------------------------
(***************************************************************************)
(* What is written.                                                        *)
(***************************************************************************)
LEMMA Appended ==
  ASSUME NEW S, NEW s \in Seq(S), NEW x \in S
  PROVE  /\ Append(s, x) \in Seq(S) /\ Len(Append(s, x)) = Len(s) + 1
         /\ \A i \in DOMAIN s : i \in DOMAIN Append(s, x) /\ Append(s, x)[i] = s[i]
         /\ Append(s, x)[Len(s) + 1] = x
         /\ \A i \in DOMAIN Append(s, x) : i \in DOMAIN s \/ i = Len(s) + 1
OBVIOUS

LEMMA Cut ==
  ASSUME NEW S, NEW s \in Seq(S), NEW m \in Int, NEW n \in Int,
         1 <= m, n <= Len(s), m <= n + 1
  PROVE  /\ SubSeq(s, m, n) \in Seq(S)
         /\ Len(SubSeq(s, m, n)) = n - m + 1
         /\ \A i \in 1 .. n - m + 1 : SubSeq(s, m, n)[i] = s[m + i - 1]
OBVIOUS

LEMMA Replaced ==
  ASSUME NEW S, NEW s \in Seq(S), NEW x \in S, Len(s) > 0
  PROVE  /\ Append(Front(s), x) \in Seq(S) /\ Len(Append(Front(s), x)) = Len(s)
         /\ \A i \in DOMAIN s : i # Len(s) => Append(Front(s), x)[i] = s[i]
         /\ Append(Front(s), x)[Len(s)] = x
<1> DEFINE n == Len(s) - 1
<1>1. n \in Nat /\ Len(s) = n + 1 /\ 1 <= n + 1
  OBVIOUS
<1>2. Front(s) = SubSeq(s, 1, n)
  BY DEF Front
<1> HIDE DEF n
<1>3. n - 1 + 1 = n /\ \A i \in 1 .. n : 1 + i - 1 = i
  BY <1>1
<1>4. Front(s) \in Seq(S) /\ Len(Front(s)) = n /\ \A i \in 1 .. n : Front(s)[i] = s[i]
  BY <1>1, <1>2, <1>3, Cut
<1> QED BY <1>1, <1>4, Appended

\* A line is put behind the log, and the transcript keeps the end of it.
LEMMA SaysFacts ==
  ASSUME TypeOK, Kept, NEW line \in Line, Says(line)
  PROVE  /\ log' \in Seq(Line) /\ Len(log') = Len(log) + 1
         /\ \A i \in DOMAIN log : i \in DOMAIN log' /\ log'[i] = log[i]
         /\ log'[Len(log) + 1] = line
         /\ \A i \in DOMAIN log' : i \in DOMAIN log \/ i = Len(log) + 1
         /\ transcript' \in Seq(Line) /\ Len(transcript') <= TranscriptLimit
         /\ Kept'
<1> USE DriverAssumption
<1>0. log \in Seq(Line) /\ transcript \in Seq(Line) /\ Len(transcript) <= TranscriptLimit
  BY DEF TypeOK
<1>1. /\ log \in Seq(Line) /\ transcript \in Seq(Line)
      /\ Len(transcript) <= TranscriptLimit /\ Len(transcript) \in Nat /\ Len(log) \in Nat
  BY <1>0
<1>2. /\ log' \in Seq(Line) /\ Len(log') = Len(log) + 1
      /\ \A i \in DOMAIN log : i \in DOMAIN log' /\ log'[i] = log[i]
      /\ log'[Len(log) + 1] = line
      /\ \A i \in DOMAIN log' : i \in DOMAIN log \/ i = Len(log) + 1
  BY <1>1, Appended DEF Says
<1> DEFINE said == Append(transcript, line)
<1>3. /\ said \in Seq(Line) /\ Len(said) = Len(transcript) + 1
      /\ \A i \in DOMAIN said : said[i] = log'[i + Lost]
      /\ transcript' = IF Len(said) > TranscriptLimit THEN Tail(said) ELSE said
  <2>1. said \in Seq(Line) /\ Len(said) = Len(transcript) + 1
    BY <1>1
  <2>2. transcript' = IF Len(said) > TranscriptLimit THEN Tail(said) ELSE said
    BY DEF Says, Hold
  <2>3. \A i \in DOMAIN transcript : said[i] = log'[i + Lost]
    <3> TAKE i \in DOMAIN transcript
    <3>1. said[i] = transcript[i]
      BY <1>1
    <3>2. i + Lost \in DOMAIN log
      BY <1>1 DEF Kept, Lost
    <3> QED BY <1>2, <3>1, <3>2 DEF Kept
  <2>4. said[Len(transcript) + 1] = log'[Len(transcript) + 1 + Lost]
    <3>1. Len(transcript) + 1 + Lost = Len(log) + 1
      BY <1>1 DEF Lost
    <3> QED BY <1>1, <1>2, <3>1
  <2>5. \A i \in DOMAIN said : i \in DOMAIN transcript \/ i = Len(transcript) + 1
    BY <1>1
  <2> QED BY <2>1, <2>2, <2>3, <2>4, <2>5
<1> HIDE DEF said
<1>4. CASE Len(said) > TranscriptLimit
  <2>1. /\ transcript' \in Seq(Line) /\ Len(transcript') = Len(transcript)
        /\ Len(transcript) = TranscriptLimit
        /\ \A i \in DOMAIN transcript' : i + 1 \in DOMAIN said /\ transcript'[i] = said[i + 1]
    BY <1>1, <1>3, <1>4
  <2>2. Lost' = Lost + 1
    BY <1>1, <1>2, <2>1 DEF Lost
  <2>3. Lost \in Nat
    BY <1>1 DEF Kept, Lost
  <2>4. \A i \in DOMAIN transcript' : i \in Nat /\ i + 1 + Lost = i + (Lost + 1)
    <3>1. \A i \in Nat : i + 1 + Lost = i + (Lost + 1)
      BY <2>3
    <3>2. \A i \in DOMAIN transcript' : i \in Nat
      BY <2>1
    <3> QED BY <3>1, <3>2
  <2>5. \A i \in DOMAIN transcript' : transcript'[i] = log'[i + Lost']
    BY <1>3, <2>1, <2>2, <2>4
  <2> QED BY <1>1, <1>2, <2>1, <2>2, <2>3, <2>5 DEF Kept
<1>5. CASE ~ (Len(said) > TranscriptLimit)
  <2>1. transcript' = said /\ Len(transcript') = Len(transcript) + 1
    BY <1>3, <1>5
  <2>2. Lost' = Lost /\ Lost = 0
    BY <1>1, <1>2, <1>3, <1>5, <2>1 DEF Lost, Kept
  <2> QED BY <1>1, <1>2, <1>3, <1>5, <2>1, <2>2 DEF Kept
<1> QED BY <1>2, <1>4, <1>5

\* The rest of a line takes the place of what had arrived of it.
LEMMA RestFacts ==
  ASSUME TypeOK, Kept, Len(log) > 0, NEW line \in Line, SaysRest(line)
  PROVE  /\ log' \in Seq(Line) /\ Len(log') = Len(log)
         /\ \A i \in DOMAIN log : i # Len(log) => log'[i] = log[i]
         /\ log'[Len(log)] = line
         /\ transcript' \in Seq(Line) /\ Len(transcript') <= TranscriptLimit
         /\ Kept'
<1> USE DriverAssumption
<1>0. log \in Seq(Line) /\ transcript \in Seq(Line) /\ Len(transcript) <= TranscriptLimit
  BY DEF TypeOK
<1>1. /\ log \in Seq(Line) /\ transcript \in Seq(Line)
      /\ Len(transcript) <= TranscriptLimit /\ Len(transcript) \in Nat /\ Len(log) \in Nat
  BY <1>0
<1>2. Len(transcript) > 0
  BY <1>1 DEF Kept, Lost
<1>4. /\ log' \in Seq(Line) /\ Len(log') = Len(log)
      /\ \A i \in DOMAIN log : i # Len(log) => log'[i] = log[i]
      /\ log'[Len(log)] = line
  <2>1. log' = Append(Front(log), line)
    BY DEF SaysRest
  <2> QED BY <1>1, <2>1, Replaced
<1>5. /\ transcript' \in Seq(Line) /\ Len(transcript') = Len(transcript)
      /\ \A i \in DOMAIN transcript : i # Len(transcript) => transcript'[i] = transcript[i]
      /\ transcript'[Len(transcript)] = line
  <2>1. transcript' = Append(Front(transcript), line)
    BY DEF SaysRest
  <2> QED BY <1>1, <1>2, <2>1, Replaced
<1>6. Lost' = Lost /\ Lost \in Nat
  BY <1>1, <1>4, <1>5 DEF Lost, Kept
<1>7. \A i \in DOMAIN transcript : transcript'[i] = log'[i + Lost]
  <2> TAKE i \in DOMAIN transcript
  <2>1. i + Lost \in DOMAIN log /\ (i # Len(transcript) => i + Lost # Len(log))
        /\ (i = Len(transcript) => i + Lost = Len(log))
    BY <1>1 DEF Lost, Kept
  <2> QED BY <1>4, <1>5, <2>1 DEF Kept
<1>8. DOMAIN transcript' = DOMAIN transcript
  BY <1>1, <1>5
<1> QED BY <1>1, <1>4, <1>5, <1>6, <1>7, <1>8 DEF Kept

-----------------------------------------------------------------------------
(***************************************************************************)
(* What is read back.                                                      *)
(***************************************************************************)
LEMMA Single ==
  ASSUME NEW S, NEW x \in Int, S = {x}
  PROVE  Max(S) = x /\ Min(S) = x
<1>1. Max(S) = x
  <2>1. \E y \in S : \A z \in S : y >= z
    OBVIOUS
  <2> QED BY <2>1 DEF Max
<1>2. Min(S) = x
  <2>1. \E y \in S : \A z \in S : y <= z
    OBVIOUS
  <2> QED BY <2>1 DEF Min
<1> QED BY <1>1, <1>2

LEMMA SameSeq ==
  ASSUME NEW S, NEW s \in Seq(S), NEW t \in Seq(S), Len(s) = Len(t),
         \A i \in 1 .. Len(s) : s[i] = t[i]
  PROVE  s = t
OBVIOUS

\* The same lines at other places are the same cut.
LEMMA SameCut ==
  ASSUME NEW S, NEW s \in Seq(S), NEW t \in Seq(S),
         NEW m \in Nat, NEW n \in Nat, NEW d \in Nat, NEW e \in Nat, NEW f \in Nat,
         1 <= m, m <= n + 1, n <= Len(s), e = m + d, f = n + d, f <= Len(t),
         \A i \in m .. n : s[i] = t[i + d]
  PROVE  SubSeq(s, m, n) = SubSeq(t, e, f)
<1> DEFINE k == n - m + 1
<1>1. k = f - e + 1 /\ k \in Nat /\ 1 <= e /\ e <= f + 1
  OBVIOUS
<1>2. /\ SubSeq(s, m, n) \in Seq(S) /\ Len(SubSeq(s, m, n)) = k
      /\ \A i \in 1 .. k : SubSeq(s, m, n)[i] = s[m + i - 1]
  BY Cut
<1>3. /\ SubSeq(t, e, f) \in Seq(S) /\ Len(SubSeq(t, e, f)) = f - e + 1
      /\ \A i \in 1 .. f - e + 1 : SubSeq(t, e, f)[i] = t[e + i - 1]
  BY <1>1, Cut
<1>4. \A i \in 1 .. k : m + i - 1 \in m .. n /\ m + i - 1 + d = e + i - 1
  OBVIOUS
<1> HIDE DEF k
<1>5. \A i \in 1 .. k : SubSeq(s, m, n)[i] = SubSeq(t, e, f)[i]
  <2> TAKE i \in 1 .. k
  <2>1. SubSeq(s, m, n)[i] = s[m + i - 1] /\ SubSeq(t, e, f)[i] = t[e + i - 1]
    BY <1>1, <1>2, <1>3
  <2>2. s[m + i - 1] = t[e + i - 1]
    BY <1>4
  <2> QED BY <2>1, <2>2
<1> QED BY <1>1, <1>2, <1>3, <1>5, SameSeq

\* A line of the transcript is a line of the log.
LEMMA InLog ==
  ASSUME TypeOK, Kept
  PROVE  /\ Len(transcript) \in Nat /\ Len(log) \in Nat /\ Lost \in Nat
         /\ Len(log) = Len(transcript) + Lost
         /\ \A i \in DOMAIN transcript :
              i \in 1 .. Len(transcript) /\ i + Lost \in DOMAIN log /\ transcript[i] = log[i + Lost]
<1>1. log \in Seq(Line) /\ transcript \in Seq(Line)
  BY DEF TypeOK
<1>2. Len(transcript) \in Nat /\ Len(log) \in Nat
  BY <1>1
<1>3. Lost \in Nat /\ Len(log) = Len(transcript) + Lost
  BY <1>2 DEF Kept, Lost
<1>4. \A i \in DOMAIN transcript : i \in 1 .. Len(transcript) /\ i + Lost \in DOMAIN log
  BY <1>1, <1>2, <1>3
<1> QED BY <1>2, <1>3, <1>4 DEF Kept

\* A run has one closing line.
LEMMA EndsOnce ==
  ASSUME TypeOK, Fenced, NEW r \in Run, NEW i \in DOMAIN log, NEW j \in DOMAIN log,
         Is(log[i], "end", r), Is(log[j], "end", r)
  PROVE  i = j
<1>0. log \in Seq(Line)
  BY DEF TypeOK
<1>1. i \in Nat /\ j \in Nat
  BY <1>0
<1>2. PICK g \in DOMAIN log : g < i /\ Opens(log[g], r) /\ Between(g, i, r)
  BY DEF Fenced, GoesOnce, Closed, Is
<1>3. PICK h \in DOMAIN log : h < j /\ Opens(log[h], r) /\ Between(h, j, r)
  BY DEF Fenced, GoesOnce, Closed, Is
<1>4. g = h
  BY <1>2, <1>3 DEF Fenced, GoesOnce, Opens
<1>5. ~ (i < j)
  BY <1>2, <1>3, <1>4 DEF Between, Own, Is
<1>6. ~ (j < i)
  BY <1>2, <1>3, <1>4 DEF Between, Own, Is
<1> QED BY <1>1, <1>5, <1>6

\* Where a run begins to read when its line began with the one at `go`.
LEMMA StartsAt ==
  ASSUME TypeOK, Fenced, NEW r \in Run, NEW go \in DOMAIN log, Opens(log[go], r)
  PROVE  \/ At(log, "go", r) = {go} /\ Starts(r) = {go} /\ Is(log[go], "go", r)
         \/ At(log, "go", r) = {} /\ Starts(r) = {0}
<1>1. \A i \in At(log, "go", r) : i = go /\ Is(log[go], "go", r)
  BY DEF Fenced, GoesOnce, At, Marker, Opens, Opening, Is
<1> DEFINE fence == At(log, "go", r)
<1>2. Starts(r) = IF fence = {} THEN {0} ELSE fence
  BY DEF Starts
<1> HIDE DEF fence
<1>3. CASE fence = {}
  BY <1>2, <1>3 DEF fence
<1>4. CASE fence # {}
  <2>1. fence = {go} /\ Is(log[go], "go", r)
    BY <1>1, <1>4 DEF fence
  <2> QED BY <1>2, <2>1 DEF fence
<1> QED BY <1>3, <1>4

\* What was read of the log begins at `start`, or where the transcript does.
ReadFrom(output, start, end) ==
  \E from \in start .. end - 1 :
    /\ output = SubSeq(log, from + 1, end - 1)
    /\ from = start \/ Len(log) - start >= TranscriptLimit

\* What a run reads when its closing line is there: the log from its opening
\* fence, or from where the transcript begins, to the closing one.
LEMMA ReadBack ==
  ASSUME TypeOK, Fenced, Kept, NEW r \in Run, Completion(transcript, r) # {}
  PROVE  /\ transcript[Max(Completion(transcript, r))].n = exit[r] /\ exit[r] # NoStatus
         /\ \E go, end \in DOMAIN log, start \in Starts(r) :
              /\ Opens(log[go], r) /\ log[end] = Printed("end", r, exit[r])
              /\ Between(go, end, r) /\ go < end
              /\ start \in Nat /\ (At(log, "go", r) # {} => start = go)
              /\ ReadFrom(OutputOf(transcript, r), start, end)
<1>0. log \in Seq(Line) /\ transcript \in Seq(Line)
  BY DEF TypeOK
<1> USE InLog
<1>1. PICK c \in Completion(transcript, r) : TRUE
  OBVIOUS
<1>2. c \in DOMAIN transcript /\ Is(transcript[c], "end", r)
  BY <1>1 DEF Completion, At, Marker, Is
<1>3. c \in 1 .. Len(transcript) /\ c + Lost \in DOMAIN log /\ Is(log[c + Lost], "end", r)
  BY <1>2
<1>4. Completion(transcript, r) = {c}
  <2> SUFFICES ASSUME NEW d \in Completion(transcript, r) PROVE d = c
    BY <1>1
  <2>1. d \in DOMAIN transcript /\ Is(transcript[d], "end", r)
    BY DEF Completion, At, Marker, Is
  <2>2. d \in 1 .. Len(transcript) /\ d + Lost \in DOMAIN log /\ Is(log[d + Lost], "end", r)
    BY <2>1
  <2>3. d + Lost = c + Lost
    BY <1>3, <2>2, EndsOnce
  <2> QED BY <1>3, <2>2, <2>3
<1>5. Max(Completion(transcript, r)) = c
  BY <1>3, <1>4, Single
<1>6. /\ log[c + Lost].n = exit[r] /\ exit[r] # NoStatus
      /\ \E go \in DOMAIN log :
           go < c + Lost /\ Opens(log[go], r) /\ Between(go, c + Lost, r)
  BY <1>3 DEF Fenced, GoesOnce, Closed, Is
<1>7. PICK go \in DOMAIN log : go < c + Lost /\ Opens(log[go], r) /\ Between(go, c + Lost, r)
  BY <1>6
<1>8. log[c + Lost] = Printed("end", r, exit[r])
  <2>1. log[c + Lost] \in Line
    BY <1>0, <1>3
  <2> QED BY <1>3, <1>6, <1>7, <2>1 DEF Line, Printed, Is
<1>9. transcript[Max(Completion(transcript, r))].n = exit[r] /\ exit[r] # NoStatus
  BY <1>2, <1>5, <1>6
<1> DEFINE body == SubSeq(transcript, 1, c - 1)
           start == At(body, "go", r)
           end == c + Lost
<1>10. Body(transcript, r) = body
  BY <1>1, <1>5 DEF Body
<1>11. body \in Seq(Line) /\ Len(body) = c - 1 /\ \A i \in 1 .. c - 1 : body[i] = transcript[i]
  <2>1. /\ 1 \in Int /\ c - 1 \in Int /\ 1 <= 1 /\ c - 1 <= Len(transcript) /\ 1 <= c - 1 + 1
        /\ c - 1 - 1 + 1 = c - 1 /\ \A i \in 1 .. c - 1 : 1 + i - 1 = i
    BY <1>3
  <2> QED BY <1>0, <2>1, Cut
<1>12. OutputOf(transcript, r) =
         IF start = {} THEN body ELSE SubSeq(body, Min(start) + 1, Len(body))
  BY <1>10 DEF OutputOf
<1>13. \A i \in start : i \in 1 .. c - 1 /\ i + Lost = go /\ Is(log[go], "go", r)
  <2> TAKE i \in start
  <2>1. i \in DOMAIN body /\ Is(body[i], "go", r)
    BY DEF At, Marker, Is
  <2>2. i \in 1 .. c - 1
    BY <1>11, <2>1
  <2>3. i \in DOMAIN transcript
    BY <1>0, <1>3, <2>2
  <2>4. Is(log[i + Lost], "go", r) /\ i + Lost \in DOMAIN log
    BY <1>11, <2>1, <2>2, <2>3
  <2>5. i + Lost = go
    BY <1>7, <2>4 DEF Fenced, GoesOnce, Opens, Opening, Is
  <2> QED BY <2>2, <2>4, <2>5
<1>14. go \in Nat /\ go >= 1 /\ Lost \in Nat /\ c \in Nat /\ c >= 1
  BY <1>0, <1>3
<1>15. /\ \A i \in 1 .. c - 1 : i + Lost \in 1 .. Len(log) /\ body[i] = log[i + Lost]
       /\ c + Lost - 1 <= Len(log)
  <2>1. \A i \in 1 .. c - 1 : i \in DOMAIN transcript
    BY <1>0, <1>3
  <2> QED BY <1>0, <1>3, <1>11, <2>1
<1>18. /\ go \in Nat /\ c \in Nat /\ Lost \in Nat /\ end \in Nat /\ c - 1 \in Nat
       /\ end - 1 \in Nat /\ end - 1 = c - 1 + Lost /\ end - 1 <= Len(log) /\ go <= end - 1
       /\ Len(body) = c - 1
  BY <1>7, <1>11, <1>14, <1>15
<1>19. end \in DOMAIN log /\ log[end] = Printed("end", r, exit[r]) /\ Between(go, end, r)
  BY <1>3, <1>7, <1>8
<1> HIDE DEF body, start, end
<1>20. ASSUME NEW begin \in Starts(r), begin \in Nat, At(log, "go", r) # {} => begin = go,
              ReadFrom(OutputOf(transcript, r), begin, end)
       PROVE  \E g, e \in DOMAIN log, b \in Starts(r) :
                /\ Opens(log[g], r) /\ log[e] = Printed("end", r, exit[r])
                /\ Between(g, e, r) /\ g < e
                /\ b \in Nat /\ (At(log, "go", r) # {} => b = g)
                /\ ReadFrom(OutputOf(transcript, r), b, e)
  <2>1. go < end
    BY <1>18
  <2> QED BY <1>7, <1>19, <1>20, <2>1
<1>16. CASE go > Lost /\ log[go].kind = "go"
  <2>0. PICK g \in Nat : g = go - Lost
    BY <1>14, <1>16
  <2>1. g \in 1 .. c - 1 /\ g + Lost = go
    BY <1>16, <1>18, <2>0
  <2>2. start = {g}
    <3>1. g \in start
      BY <1>7, <1>11, <1>15, <1>16, <2>1 DEF start, At, Marker, Opens
    <3>2. \A i \in start : i = g
      BY <1>13, <1>14, <2>1
    <3> QED BY <3>1, <3>2
  <2>3. Min(start) = g
    <3>1. g \in Int
      OBVIOUS
    <3> HIDE DEF start
    <3> QED BY ONLY <2>2, <3>1, Single
  <2>4. OutputOf(transcript, r) = SubSeq(body, g + 1, c - 1)
    BY <1>12, <1>18, <2>2, <2>3
  <2>5. /\ g + 1 \in Nat /\ go + 1 \in Nat /\ 1 <= g + 1 /\ g + 1 <= c - 1 + 1
        /\ go + 1 = g + 1 + Lost
    BY <1>18, <2>1
  <2>6. \A i \in g + 1 .. c - 1 : body[i] = log[i + Lost]
    BY <1>15, <1>18
  <2>7. SubSeq(body, g + 1, c - 1) = SubSeq(log, go + 1, end - 1)
    <3>1. body \in Seq(Line) /\ c - 1 <= Len(body)
      BY <1>11, <1>18
    <3>2. c - 1 \in Nat /\ end - 1 \in Nat /\ Lost \in Nat /\ end - 1 = c - 1 + Lost
          /\ end - 1 <= Len(log)
      BY <1>18
    <3>3. PICK m, n, e, f \in Nat : m = g + 1 /\ n = c - 1 /\ e = go + 1 /\ f = end - 1
      BY <2>5, <3>2
    <3>4. /\ 1 <= m /\ m <= n + 1 /\ n <= Len(body) /\ e = m + Lost /\ f = n + Lost
          /\ f <= Len(log) /\ \A i \in m .. n : body[i] = log[i + Lost]
      BY <2>5, <2>6, <3>1, <3>2, <3>3
    <3>5. SubSeq(body, m, n) = SubSeq(log, e, f)
      BY <1>0, <3>1, <3>2, <3>4, SameCut
    <3> QED BY <3>3, <3>5
  <2>8. go \in go .. end - 1
    BY <1>18
  <2>9. ReadFrom(OutputOf(transcript, r), go, end)
    BY <2>4, <2>7, <2>8 DEF ReadFrom
  <2>10. go \in Starts(r)
    <3>1. go \in At(log, "go", r)
      BY <1>7, <1>16 DEF At, Marker, Opens
    <3> QED BY <1>7, <3>1, StartsAt
  <2> QED BY <1>9, <1>14, <1>20, <2>9, <2>10
<1>17. CASE ~ (go > Lost /\ log[go].kind = "go")
  <2>1. start = {}
    <3> SUFFICES ASSUME NEW i \in start PROVE FALSE
      OBVIOUS
    <3>1. i \in 1 .. c - 1 /\ i + Lost = go /\ log[go].kind = "go"
      BY <1>13 DEF Is
    <3> QED BY <1>14, <1>17, <3>1
  <2>2. OutputOf(transcript, r) = SubSeq(transcript, 1, c - 1)
    BY <1>12, <2>1 DEF body
  <2>3. /\ 1 \in Nat /\ Lost + 1 \in Nat /\ 1 <= c - 1 + 1 /\ Lost + 1 = 1 + Lost
        /\ c - 1 <= Len(transcript)
    <3>1. 1 \in Nat /\ Lost + 1 \in Nat /\ 1 <= c - 1 + 1 /\ Lost + 1 = 1 + Lost
      BY <1>14
    <3>2. c \in DOMAIN transcript /\ Len(transcript) \in Nat
      BY <1>0, <1>3
    <3>3. c - 1 <= Len(transcript)
      BY <1>0, <1>14, <3>2
    <3> QED BY <3>1, <3>3
  <2>4. \A i \in 1 .. c - 1 : transcript[i] = log[i + Lost]
    BY <1>11, <1>15
  <2>5. SubSeq(transcript, 1, c - 1) = SubSeq(log, Lost + 1, end - 1)
    BY <1>0, <1>18, <2>3, <2>4, SameCut
  <2>6. Lost > 0 => Len(log) >= TranscriptLimit + Lost
    <3>1. Lost > 0 => Len(transcript) = TranscriptLimit
      BY DEF Kept
    <3>2. TranscriptLimit \in Nat
      BY DriverAssumption
    <3> QED BY <1>14, <3>1, <3>2
  <2>7. Lost <= end - 1
    BY <1>14, <1>18
  <2>8. ASSUME NEW begin \in Starts(r), begin \in Nat, begin <= Lost,
               At(log, "go", r) # {} => begin = go
        PROVE  ReadFrom(OutputOf(transcript, r), begin, end)
    <3>1. Lost \in begin .. end - 1
      BY <1>14, <1>18, <2>7, <2>8
    <3>2. Lost = begin \/ Len(log) - begin >= TranscriptLimit
      <4>1. TranscriptLimit \in Nat /\ Len(log) \in Nat
        BY <1>0, DriverAssumption
      <4> QED BY <1>14, <2>6, <2>8, <4>1
    <3> QED BY <2>2, <2>5, <3>1, <3>2 DEF ReadFrom
  <2>9. CASE At(log, "go", r) = {} /\ Starts(r) = {0}
    BY <1>9, <1>14, <1>20, <2>8, <2>9
  <2>10. CASE Starts(r) = {go} /\ Is(log[go], "go", r)
    <3>1. go <= Lost
      BY <1>14, <1>17, <2>10 DEF Is
    <3>2. go \in Starts(r) /\ go \in Nat
      BY <1>14, <2>10
    <3>3. ReadFrom(OutputOf(transcript, r), go, end)
      BY <2>8, <3>1, <3>2
    <3> QED BY <1>9, <1>20, <3>2, <3>3
  <2> QED BY <1>7, <2>9, <2>10, StartsAt
<1> QED BY <1>16, <1>17

-----------------------------------------------------------------------------
(***************************************************************************)
(* The line of a run is in one place.                                      *)
(***************************************************************************)
LEMMA PutBehind ==
  ASSUME NEW S, NEW s \in Seq(S), NEW x \in S, Once(s), x \in Run => ~In(x, s)
  PROVE  /\ Append(s, x) \in Seq(S) /\ Once(Append(s, x))
         /\ \A r : In(r, Append(s, x)) <=> In(r, s) \/ r = x
<1> DEFINE t == Append(s, x)
<1>1. /\ t \in Seq(S) /\ Len(t) = Len(s) + 1
      /\ \A i \in DOMAIN s : i \in DOMAIN t /\ t[i] = s[i]
      /\ t[Len(s) + 1] = x
      /\ \A i \in DOMAIN t : i \in DOMAIN s \/ i = Len(s) + 1
  BY Appended
<1>2. Len(s) + 1 \in DOMAIN t
  BY <1>1
<1> HIDE DEF t
<1>3. Once(t)
  BY <1>1, <1>2 DEF Once, In
<1>4. \A r : In(r, t) <=> In(r, s) \/ r = x
  BY <1>1, <1>2 DEF In
<1> QED BY <1>1, <1>3, <1>4 DEF t

LEMMA TakenOff ==
  ASSUME NEW S, NEW s \in Seq(S), s # << >>, Once(s)
  PROVE  /\ Tail(s) \in Seq(S) /\ Head(s) \in S /\ Once(Tail(s))
         /\ In(Head(s), s)
         /\ \A r : In(r, Tail(s)) => In(r, s)
         /\ Head(s) \in Run => ~In(Head(s), Tail(s))
<1> DEFINE t == Tail(s)
<1>1. /\ t \in Seq(S) /\ Head(s) \in S /\ Head(s) = s[1] /\ 1 \in DOMAIN s
      /\ \A i \in DOMAIN t : i \in Nat /\ i + 1 \in DOMAIN s /\ t[i] = s[i + 1] /\ i + 1 # 1
  OBVIOUS
<1> HIDE DEF t
<1>2. \A i, j \in DOMAIN t : i + 1 = j + 1 => i = j
  BY <1>1
<1>3. Once(t)
  BY <1>1, <1>2 DEF Once
<1>4. In(Head(s), s)
  BY <1>1 DEF In
<1>5. \A r : In(r, t) => In(r, s)
  BY <1>1 DEF In
<1>6. Head(s) \in Run => ~In(Head(s), t)
  BY <1>1 DEF Once, In
<1> QED BY <1>1, <1>3, <1>4, <1>5, <1>6 DEF t

\* A run has begun when its opening fence is written.
LEMMA BegunSays ==
  ASSUME TypeOK, Kept, NEW line \in Line, Says(line), NEW r
  PROVE  Begun(r)' <=> Begun(r) \/ Opens(line, r)
<1>1. Len(log) + 1 \in DOMAIN log'
  <2>1. log' \in Seq(Line) /\ Len(log') = Len(log) + 1 /\ log \in Seq(Line)
    BY SaysFacts DEF TypeOK
  <2> QED BY <2>1
<1> QED BY <1>1, SaysFacts DEF Begun

LEMMA BegunRest ==
  ASSUME TypeOK, Kept, Len(log) > 0, log[Len(log)].kind = "ending",
         NEW line \in Line, line.kind = "end", SaysRest(line), NEW r
  PROVE  Begun(r)' <=> Begun(r)
<1>1. DOMAIN log' = DOMAIN log
  <2>1. log' \in Seq(Line) /\ Len(log') = Len(log) /\ log \in Seq(Line)
    BY RestFacts DEF TypeOK
  <2> QED BY <2>1
<1> QED BY <1>1, RestFacts DEF Begun, Opens, Opening

\* Who it is that a line is of.
LEMMA Whose == Reader \notin Run /\ \A r \in Run : r \in Nat /\ r >= 1
BY DriverAssumption DEF Run, Reader

\* What is printed is a line.
LEMMA Prints ==
  ASSUME NEW kind \in Kind, NEW r \in Run \cup {Reader}, NEW n \in Nat
  PROVE  /\ Printed(kind, r, n) \in Line
         /\ Printed(kind, r, n).kind = kind /\ Printed(kind, r, n).of = r /\ Printed(kind, r, n).n = n
BY DEF Printed, Line, Kind

\* What a step of the guest or of the reader writes.
LEMMA Writes ==
  ASSUME TypeOK, Fenced
  PROVE  /\ Arrive => Printed("echo", Head(wire), 0) \in Line
         /\ Begin => Printed("go", Marker(Head(tty)), 0) \in Line /\ Head(tty) \in Run \cup {Reader}
         /\ BeginSpoilt => Printed("spoilt", Marker(Head(tty)), 0) \in Line /\ Head(tty) \in Run
         /\ WriteLine => Printed("out", shell.of, shell.n + 1) \in Line
         /\ Printed("aside", Reader, 0) \in Line
         /\ \A s \in Status : Printed("ending", Marker(shell.of), s \div 10) \in Line
         /\ Close => Printed("end", Marker(shell.of), exit[shell.of]) \in Line
         /\ Printed("echo", Reader, 0) \in Line
<1>0. /\ wire \in Seq(Run \cup {Reader}) /\ tty \in Seq(Run \cup {Reader})
      /\ shell.of \in Run \cup {Reader} /\ shell.n \in Nat /\ joined \subseteq Run
  BY DEF TypeOK
<1>k. {"echo", "go", "spoilt", "out", "aside", "ending", "end"} \subseteq Kind /\ 0 \in Nat
      /\ Reader \in Run \cup {Reader}
  BY DEF Kind
<1>1. Arrive => Printed("echo", Head(wire), 0) \in Line
  <2>1. Arrive => Head(wire) \in Run \cup {Reader}
    BY <1>0 DEF Arrive
  <2> QED BY <1>k, <2>1, Prints
<1>2. Begin => Printed("go", Marker(Head(tty)), 0) \in Line /\ Head(tty) \in Run \cup {Reader}
  <2>1. Begin => Head(tty) \in Run \cup {Reader}
    BY <1>0 DEF Begin
  <2> QED BY <1>k, <2>1, Prints DEF Marker
<1>7. BeginSpoilt => Printed("spoilt", Marker(Head(tty)), 0) \in Line /\ Head(tty) \in Run
  <2>1. BeginSpoilt => Head(tty) \in Run
    BY <1>0 DEF BeginSpoilt
  <2> QED BY <1>k, <2>1, Prints DEF Marker
<1>3. Printed("out", shell.of, shell.n + 1) \in Line
  <2>1. shell.n + 1 \in Nat
    BY <1>0
  <2> QED BY <1>0, <1>k, <2>1, Prints
<1>4. \A s \in Status : Printed("ending", Marker(shell.of), s \div 10) \in Line
  <2>1. \A s \in Status : s \div 10 \in Nat
    BY DriverAssumption
  <2>2. ASSUME NEW n \in Nat PROVE Printed("ending", shell.of, n) \in Line
    BY <1>0, <1>k, Prints
  <2> QED BY <2>1, <2>2 DEF Marker
<1>5. Close => Printed("end", Marker(shell.of), exit[shell.of]) \in Line
  <2>1. Close => exit[shell.of] \in Nat
    BY DriverAssumption DEF Close, Fenced
  <2> QED BY <1>0, <1>k, <2>1, Prints DEF Marker
<1>6. Printed("echo", Reader, 0) \in Line /\ Printed("aside", Reader, 0) \in Line
  BY <1>k, Prints
<1> QED BY <1>1, <1>2, <1>3, <1>4, <1>5, <1>6, <1>7

LEMMA OneLineKept == DInv /\ [Next]_vars => OneLine'
<1> SUFFICES ASSUME DInv, [Next]_vars PROVE OneLine'
  OBVIOUS
<1> USE DEF DInv
<1>0. /\ runs \in Nat /\ wire \in Seq(Run \cup {Reader}) /\ tty \in Seq(Run \cup {Reader})
  <2>1. /\ runs \in 0 .. MaxRuns /\ wire \in Seq(Run \cup {Reader})
        /\ tty \in Seq(Run \cup {Reader})
    BY DEF TypeOK
  <2> QED BY <2>1
<1> DEFINE BegunSame == \A r \in Run : Begun(r)' <=> Begun(r)
<1>1. ASSUME UNCHANGED log PROVE BegunSame
  BY <1>1 DEF Begun
<1>2. ASSUME UNCHANGED <<wire, tty, runs>>, BegunSame PROVE OneLine'
  BY <1>2 DEF OneLine, Once, In
<1> HIDE DEF BegunSame
<1>3. CASE UNCHANGED vars
  BY <1>1, <1>2, <1>3 DEF vars
<1>4. CASE Ask
  <2>1. BegunSame /\ tty' = tty /\ runs' = runs + 1 /\ wire' = Append(wire, runs + 1) /\ runs + 1 \in Run
    BY <1>0, <1>1, <1>4, DriverAssumption DEF Ask, Run
  <2>2. \A r \in Run : r <= runs => r # runs + 1 /\ r <= runs + 1
    BY <1>0, Whose
  <2>3. ~In(runs + 1, wire) /\ Once(wire) /\ ~In(runs + 1, tty) /\ ~Begun(runs + 1)
    BY <2>1, <2>2 DEF OneLine
  <2>4. runs + 1 <= runs + 1
    BY <1>0
  <2>5. Once(wire') /\ \A r : In(r, wire') <=> In(r, wire) \/ r = runs + 1
    BY <1>0, <2>1, <2>3, PutBehind
  <2> QED BY <2>1, <2>2, <2>3, <2>4, <2>5 DEF OneLine, BegunSame
<1>5. CASE Type
  <2>1. BegunSame /\ tty' = tty /\ runs' = runs /\ wire' = Append(wire, Reader)
    BY <1>1, <1>5 DEF Type
  <2>2. Once(wire') /\ \A r : In(r, wire') <=> In(r, wire) \/ r = Reader
    BY <1>0, <2>1, Whose, PutBehind DEF OneLine
  <2> QED BY <2>1, <2>2, Whose DEF OneLine, BegunSame
<1>14. CASE TypeHalf
  BY <1>1, <1>2, <1>14 DEF TypeHalf
<1>15. ASSUME NEW line \in Line, Says(line), ~Opening(line) PROVE BegunSame
  BY <1>15, BegunSays DEF BegunSame, Opens
<1>6. CASE Interrupt
  <2>1. Printed("echo", Reader, 0) \in Line /\ ~Opening(Printed("echo", Reader, 0))
    BY Writes DEF Opening, Printed
  <2>2. BegunSame
    BY <1>6, <1>15, <2>1 DEF Interrupt
  <2> QED BY <1>2, <1>6, <2>2 DEF Interrupt
<1>7. ASSUME NEW r \in Run, Resolve(r) \/ TimeOut(r) PROVE OneLine'
  BY <1>1, <1>2, <1>7 DEF Resolve, TimeOut
<1>8. CASE Arrive
  <2>0. Once(wire) /\ Once(tty)
    BY DEF OneLine
  <2>1. /\ wire # << >> /\ tty' = Append(tty, Head(wire)) /\ runs' = runs /\ wire' = Tail(wire)
    BY <1>8 DEF Arrive, page
  <2>2. BegunSame
    <3>1. ~Opening(Printed("echo", Head(wire), 0))
      BY DEF Opening, Printed
    <3> QED BY <1>8, <1>15, <3>1, Writes DEF Arrive
  <2>3. /\ Once(wire') /\ In(Head(wire), wire) /\ Head(wire) \in Run \cup {Reader}
        /\ \A r : In(r, wire') => In(r, wire)
        /\ Head(wire) \in Run => ~In(Head(wire), wire')
    BY <1>0, <2>0, <2>1, TakenOff
  <2>4. Head(wire) \in Run => ~In(Head(wire), tty)
    BY <2>3 DEF OneLine
  <2>5. Once(tty') /\ \A r : In(r, tty') <=> In(r, tty) \/ r = Head(wire)
    BY <1>0, <2>0, <2>1, <2>3, <2>4, PutBehind
  <2> QED BY <2>1, <2>2, <2>3, <2>5 DEF OneLine, BegunSame
<1>9. CASE Begin \/ BeginSpoilt \/ BeginLost
  <2>0. Once(tty)
    BY DEF OneLine
  <2>1. tty # << >> /\ wire' = wire /\ runs' = runs /\ tty' = Tail(tty)
    BY <1>9 DEF Begin, BeginSpoilt, BeginLost, page
  <2>2. /\ Once(tty') /\ In(Head(tty), tty)
        /\ \A r : In(r, tty') => In(r, tty)
        /\ Head(tty) \in Run => ~In(Head(tty), tty')
    BY <1>0, <2>0, <2>1, TakenOff
  <2>3. \A r \in Run : Begun(r)' => Begun(r) \/ r = Head(tty)
    <3>1. CASE UNCHANGED log
      BY <1>1, <3>1 DEF BegunSame
    <3>2. CASE Begin /\ Head(tty) # Reader
      <4>1. Says(Printed("go", Head(tty), 0)) /\ Printed("go", Head(tty), 0) \in Line
        BY <3>2, Writes DEF Begin, Marker
      <4>2. \A r : Opens(Printed("go", Head(tty), 0), r) => r = Head(tty)
        BY DEF Opens, Printed
      <4> QED BY <4>1, <4>2, BegunSays
    <3>3. CASE BeginSpoilt
      <4>1. Says(Printed("spoilt", Head(tty), 0)) /\ Printed("spoilt", Head(tty), 0) \in Line
        BY <3>3, Writes DEF BeginSpoilt, Marker
      <4>2. \A r : Opens(Printed("spoilt", Head(tty), 0), r) => r = Head(tty)
        BY DEF Opens, Printed
      <4> QED BY <4>1, <4>2, BegunSays
    <3> QED BY <1>9, <3>1, <3>2, <3>3 DEF Begin, BeginLost
  <2>5. \A r \in Run : In(r, tty') => r # Head(tty)
    BY <2>2
  <2>6. \A r \in Run :
          /\ ~ (In(r, wire') /\ In(r, tty'))
          /\ In(r, wire') \/ In(r, tty') => ~Begun(r)'
          /\ In(r, wire') \/ In(r, tty') \/ Begun(r)' => r <= runs'
    BY <2>1, <2>2, <2>3, <2>5 DEF OneLine
  <2> QED BY <2>0, <2>1, <2>2, <2>6 DEF OneLine
<1>10. CASE WriteLine
  <2>1. ~Opening(Printed("out", shell.of, shell.n + 1))
    BY DEF Opening, Printed
  <2>2. BegunSame
    BY <1>10, <1>15, <2>1, Writes DEF WriteLine
  <2> QED BY <1>2, <1>10, <2>2 DEF WriteLine, page
<1>16. CASE WriteAside
  <2>1. ~Opening(Printed("aside", Reader, 0))
    BY DEF Opening, Printed
  <2>2. BegunSame
    BY <1>15, <1>16, <2>1, Writes DEF WriteAside
  <2> QED BY <1>2, <1>16, <2>2 DEF WriteAside, page
<1>11. CASE Eat
  <2>0. Once(tty)
    BY DEF OneLine
  <2>1. BegunSame /\ tty # << >> /\ wire' = wire /\ runs' = runs /\ tty' = Tail(tty)
    BY <1>1, <1>11 DEF Eat, page
  <2>2. Once(tty') /\ \A r : In(r, tty') => In(r, tty)
    BY <1>0, <2>0, <2>1, TakenOff
  <2> QED BY <2>1, <2>2 DEF OneLine, BegunSame
<1>12. CASE End
  <2>1. BegunSame
    <3>1. CASE shell.of = Reader
      BY <1>1, <1>12, <3>1 DEF End
    <3>2. CASE shell.of # Reader
      <4>1. PICK s \in Status : Says(Printed("ending", Marker(shell.of), s \div 10))
        BY <1>12, <3>2 DEF End
      <4>2. ~Opening(Printed("ending", Marker(shell.of), s \div 10))
        BY DEF Opening, Printed
      <4> QED BY <1>15, <4>1, <4>2, Writes
    <3> QED BY <3>1, <3>2
  <2> QED BY <1>2, <1>12, <2>1 DEF End, page
<1>13. CASE Close
  <2>1. Len(log) > 0 /\ log[Len(log)].kind = "ending"
    BY <1>13 DEF Fenced, Close
  <2>2. Printed("end", Marker(shell.of), exit[shell.of]).kind = "end"
    BY DEF Printed
  <2>3. BegunSame
    BY <1>13, <2>1, <2>2, BegunRest, Writes DEF BegunSame, Close
  <2> QED BY <1>2, <1>13, <2>3 DEF Close, page
<1> QED
  BY <1>3, <1>4, <1>5, <1>6, <1>7, <1>8, <1>9, <1>10, <1>11, <1>12, <1>13, <1>14, <1>16
     DEF Next, Guest

-----------------------------------------------------------------------------
(***************************************************************************)
(* The fences.                                                             *)
(***************************************************************************)
\* Nothing is written, and no other run is at the shell.
LEMMA FencedStays ==
  ASSUME Fenced, UNCHANGED <<log, exit>>,
         UNCHANGED shell \/ shell'.of = Reader \/ shell' = Idle
         \/ (shell.at # "closing" /\ UNCHANGED <<shell.of, shell.at>>),
         shell'.at = "closing" => UNCHANGED shell
  PROVE  Fenced'
<1>1. \A r \in Run : AtShell(r)' => AtShell(r)
  BY Whose DEF AtShell, Idle
<1>2. GoesOnce'
  BY DEF Fenced, GoesOnce, Opening
<1>3. \A end \in DOMAIN log : log[end].kind = "end" => Closed(end, log[end].of)'
  BY <1>1 DEF Fenced, Closed, Between
<1>4. \A r \in Run : AtShell(r)' => Printing(r)'
  <2> SUFFICES ASSUME NEW r \in Run, AtShell(r)' PROVE Printing(r)'
    OBVIOUS
  <2>1. UNCHANGED shell.at
    BY Whose DEF AtShell, Idle
  <2> QED BY <1>1, <2>1 DEF Fenced, Printing, Between
<1>5. shell'.at = "closing" =>
        /\ shell'.of \in Run /\ exit'[shell'.of] \in Status
        /\ Len(log') > 0 /\ log'[Len(log')].kind = "ending"
  BY DEF Fenced
<1> QED BY <1>2, <1>3, <1>4, <1>5 DEF Fenced

\* What closed before a line is written stays closed.
LEMMA ClosedStays ==
  ASSUME TypeOK, Fenced, log' \in Seq(Line), Len(log') >= Len(log),
         \A i \in DOMAIN log : log'[i] = log[i] \/ i = Len(log),
         NEW end \in DOMAIN log, log[end].kind = "end", log'[end] = log[end],
         exit'[log[end].of] = exit[log[end].of],
         AtShell(log[end].of)' => AtShell(log[end].of)
  PROVE  Closed(end, log[end].of)'
<1>0. PICK r : r = log[end].of
  OBVIOUS
<1>1. Closed(end, r)
  BY <1>0 DEF Fenced
<1>2. log \in Seq(Line)
  BY DEF TypeOK
<1>3. Len(log) \in Nat /\ end \in Nat /\ end <= Len(log) /\ \A i \in DOMAIN log : i \in DOMAIN log'
  BY <1>2
<1>4. \A i \in DOMAIN log' : i <= Len(log) => i \in DOMAIN log
  BY <1>2
<1>5. PICK go \in DOMAIN log : go < end /\ Opens(log[go], r) /\ Between(go, end, r)
  BY <1>1 DEF Closed
<1>6. \A i \in DOMAIN log' : i \in Nat /\ (i < end => i \in DOMAIN log /\ log'[i] = log[i])
  BY <1>2, <1>3, <1>4
<1>7. go \in DOMAIN log' /\ log'[go] = log[go]
  BY <1>3, <1>5, <1>6
<1>8. Between(go, end, r)'
  BY <1>5, <1>6 DEF Between
<1>9. r \in Run /\ log'[end].n = exit'[r] /\ exit'[r] # NoStatus /\ ~AtShell(r)'
  BY <1>0, <1>1 DEF Closed, AtShell
<1> QED BY <1>0, <1>5, <1>7, <1>8, <1>9 DEF Closed

\* A line of what r prints, behind the others.
LEMMA PrintingOn ==
  ASSUME TypeOK, Kept, NEW line \in Line, Says(line), NEW r \in Run, Printing(r),
         shell.at # "closing", shell'.at # "closing" => Own(line, r)
  PROVE  Printing(r)'
<1>1. log \in Seq(Line)
  BY DEF TypeOK
<1>2. PICK go \in DOMAIN log :
        Opens(log[go], r) /\ Between(go, Len(log), r)
        /\ (Len(log) > go => Own(log[Len(log)], r))
  BY DEF Printing
<1>3. /\ log' \in Seq(Line) /\ Len(log') = Len(log) + 1
      /\ \A i \in DOMAIN log : i \in DOMAIN log' /\ log'[i] = log[i]
      /\ log'[Len(log) + 1] = line
      /\ \A i \in DOMAIN log' : i \in DOMAIN log \/ i = Len(log) + 1
  BY SaysFacts
<1>4. \A i \in DOMAIN log : i \in Nat /\ i <= Len(log) /\ Len(log) \in Nat
  BY <1>1
<1>5. \A i \in DOMAIN log' : go < i /\ i < Len(log') => i \in DOMAIN log /\ (i < Len(log) \/ i = Len(log))
  BY <1>3, <1>4
<1>6. Between(go, Len(log), r)'
  BY <1>2, <1>3, <1>5 DEF Between
<1>7. shell'.at # "closing" => Own(log'[Len(log')], r)
  BY <1>3
<1> QED BY <1>2, <1>3, <1>6, <1>7 DEF Printing

\* A line that is no fence.
LEMMA FencedPrints ==
  ASSUME TypeOK, Kept, Fenced, NEW line \in Line, line.kind \in {"echo", "out", "aside"}, Says(line),
         exit' = exit, shell.at # "closing", shell'.at # "closing",
         \A r \in Run : AtShell(r)' => AtShell(r) /\ Own(line, r)
  PROVE  Fenced'
<1>0. log \in Seq(Line)
  BY DEF TypeOK
<1>1. /\ log' \in Seq(Line) /\ Len(log') = Len(log) + 1
      /\ \A i \in DOMAIN log : i \in DOMAIN log' /\ log'[i] = log[i]
      /\ log'[Len(log) + 1] = line
      /\ \A i \in DOMAIN log' : i \in DOMAIN log \/ i = Len(log) + 1
  BY SaysFacts
<1>2. Len(log) \in Nat
  BY <1>0
<1>3. GoesOnce'
  BY <1>1 DEF Fenced, GoesOnce, Opening
<1>4. \A end \in DOMAIN log' : log'[end].kind = "end" => Closed(end, log[end].of)'
  <2> SUFFICES ASSUME NEW end \in DOMAIN log', log'[end].kind = "end"
               PROVE  Closed(end, log[end].of)'
    OBVIOUS
  <2>1. end \in DOMAIN log /\ log'[end] = log[end]
    BY <1>1
  <2>2. log[end].of \in Run
    BY <2>1 DEF Fenced, Closed
  <2> QED BY <1>1, <1>2, <2>1, <2>2, ClosedStays
<1>5. \A r \in Run : AtShell(r)' => Printing(r)'
  <2> TAKE r \in Run
  <2>1. AtShell(r)' => Printing(r) /\ Own(line, r)
    BY DEF Fenced
  <2> QED BY <2>1, PrintingOn
<1> QED BY <1>3, <1>4, <1>5 DEF Fenced

LEMMA FencedKept == DInv /\ [Next]_vars => Fenced'
<1> SUFFICES ASSUME DInv, [Next]_vars PROVE Fenced'
  OBVIOUS
<1> USE DEF DInv
<1>1. CASE UNCHANGED vars
  BY <1>1, FencedStays DEF vars
<1>2. CASE Ask \/ Type \/ TypeHalf \/ Eat \/ \E r \in Run : Resolve(r) \/ TimeOut(r)
  BY <1>2, FencedStays DEF Ask, Type, TypeHalf, Eat, Resolve, TimeOut
<1>9. CASE WriteAside
  <2>1. /\ shell.at # "closing" /\ shell' = shell /\ exit' = exit
        /\ Says(Printed("aside", Reader, 0)) /\ Printed("aside", Reader, 0) \in Line
        /\ Printed("aside", Reader, 0).kind = "aside"
    BY <1>9, Writes DEF WriteAside, Printed
  <2> QED BY <2>1, FencedPrints DEF AtShell, Own
<1>10. CASE BeginLost
  BY <1>10, FencedStays DEF BeginLost
<1>3. CASE Interrupt
  <2>1. /\ shell.at = "command" /\ shell'.at = "prompt" /\ exit' = exit
        /\ Says(Printed("echo", Reader, 0)) /\ Printed("echo", Reader, 0) \in Line
        /\ Printed("echo", Reader, 0).kind = "echo"
    BY <1>3, Writes DEF Interrupt, Idle, Printed
  <2>2. \A r \in Run : ~AtShell(r)'
    BY <2>1 DEF AtShell
  <2> QED BY <2>1, <2>2, FencedPrints
<1>4. CASE Arrive
  <2>1. /\ shell.at # "closing" /\ shell' = shell /\ exit' = exit
        /\ Says(Printed("echo", Head(wire), 0)) /\ Printed("echo", Head(wire), 0) \in Line
        /\ Printed("echo", Head(wire), 0).kind = "echo"
    BY <1>4, Writes DEF Arrive, Printed
  <2> QED BY <2>1, FencedPrints DEF AtShell, Own
<1>5. CASE WriteLine
  <2> DEFINE line == Printed("out", shell.of, shell.n + 1)
  <2>1. /\ shell.at = "command" /\ shell'.at = "command" /\ shell'.of = shell.of /\ exit' = exit
        /\ Says(line) /\ line \in Line /\ line.kind = "out" /\ line.of = shell.of
    BY <1>5, Writes DEF WriteLine, Printed, TypeOK
  <2>2. \A r \in Run : AtShell(r)' => AtShell(r) /\ Own(line, r)
    BY <2>1 DEF AtShell, Own, Is
  <2> QED BY <2>1, <2>2, FencedPrints
<1>6. CASE Begin \/ BeginSpoilt
  <2>1. CASE Begin /\ Head(tty) = Reader
    BY <2>1, FencedStays DEF Begin
  <2>2. CASE BeginSpoilt \/ (Begin /\ Head(tty) # Reader)
    <3>0. log \in Seq(Line)
      BY DEF TypeOK
    <3> PICK r : r = Head(tty)
      OBVIOUS
    <3> DEFINE Puts(kind, line) ==
          /\ Says(line) /\ line \in Line /\ line.kind = kind /\ line.of = r /\ line.n = 0
          /\ r \in Run /\ exit' = exit /\ shell.at = "prompt"
          /\ shell' = [of |-> r, at |-> "command", n |-> 0]
    <3>a. ASSUME BeginSpoilt PROVE Puts("spoilt", Printed("spoilt", r, 0))
      BY <3>a, Writes DEF BeginSpoilt, Marker, Printed
    <3>b. ASSUME Begin, Head(tty) # Reader PROVE Puts("go", Printed("go", r, 0))
      BY <3>b, Writes DEF Begin, Marker, Printed
    <3> PICK line : Puts("go", line) \/ Puts("spoilt", line)
      BY <2>2, <3>a, <3>b
    <3>1. /\ Says(line) /\ line \in Line /\ Opening(line) /\ line.of = r /\ line.n = 0
          /\ r \in Run /\ exit' = exit /\ shell.at = "prompt"
          /\ shell' = [of |-> r, at |-> "command", n |-> 0]
          /\ line.kind # "end"
      BY DEF Opening
    <3>2. In(r, tty)
      <4>1. tty # << >> /\ tty \in Seq(Run \cup {Reader})
        BY <1>6 DEF Begin, BeginSpoilt, TypeOK
      <4> QED BY <4>1, TakenOff DEF OneLine
    <3>3. ~Begun(r)
      BY <3>1, <3>2 DEF OneLine
    <3>4. /\ log' \in Seq(Line) /\ Len(log') = Len(log) + 1
          /\ \A i \in DOMAIN log : i \in DOMAIN log' /\ log'[i] = log[i]
          /\ log'[Len(log) + 1] = line
          /\ \A i \in DOMAIN log' : i \in DOMAIN log \/ i = Len(log) + 1
      BY <3>1, SaysFacts
    <3>5. Len(log) \in Nat /\ Len(log) + 1 \in DOMAIN log'
      BY <3>0, <3>4
    <3>6. GoesOnce'
      BY <3>1, <3>3, <3>4 DEF Fenced, GoesOnce, Begun, Opens, Opening
    <3>7. \A end \in DOMAIN log' : log'[end].kind = "end" => Closed(end, log[end].of)'
      <4> SUFFICES ASSUME NEW end \in DOMAIN log', log'[end].kind = "end"
                   PROVE  Closed(end, log[end].of)'
        OBVIOUS
      <4>1. end \in DOMAIN log /\ log'[end] = log[end]
        BY <3>1, <3>4
      <4>2. Closed(end, log[end].of)
        BY <4>1 DEF Fenced
      <4>3. Begun(log[end].of)
        BY <4>2 DEF Closed, Begun
      <4>4. ~AtShell(log[end].of)'
        BY <3>1, <3>3, <4>1, <4>3 DEF AtShell
      <4> QED BY <3>1, <3>4, <3>5, <4>1, <4>4, ClosedStays
    <3>8. \A q \in Run : AtShell(q)' => Printing(q)'
      <4>1. \A q \in Run : AtShell(q)' => q = r
        BY <3>1 DEF AtShell
      <4>2. Printing(r)'
        <5> PICK go \in DOMAIN log' : go = Len(log) + 1
          BY <3>5
        <5>1. Between(go, Len(log), r)'
          BY <3>4, <3>5 DEF Between
        <5>2. ~ (Len(log') > go)
          BY <3>4, <3>5
        <5>3. Opens(log'[go], r)
          BY <3>1, <3>4 DEF Opens
        <5> QED BY <5>1, <5>2, <5>3 DEF Printing
      <4> QED BY <4>1, <4>2
    <3>9. shell'.at # "closing"
      BY <3>1
    <3> QED BY <3>6, <3>7, <3>8, <3>9 DEF Fenced
  <2> QED BY <1>6, <2>1, <2>2
<1>7. CASE End
  <2>1. CASE shell.of = Reader
    BY <1>7, <2>1, FencedStays DEF End, Idle
  <2>2. CASE shell.of # Reader
    <3> PICK r : r = shell.of
      OBVIOUS
    <3>0. log \in Seq(Line) /\ exit \in [Run -> Status \cup {NoStatus}] /\ r \in Run
          /\ shell \in [of : Run \cup {Reader}, at : {"prompt", "command", "closing"}, n : Nat]
      BY <2>2 DEF TypeOK
    <3>1. PICK s \in Status :
            /\ shell' = [shell EXCEPT !.at = "closing"]
            /\ exit' = [exit EXCEPT ![r] = s]
            /\ Says(Printed("ending", r, s \div 10))
      BY <1>7, <2>2 DEF End, Marker
    <3> DEFINE line == Printed("ending", r, s \div 10)
    <3>2. line \in Line /\ line.kind = "ending" /\ Says(line) /\ shell.at = "command"
      BY <1>7, <3>1, Writes DEF Printed, Marker, End
    <3>3. shell'.at = "closing" /\ shell'.of = r /\ exit'[r] = s
          /\ \A q \in Run : q # r => exit'[q] = exit[q]
      BY <3>0, <3>1
    <3> HIDE DEF line
    <3>4. /\ log' \in Seq(Line) /\ Len(log') = Len(log) + 1
          /\ \A i \in DOMAIN log : i \in DOMAIN log' /\ log'[i] = log[i]
          /\ log'[Len(log) + 1] = line
          /\ \A i \in DOMAIN log' : i \in DOMAIN log \/ i = Len(log) + 1
      BY <3>2, SaysFacts
    <3>5. Len(log) \in Nat
      BY <3>0
    <3>6. GoesOnce'
      BY <3>2, <3>4 DEF Fenced, GoesOnce, Opening
    <3>7. \A end \in DOMAIN log' : log'[end].kind = "end" => Closed(end, log[end].of)'
      <4> SUFFICES ASSUME NEW end \in DOMAIN log', log'[end].kind = "end"
                   PROVE  Closed(end, log[end].of)'
        OBVIOUS
      <4>1. end \in DOMAIN log /\ log'[end] = log[end]
        BY <3>2, <3>4
      <4>2. Closed(end, log[end].of)
        BY <4>1 DEF Fenced
      <4>3. log[end].of # r /\ log[end].of \in Run
        BY <3>2, <4>2 DEF Closed, AtShell
      <4>4. ~AtShell(log[end].of)'
        BY <3>3, <4>1, <4>3 DEF AtShell
      <4> QED BY <3>3, <3>4, <3>5, <4>1, <4>3, <4>4, ClosedStays
    <3>8. \A q \in Run : AtShell(q)' => Printing(q)'
      <4>1. \A q \in Run : AtShell(q)' => AtShell(q)
        BY <3>2, <3>3 DEF AtShell
      <4> QED BY <3>2, <3>3, <4>1, PrintingOn DEF Fenced
    <3>9. /\ shell'.of \in Run /\ exit'[shell'.of] \in Status
          /\ Len(log') > 0 /\ log'[Len(log')].kind = "ending"
      BY <3>0, <3>2, <3>3, <3>4, <3>5
    <3> QED BY <3>6, <3>7, <3>8, <3>9 DEF Fenced
  <2> QED BY <2>1, <2>2
<1>8. CASE Close
  <2> PICK r, last : r = shell.of /\ last = Len(log)
    OBVIOUS
  <2> DEFINE line == Printed("end", r, exit[r])
  <2>0. log \in Seq(Line)
    BY DEF TypeOK
  <2>1. /\ shell.at = "closing" /\ shell' = Idle /\ exit' = exit /\ SaysRest(line)
        /\ line \in Line /\ line.kind = "end" /\ line.of = r /\ line.n = exit[r]
    BY <1>8, Writes DEF Close, Marker, Printed
  <2>2. r \in Run /\ exit[r] \in Status /\ Len(log) > 0 /\ log[last].kind = "ending"
    BY <2>1 DEF Fenced
  <2>3. \A q \in Run : ~AtShell(q)'
    BY <2>1 DEF AtShell, Idle
  <2>4. PICK go \in DOMAIN log : Opens(log[go], r) /\ Between(go, last, r)
    BY <2>1, <2>2 DEF Fenced, Printing, AtShell
  <2> HIDE DEF line
  <2>5. /\ log' \in Seq(Line) /\ Len(log') = last
        /\ \A i \in DOMAIN log : i # last => log'[i] = log[i]
        /\ log'[last] = line
    BY <2>1, <2>2, RestFacts
  <2>6. DOMAIN log' = DOMAIN log /\ last \in DOMAIN log /\ last = Len(log) /\ last \in Nat
        /\ \A i \in DOMAIN log : i \in Nat /\ i <= last
    BY <2>0, <2>2, <2>5
  <2>7. GoesOnce'
    BY <2>1, <2>5, <2>6 DEF Fenced, GoesOnce, Opening
  <2>8. \A end \in DOMAIN log' : log'[end].kind = "end" => Closed(end, log[end].of)'
    <3> SUFFICES ASSUME NEW end \in DOMAIN log', log'[end].kind = "end"
                 PROVE  Closed(end, log[end].of)'
      OBVIOUS
    <3>1. CASE end # last
      <4>1. end \in DOMAIN log /\ log'[end] = log[end]
        BY <2>5, <2>6, <3>1
      <4>2. log[end].of \in Run
        BY <4>1 DEF Fenced, Closed
      <4> QED BY <2>1, <2>3, <2>5, <2>6, <4>1, <4>2, ClosedStays
    <3>2. CASE end = last
      <4>1. go < last /\ log'[go] = log[go]
        BY <2>2, <2>4, <2>5, <2>6 DEF Opens, Opening
      <4>2. Between(go, last, r)'
        BY <2>4, <2>5, <2>6 DEF Between
      <4>3. exit[r] # NoStatus
        BY <2>2, DriverAssumption
      <4> QED BY <2>1, <2>2, <2>3, <2>4, <2>5, <2>6, <3>2, <4>1, <4>2, <4>3 DEF Closed
    <3> QED BY <3>1, <3>2
  <2>9. shell'.at # "closing"
    BY <2>1 DEF Idle
  <2> QED BY <2>3, <2>7, <2>8, <2>9 DEF Fenced
<1> QED BY <1>1, <1>2, <1>3, <1>4, <1>5, <1>6, <1>7, <1>8, <1>9, <1>10 DEF Next, Guest

-----------------------------------------------------------------------------
(***************************************************************************)
(* Types, and what is kept of the log.                                     *)
(***************************************************************************)
\* What is read out of a transcript with the closing line.
LEMMA OutputIsLines ==
  ASSUME TypeOK, Fenced, Kept, NEW r \in Run, Completion(transcript, r) # {}
  PROVE  OutputOf(transcript, r) \in Seq(Line)
<1>1. log \in Seq(Line)
  BY DEF TypeOK
<1>2. PICK start \in Nat, end \in DOMAIN log : ReadFrom(OutputOf(transcript, r), start, end)
  BY ReadBack
<1>3. PICK from \in start .. end - 1 : OutputOf(transcript, r) = SubSeq(log, from + 1, end - 1)
  BY <1>2 DEF ReadFrom
<1>4. from + 1 \in Int /\ end - 1 \in Int /\ 1 <= from + 1 /\ end - 1 <= Len(log)
      /\ from + 1 <= end - 1 + 1
  BY <1>1
<1> QED BY <1>1, <1>3, <1>4, Cut

\* Every step but the end of a line leaves the console alone or prints a line.
LEMMA WhatIsWritten ==
  ASSUME TypeOK, Fenced, [Next]_vars
  PROVE  \/ UNCHANGED <<transcript, log>>
         \/ \E line \in Line : Says(line)
         \/ Len(log) > 0 /\ log[Len(log)].kind = "ending" /\ \E line \in Line : SaysRest(line)
<1>1. CASE UNCHANGED vars \/ Ask \/ Type \/ TypeHalf \/ Eat \/ \E r \in Run : Resolve(r) \/ TimeOut(r)
  BY <1>1 DEF vars, Ask, Type, TypeHalf, Eat, Resolve, TimeOut
<1>2. CASE Interrupt \/ Arrive \/ Begin \/ BeginSpoilt \/ BeginLost \/ WriteLine \/ WriteAside
  BY <1>2, Writes DEF Interrupt, Arrive, Begin, BeginSpoilt, BeginLost, WriteLine, WriteAside
<1>3. CASE End
  BY <1>3, Writes DEF End
<1>4. CASE Close
  <2>1. Len(log) > 0 /\ log[Len(log)].kind = "ending"
    BY <1>4 DEF Fenced, Close
  <2> QED BY <1>4, <2>1, Writes DEF Close
<1> QED BY <1>1, <1>2, <1>3, <1>4 DEF Next, Guest

LEMMA KeptKept ==
  DInv /\ [Next]_vars =>
    /\ Kept'
    /\ log' \in Seq(Line) /\ transcript' \in Seq(Line) /\ Len(transcript') <= TranscriptLimit
<1> SUFFICES ASSUME DInv, [Next]_vars
    PROVE  /\ Kept'
           /\ log' \in Seq(Line) /\ transcript' \in Seq(Line) /\ Len(transcript') <= TranscriptLimit
  OBVIOUS
<1> USE DEF DInv
<1>1. CASE UNCHANGED <<transcript, log>>
  <2>1. Kept'
    BY <1>1 DEF Kept, Lost
  <2>2. log \in Seq(Line) /\ transcript \in Seq(Line) /\ Len(transcript) <= TranscriptLimit
    BY DEF TypeOK
  <2> QED BY <1>1, <2>1, <2>2
<1>2. CASE \E line \in Line : Says(line)
  BY <1>2, SaysFacts
<1>3. CASE Len(log) > 0 /\ \E line \in Line : SaysRest(line)
  BY <1>3, RestFacts
<1> QED BY <1>1, <1>2, <1>3, WhatIsWritten

LEMMA Counted ==
  ASSUME NEW m \in Nat, NEW n \in 0 .. m, n < m
  PROVE  n + 1 \in 0 .. m
OBVIOUS

\* What the page knows of the runs.
LEMMA PageTyped ==
  DInv /\ [Next]_vars =>
    /\ runs' \in 0 .. MaxRuns /\ typed' \in 0 .. MaxTyped
    /\ run' \in [Run -> {"not yet", "waiting", "done", "late"}]
    /\ answer' \in [Run -> [status : Nat \cup {NoStatus}, output : Seq(Line)]]
<1> SUFFICES ASSUME DInv, [Next]_vars
    PROVE  /\ runs' \in 0 .. MaxRuns /\ typed' \in 0 .. MaxTyped
           /\ run' \in [Run -> {"not yet", "waiting", "done", "late"}]
           /\ answer' \in [Run -> [status : Nat \cup {NoStatus}, output : Seq(Line)]]
  OBVIOUS
<1> USE DEF DInv
<1>0. MaxRuns \in Nat /\ MaxTyped \in Nat
  BY DriverAssumption
<1>1. /\ runs \in 0 .. MaxRuns /\ typed \in 0 .. MaxTyped
      /\ run \in [Run -> {"not yet", "waiting", "done", "late"}]
      /\ answer \in [Run -> [status : Nat \cup {NoStatus}, output : Seq(Line)]]
      /\ exit \in [Run -> Status \cup {NoStatus}]
  BY DEF TypeOK
<1>2. CASE UNCHANGED <<runs, run, answer, typed>>
  BY <1>1, <1>2
<1>3. CASE Ask
  <2>1. typed' = typed /\ answer' = answer /\ run' = [run EXCEPT ![runs + 1] = "waiting"]
        /\ runs < MaxRuns /\ runs' = runs + 1
    BY <1>3 DEF Ask
  <2>2. runs' \in 0 .. MaxRuns
    BY <1>0, <1>1, <2>1, Counted
  <2> QED BY <1>1, <2>1, <2>2
<1>4. CASE Type \/ TypeHalf \/ Interrupt
  <2>1. runs' = runs /\ run' = run /\ answer' = answer /\ typed < MaxTyped /\ typed' = typed + 1
    BY <1>4 DEF Type, TypeHalf, Interrupt
  <2>2. typed' \in 0 .. MaxTyped
    BY <1>0, <1>1, <2>1, Counted
  <2> QED BY <1>1, <2>1, <2>2
<1>5. ASSUME NEW r \in Run, Resolve(r)
      PROVE  /\ runs' \in 0 .. MaxRuns /\ typed' \in 0 .. MaxTyped
             /\ run' \in [Run -> {"not yet", "waiting", "done", "late"}]
             /\ answer' \in [Run -> [status : Nat \cup {NoStatus}, output : Seq(Line)]]
  <2>1. PICK s \in Nat \cup {NoStatus} :
          answer' = [answer EXCEPT ![r] = [status |-> s, output |-> OutputOf(transcript, r)]]
    <3>1. transcript[Max(Completion(transcript, r))].n = exit[r]
      BY <1>5, ReadBack DEF Resolve
    <3>2. exit[r] \in Nat \cup {NoStatus}
      BY <1>1, DriverAssumption
    <3> QED BY <1>5, <3>1, <3>2 DEF Resolve
  <2>2. OutputOf(transcript, r) \in Seq(Line)
    BY <1>5, OutputIsLines DEF Resolve
  <2>3. answer' \in [Run -> [status : Nat \cup {NoStatus}, output : Seq(Line)]]
    BY <1>1, <2>1, <2>2
  <2> QED BY <1>1, <1>5, <2>3 DEF Resolve
<1>8. ASSUME NEW r \in Run, TimeOut(r)
      PROVE  /\ runs' \in 0 .. MaxRuns /\ typed' \in 0 .. MaxTyped
             /\ run' \in [Run -> {"not yet", "waiting", "done", "late"}]
             /\ answer' \in [Run -> [status : Nat \cup {NoStatus}, output : Seq(Line)]]
  BY <1>1, <1>8 DEF TimeOut
<1>6. CASE Guest
  BY <1>2, <1>6
     DEF Guest, Arrive, Begin, BeginSpoilt, BeginLost, WriteLine, WriteAside, Eat, End, Close, page
<1>7. CASE UNCHANGED vars
  BY <1>2, <1>7 DEF vars
<1> QED BY <1>3, <1>4, <1>5, <1>6, <1>7, <1>8 DEF Next

\* What is known of part of a line, and of what is printed aside.
LEMMA AsideTyped ==
  DInv /\ [Next]_vars =>
    half' \in BOOLEAN /\ joined' \subseteq Run /\ aside' \in 0 .. MaxAside
<1> SUFFICES ASSUME DInv, [Next]_vars
    PROVE  half' \in BOOLEAN /\ joined' \subseteq Run /\ aside' \in 0 .. MaxAside
  OBVIOUS
<1> USE DEF DInv
<1>1. /\ half \in BOOLEAN /\ joined \subseteq Run /\ aside \in 0 .. MaxAside
      /\ MaxAside \in Nat /\ runs \in 0 .. MaxRuns
  BY DriverAssumption DEF TypeOK
<1>2. CASE Ask
  <2>1. runs + 1 \in Run
    BY <1>1, <1>2, DriverAssumption DEF Ask, Run
  <2>2. half' = FALSE /\ aside' = aside
    BY <1>2 DEF Ask
  <2>3. joined' = joined \/ joined' = joined \cup {runs + 1}
    BY <1>2 DEF Ask
  <2> QED BY <1>1, <2>1, <2>2, <2>3
<1>3. CASE Type \/ TypeHalf \/ Interrupt
  BY <1>1, <1>3 DEF Type, TypeHalf, Interrupt
<1>4. CASE WriteAside
  <2>1. aside' \in 0 .. MaxAside
    BY <1>1, <1>4, Counted DEF WriteAside
  <2> QED BY <1>1, <1>4, <2>1 DEF WriteAside, page
<1>5. CASE UNCHANGED <<half, joined, aside>>
  BY <1>1, <1>5
<1>6. Ask \/ Type \/ TypeHalf \/ Interrupt \/ WriteAside \/ UNCHANGED <<half, joined, aside>>
  BY DEF Next, vars, Resolve, TimeOut, Guest, Arrive, Begin, BeginSpoilt, BeginLost,
         WriteLine, Eat, End, Close, page
<1> QED BY <1>2, <1>3, <1>4, <1>5, <1>6

\* What the guest knows.
LEMMA GuestTyped ==
  DInv /\ [Next]_vars =>
    /\ wire' \in Seq(Run \cup {Reader}) /\ tty' \in Seq(Run \cup {Reader})
    /\ shell' \in [of : Run \cup {Reader}, at : {"prompt", "command", "closing"}, n : Nat]
    /\ exit' \in [Run -> Status \cup {NoStatus}]
<1> DEFINE Goal ==
      /\ wire' \in Seq(Run \cup {Reader}) /\ tty' \in Seq(Run \cup {Reader})
      /\ shell' \in [of : Run \cup {Reader}, at : {"prompt", "command", "closing"}, n : Nat]
      /\ exit' \in [Run -> Status \cup {NoStatus}]
<1> SUFFICES ASSUME DInv, [Next]_vars PROVE Goal
  OBVIOUS
<1> USE DEF DInv
<1>1. /\ wire \in Seq(Run \cup {Reader}) /\ tty \in Seq(Run \cup {Reader})
      /\ shell \in [of : Run \cup {Reader}, at : {"prompt", "command", "closing"}, n : Nat]
      /\ exit \in [Run -> Status \cup {NoStatus}]
  BY DEF TypeOK
<1>2. Idle \in [of : Run \cup {Reader}, at : {"prompt", "command", "closing"}, n : Nat]
  BY DEF Idle
<1>3. CASE UNCHANGED vars \/ \E r \in Run : Resolve(r) \/ TimeOut(r)
  BY <1>1, <1>3 DEF vars, Resolve, TimeOut
<1>4. CASE Ask
  <2>1. runs + 1 \in Run /\ wire' = Append(wire, runs + 1)
    <3>1. runs \in 0 .. MaxRuns
      BY DEF TypeOK
    <3> QED BY <1>4, <3>1, DriverAssumption DEF Ask, Run
  <2>2. wire' \in Seq(Run \cup {Reader})
    BY <1>1, <2>1
  <2> QED BY <1>1, <1>4, <2>2 DEF Ask
<1>5. CASE Type
  <2>1. wire' \in Seq(Run \cup {Reader})
    BY <1>1, <1>5 DEF Type
  <2> QED BY <1>1, <1>5, <2>1 DEF Type
<1>6. CASE Interrupt
  BY <1>1, <1>2, <1>6 DEF Interrupt
<1>13. CASE TypeHalf
  BY <1>1, <1>13 DEF TypeHalf
<1>14. CASE WriteAside
  BY <1>1, <1>14 DEF WriteAside
<1>7. CASE Arrive
  <2>1. wire # << >> /\ tty' = Append(tty, Head(wire)) /\ wire' = Tail(wire)
    BY <1>7 DEF Arrive
  <2>2. wire' \in Seq(Run \cup {Reader}) /\ tty' \in Seq(Run \cup {Reader})
    BY <1>1, <2>1
  <2> QED BY <1>1, <1>7, <2>2 DEF Arrive
<1>8. CASE Begin \/ BeginSpoilt \/ BeginLost
  <2>1. tty # << >> /\ tty' = Tail(tty) /\ wire' = wire /\ exit' = exit
    BY <1>8 DEF Begin, BeginSpoilt, BeginLost
  <2>2. tty' \in Seq(Run \cup {Reader}) /\ Head(tty) \in Run \cup {Reader}
    BY <1>1, <2>1
  <2>3. PICK of \in Run \cup {Reader} : shell' = [of |-> of, at |-> "command", n |-> 0]
    BY <1>8, <2>2 DEF Begin, BeginSpoilt, BeginLost
  <2> QED BY <1>1, <2>1, <2>2, <2>3
<1>9. CASE WriteLine
  BY <1>1, <1>9 DEF WriteLine
<1>10. CASE Eat
  <2>1. tty # << >> /\ tty' = Tail(tty)
    BY <1>10 DEF Eat
  <2>2. tty' \in Seq(Run \cup {Reader})
    BY <1>1, <2>1
  <2> QED BY <1>1, <1>10, <2>2 DEF Eat
<1>11. CASE End
  BY <1>1, <1>2, <1>11 DEF End
<1>12. CASE Close
  BY <1>1, <1>2, <1>12 DEF Close
<1> QED
  BY <1>3, <1>4, <1>5, <1>6, <1>7, <1>8, <1>9, <1>10, <1>11, <1>12, <1>13, <1>14
     DEF Next, Guest

-----------------------------------------------------------------------------
(***************************************************************************)
(* What a run is told.                                                     *)
(***************************************************************************)
\* The closing line of a run is in the log for good, with what is ahead of it,
\* and so is the status it tells.
LEMMA LogGrows ==
  DInv /\ [Next]_vars =>
    /\ Len(log') >= Len(log)
    /\ \A i \in DOMAIN log : log[i].kind # "ending" \/ i < Len(log) => log'[i] = log[i]
    /\ \A i \in DOMAIN log : log[i].kind = "end" => exit'[log[i].of] = exit[log[i].of]
<1> SUFFICES ASSUME DInv, [Next]_vars
    PROVE  /\ Len(log') >= Len(log)
           /\ \A i \in DOMAIN log : log[i].kind # "ending" \/ i < Len(log) => log'[i] = log[i]
           /\ \A i \in DOMAIN log : log[i].kind = "end" => exit'[log[i].of] = exit[log[i].of]
  OBVIOUS
<1> USE DEF DInv
<1>0. log \in Seq(Line) /\ exit \in [Run -> Status \cup {NoStatus}]
  BY DEF TypeOK
<1>1. Len(log) \in Nat /\ \A i \in DOMAIN log : i \in Nat /\ i <= Len(log)
  BY <1>0
<1>2. /\ Len(log') >= Len(log)
      /\ \A i \in DOMAIN log : log[i].kind # "ending" \/ i < Len(log) => log'[i] = log[i]
  <2>1. CASE UNCHANGED <<transcript, log>>
    BY <1>1, <2>1
  <2>2. CASE \E line \in Line : Says(line)
    BY <1>1, <2>2, SaysFacts
  <2>3. CASE Len(log) > 0 /\ log[Len(log)].kind = "ending" /\ \E line \in Line : SaysRest(line)
    BY <1>1, <2>3, RestFacts
  <2> QED BY <2>1, <2>2, <2>3, WhatIsWritten
<1>3. \A i \in DOMAIN log : log[i].kind = "end" => exit'[log[i].of] = exit[log[i].of]
  <2>1. \A i \in DOMAIN log : log[i].kind = "end" => log[i].of \in Run /\ ~AtShell(log[i].of)
    BY DEF Fenced, Closed
  <2>2. CASE UNCHANGED exit
    BY <2>2
  <2>3. CASE End /\ shell.of # Reader
    BY <1>0, <2>1, <2>3 DEF End, AtShell
  <2>4. UNCHANGED exit \/ (End /\ shell.of # Reader)
    BY DEF Next, Guest, vars, page, Ask, Type, TypeHalf, Interrupt, Resolve, TimeOut, Arrive,
           Begin, BeginSpoilt, BeginLost, WriteLine, WriteAside, Eat, End, Close
  <2> QED BY <2>2, <2>3, <2>4
<1> QED BY <1>2, <1>3

\* What one run was told.
OwnLine(line, r) == line.kind \notin {"echo", "aside"} => line.kind = "out" /\ line.of = r
OwnLines(output, r) == \A i \in DOMAIN output : OwnLine(output[i], r)

Told(r) ==
  /\ answer[r].status = exit[r] /\ exit[r] # NoStatus
  /\ At(log, "go", r) # {} => OwnLines(answer[r].output, r)
  /\ \E end \in DOMAIN log, start \in Starts(r) :
       log[end] = Printed("end", r, exit[r]) /\ ReadFrom(answer[r].output, start, end)

LEMMA AnsweredIsTold == Answered <=> \A r \in Run : run[r] = "done" => Told(r)
BY DEF Answered, StatusIsOwn, OutputIsOwn, OutputIsWhole, Told, OwnLines, OwnLine, ReadFrom

\* Where a run that has ended begins to read does not change.
LEMMA StartsStay ==
  ASSUME DInv, [Next]_vars, NEW r \in Run, NEW end \in DOMAIN log, Is(log[end], "end", r)
  PROVE  At(log', "go", r) = At(log, "go", r) /\ Starts(r)' = Starts(r)
<1> USE DEF DInv
<1>0. log \in Seq(Line) /\ log' \in Seq(Line) /\ Fenced'
  BY KeptKept, FencedKept DEF TypeOK
<1>1. PICK go \in DOMAIN log : go < end /\ Opens(log[go], r)
  BY DEF Fenced, Closed, Is
<1>2. log'[go] = log[go] /\ go \in DOMAIN log'
  <2>1. go < Len(log) /\ Len(log') >= Len(log)
    BY <1>0, <1>1, LogGrows
  <2> QED BY <1>0, <1>1, <2>1, LogGrows
<1>3. \A i \in DOMAIN log' : Is(log'[i], "go", r) => i = go
  BY <1>0, <1>1, <1>2 DEF Fenced, GoesOnce, Opens, Opening, Is
<1>4. \A i \in DOMAIN log : Is(log[i], "go", r) => i = go
  BY <1>1 DEF Fenced, GoesOnce, Opens, Opening, Is
<1>5. At(log', "go", r) = At(log, "go", r)
  BY <1>1, <1>2, <1>3, <1>4 DEF At, Marker, Is
<1> QED BY <1>5 DEF Starts

\* It stays true.
LEMMA ToldStays ==
  ASSUME DInv, [Next]_vars, NEW r \in Run, Told(r), answer'[r] = answer[r]
  PROVE  Told(r)'
<1> USE DEF DInv
<1>0. log \in Seq(Line) /\ log' \in Seq(Line)
  BY KeptKept DEF TypeOK
<1>1. /\ Len(log') >= Len(log)
      /\ \A i \in DOMAIN log : log[i].kind # "ending" \/ i < Len(log) => log'[i] = log[i]
      /\ \A i \in DOMAIN log : log[i].kind = "end" => exit'[log[i].of] = exit[log[i].of]
  BY LogGrows
<1>2. PICK end \in DOMAIN log, start \in Starts(r) :
        log[end] = Printed("end", r, exit[r]) /\ ReadFrom(answer[r].output, start, end)
  BY DEF Told
<1>3. PICK from \in start .. end - 1 :
        /\ answer[r].output = SubSeq(log, from + 1, end - 1)
        /\ from = start \/ Len(log) - start >= TranscriptLimit
  BY <1>2 DEF ReadFrom
<1>4. log[end].kind = "end" /\ log[end].of = r /\ Is(log[end], "end", r)
  BY <1>2 DEF Printed, Is
<1>5. log'[end] = log[end] /\ exit'[r] = exit[r]
  BY <1>1, <1>4
<1>s. start \in Nat
  <2>1. Starts(r) \subseteq Nat
    BY <1>0 DEF Starts, At
  <2> QED BY <2>1
<1>6. /\ Len(log) \in Nat /\ Len(log') \in Nat
      /\ end \in Nat /\ end <= Len(log) /\ end \in DOMAIN log' /\ from \in Nat /\ end >= 1
      /\ from + 1 <= end /\ Len(log) <= Len(log')
  BY <1>0, <1>1, <1>3, <1>s
<1>7. SubSeq(log', from + 1, end - 1) = SubSeq(log, from + 1, end - 1)
  <2>1. PICK m, n \in Nat : m = from + 1 /\ n = end - 1
    <3>1. from + 1 \in Nat /\ end - 1 \in Nat
      BY <1>6
    <3> QED BY <3>1
  <2>2. /\ 1 <= m /\ m <= n + 1 /\ n <= Len(log) /\ n <= Len(log') /\ m = m + 0 /\ n = n + 0
    BY <1>6, <2>1
  <2>3. \A i \in m .. n : log[i] = log'[i + 0]
    <3> TAKE i \in m .. n
    <3>1. i \in DOMAIN log /\ i < Len(log) /\ i + 0 = i
      BY <1>0, <1>6, <2>1, <2>2
    <3> QED BY <1>1, <3>1
  <2>4. SubSeq(log, m, n) = SubSeq(log', m, n)
    BY <1>0, <2>2, <2>3, SameCut
  <2> QED BY <2>1, <2>4
<1>8. TranscriptLimit \in Nat
  BY DriverAssumption
<1>9. from = start \/ Len(log') - start >= TranscriptLimit
  BY <1>1, <1>3, <1>6, <1>8, <1>s
<1>10. ReadFrom(answer[r].output, start, end)'
  BY <1>3, <1>7, <1>9 DEF ReadFrom
<1>11. At(log', "go", r) = At(log, "go", r) /\ Starts(r)' = Starts(r)
  BY <1>4, StartsStay
<1> QED BY <1>2, <1>5, <1>6, <1>10, <1>11 DEF Told

\* It is true of a run that resolves.
LEMMA ToldAtResolve ==
  ASSUME DInv, NEW r \in Run, Resolve(r)
  PROVE  Told(r)'
<1> USE DEF DInv
<1>0. log \in Seq(Line) /\ answer \in [Run -> [status : Nat \cup {NoStatus}, output : Seq(Line)]]
  BY DEF TypeOK
<1>1. /\ Completion(transcript, r) # {} /\ log' = log /\ exit' = exit
      /\ answer' = [answer EXCEPT ![r] =
           [status |-> transcript[Max(Completion(transcript, r))].n,
            output |-> OutputOf(transcript, r)]]
  BY DEF Resolve
<1>2. transcript[Max(Completion(transcript, r))].n = exit[r] /\ exit[r] # NoStatus
  BY <1>1, ReadBack
<1>3. PICK go \in DOMAIN log, end \in DOMAIN log, start \in Starts(r) :
        /\ Opens(log[go], r) /\ log[end] = Printed("end", r, exit[r])
        /\ Between(go, end, r) /\ go < end
        /\ start \in Nat /\ (At(log, "go", r) # {} => start = go)
        /\ ReadFrom(OutputOf(transcript, r), start, end)
  BY <1>1, ReadBack
<1>5. answer'[r].status = exit[r] /\ answer'[r].output = OutputOf(transcript, r)
  BY <1>0, <1>1, <1>2
<1>6. ASSUME At(log, "go", r) # {} PROVE OwnLines(OutputOf(transcript, r), r)
  <2>1. start = go /\ go \in Nat /\ end \in Nat /\ end <= Len(log)
    BY <1>0, <1>3, <1>6
  <2>2. PICK from \in start .. end - 1 : OutputOf(transcript, r) = SubSeq(log, from + 1, end - 1)
    BY <1>3 DEF ReadFrom
  <2>3. PICK m, n \in Int : m = from + 1 /\ n = end - 1
    BY <1>0
  <2>4. 1 <= m /\ n <= Len(log) /\ m <= n + 1 /\ go < m /\ n < end
    BY <1>0, <2>1, <2>3
  <2>5. /\ Len(SubSeq(log, m, n)) = n - m + 1 /\ SubSeq(log, m, n) \in Seq(Line)
        /\ \A i \in 1 .. n - m + 1 : SubSeq(log, m, n)[i] = log[m + i - 1]
    BY <1>0, <2>4, Cut
  <2>6. \A i \in DOMAIN SubSeq(log, m, n) : OwnLine(SubSeq(log, m, n)[i], r)
    <3> TAKE i \in DOMAIN SubSeq(log, m, n)
    <3>1. i \in 1 .. n - m + 1
      BY <2>5
    <3>2. m + i - 1 \in DOMAIN log /\ go < m + i - 1 /\ m + i - 1 < end
      BY <1>0, <2>1, <2>4, <3>1
    <3>3. Own(log[m + i - 1], r)
      BY <1>3, <3>2 DEF Between
    <3> QED BY <2>5, <3>1, <3>3 DEF Own, OwnLine, Is
  <2> QED BY <2>2, <2>3, <2>6 DEF OwnLines
<1>7. Starts(r)' = Starts(r) /\ ReadFrom(OutputOf(transcript, r), start, end)'
      /\ At(log', "go", r) = At(log, "go", r)
  <2>1. UNCHANGED <<transcript, log>>
    BY DEF Resolve
  <2> QED BY <1>3, <2>1 DEF Starts, At, ReadFrom
<1>8. ReadFrom(answer[r].output, start, end)'
  BY <1>3, <1>5, <1>1 DEF ReadFrom
<1> QED BY <1>1, <1>2, <1>3, <1>5, <1>6, <1>7, <1>8 DEF Told

LEMMA AnsweredKept == DInv /\ [Next]_vars => Answered'
<1> SUFFICES ASSUME DInv, [Next]_vars, NEW r \in Run, run'[r] = "done" PROVE Told(r)'
  BY DEF Answered, StatusIsOwn, OutputIsOwn, OutputIsWhole, Told, OwnLines, OwnLine, ReadFrom
<1> USE DEF DInv
<1>0. /\ run \in [Run -> {"not yet", "waiting", "done", "late"}]
      /\ answer \in [Run -> [status : Nat \cup {NoStatus}, output : Seq(Line)]]
  BY DEF TypeOK
<1>1. ASSUME run[r] = "done", answer'[r] = answer[r] PROVE Told(r)'
  BY <1>1, AnsweredIsTold, ToldStays
<1>2. CASE UNCHANGED <<run, answer>>
  BY <1>1, <1>2
<1>3. CASE Ask
  BY <1>0, <1>1, <1>3 DEF Ask
<1>4. ASSUME NEW q \in Run, Resolve(q) \/ TimeOut(q) PROVE Told(r)'
  <2>1. CASE q # r
    BY <1>0, <1>1, <1>4, <2>1 DEF Resolve, TimeOut
  <2>2. CASE q = r
    <3>1. ~TimeOut(r)
      BY <1>0 DEF TimeOut
    <3> QED BY <1>4, <2>2, <3>1, ToldAtResolve
  <2> QED BY <2>1, <2>2
<1>5. Ask \/ (\E q \in Run : Resolve(q) \/ TimeOut(q)) \/ UNCHANGED <<run, answer>>
  BY DEF Next, Guest, vars, page, Type, TypeHalf, Interrupt, Arrive, Begin, BeginSpoilt,
         BeginLost, WriteLine, WriteAside, Eat, End, Close
<1> QED BY <1>2, <1>3, <1>4, <1>5

-----------------------------------------------------------------------------
LEMMA InitD == Init => DInv
<1> SUFFICES ASSUME Init PROVE DInv
  OBVIOUS
<1>0. /\ half = FALSE /\ joined = {} /\ aside = 0
      /\ runs = 0 /\ typed = 0 /\ wire = << >> /\ tty = << >>
      /\ transcript = << >> /\ log = << >> /\ shell.at = "prompt"
      /\ \A r \in Run : run[r] = "not yet"
  BY DEF Init, Idle
<1>1. DOMAIN << >> = {} /\ Len(<< >>) = 0
  OBVIOUS
<1>2. TypeOK
  <2>1. runs \in 0 .. MaxRuns /\ typed \in 0 .. MaxTyped /\ Len(transcript) <= TranscriptLimit
    <3>1. MaxRuns \in Nat /\ MaxTyped \in Nat /\ TranscriptLimit \in Nat
      BY DriverAssumption
    <3>2. 0 \in 0 .. MaxRuns /\ 0 \in 0 .. MaxTyped /\ 0 <= TranscriptLimit
      BY <3>1
    <3> QED BY <1>0, <1>1, <3>2
  <2>2. answer \in [Run -> [status : Nat \cup {NoStatus}, output : Seq(Line)]]
    <3>1. << >> \in Seq(Line)
      OBVIOUS
    <3> QED BY <3>1 DEF Init
  <2>3. /\ wire \in Seq(Run \cup {Reader}) /\ tty \in Seq(Run \cup {Reader})
        /\ log \in Seq(Line) /\ transcript \in Seq(Line)
    <3>1. << >> \in Seq(Run \cup {Reader}) /\ << >> \in Seq(Line)
      OBVIOUS
    <3> QED BY <1>0, <3>1
  <2>4. /\ run \in [Run -> {"not yet", "waiting", "done", "late"}]
        /\ exit \in [Run -> Status \cup {NoStatus}]
        /\ shell \in [of : Run \cup {Reader}, at : {"prompt", "command", "closing"}, n : Nat]
    BY DEF Init, Idle
  <2>5. half \in BOOLEAN /\ joined \subseteq Run /\ aside \in 0 .. MaxAside
    <3>1. MaxAside \in Nat
      BY DriverAssumption
    <3>2. 0 \in 0 .. MaxAside
      BY <3>1
    <3>3. half = FALSE /\ joined = {} /\ aside = 0
      BY <1>0
    <3> QED BY <3>2, <3>3
  <2> QED BY <2>1, <2>2, <2>3, <2>4, <2>5 DEF TypeOK
<1>3. OneLine
  BY <1>0, <1>1 DEF OneLine, Once, In, Begun
<1>4. Fenced
  BY <1>0, <1>1 DEF Fenced, GoesOnce, AtShell
<1>5. Kept
  <2>1. Len(log) = 0 /\ Len(transcript) = 0 /\ DOMAIN transcript = {}
    BY <1>0, <1>1
  <2>2. Lost = 0
    BY <2>1 DEF Lost
  <2> QED BY <2>1, <2>2 DEF Kept
<1>6. Answered
  BY <1>0 DEF Answered, StatusIsOwn, OutputIsOwn, OutputIsWhole
<1> QED BY <1>2, <1>3, <1>4, <1>5, <1>6 DEF DInv

LEMMA StepD == DInv /\ [Next]_vars => DInv'
<1> SUFFICES ASSUME DInv, [Next]_vars PROVE DInv'
  OBVIOUS
<1>1. TypeOK'
  BY PageTyped, AsideTyped, GuestTyped, KeptKept DEF TypeOK
<1> QED BY <1>1, OneLineKept, FencedKept, KeptKept, AnsweredKept DEF DInv

\* However runs and the reader interleave, the line of a run is in one place,
\* and its fences and its output stand in the log in order, at the end of which
\* the transcript is (agent.js, run; boot.js, watchConsole).
THEOREM Invariant == Spec => []DInv
<1>1. Init => DInv
  BY InitD
<1>2. DInv /\ [Next]_vars => DInv'
  BY StepD
<1> QED BY <1>1, <1>2, PTL DEF Spec

\* A run that resolves with a status was told its own, which is final
\* (agent.js, completion).
THEOREM StatusOfItsOwn == Spec => []StatusIsOwn
<1>1. DInv => StatusIsOwn
  BY DEF DInv, Answered
<1> QED BY <1>1, Invariant, PTL

\* Between its fences no other command of the shell prints, nor is another run
\* opened or closed there (agent.js, outputOf).
THEOREM OutputOfItsOwn == Spec => []OutputIsOwn
<1>1. DInv => OutputIsOwn
  BY DEF DInv, Answered
<1> QED BY <1>1, Invariant, PTL

\* None of its own lines is missing that the console still keeps (agent.js,
\* outputOf; boot.js, watchConsole).
THEOREM OutputComplete == Spec => []OutputIsWhole
<1>1. DInv => OutputIsWhole
  BY DEF DInv, Answered
<1> QED BY <1>1, Invariant, PTL
=============================================================================
